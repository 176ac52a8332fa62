\* Is a client that greets the server answered?
SPECIFICATION FairSpec
CONSTANTS
    c1 = c1
    c2 = c2
    Clients = {c1}
    Conversations <- MCOneConversation
PROPERTY
    HandshakeAnswered
