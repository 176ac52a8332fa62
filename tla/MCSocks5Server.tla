--------------------------- MODULE MCSocks5Server ---------------------------
(* Two connections. The first may be a conversation of each kind: every type *)
(* of address, two methods and none, an empty domain, one with a byte that    *)
(* may pass for its length, and a version, a command and a type that are      *)
(* refused.                                                                   *)
EXTENDS Socks5Server

CONSTANTS c1, c2

Hello == <<5, 1, 0>>
Port == <<1, 187>>

MCIpv4 == [greeting |-> <<5, 2, 0, 1>>,
           request |-> <<5, 1, 0, 1, 10, 64, 0, 1>> \o Port]
MCDomain == [greeting |-> Hello, request |-> <<5, 1, 0, 3, 2, 97, 98>> \o Port]
MCEmptyDomain == [greeting |-> Hello, request |-> <<5, 1, 0, 3, 0>> \o Port]
MCMistakable == [greeting |-> Hello,
                 request |-> <<5, 1, 0, 3, 4, 1, 99, 100, 101>> \o Port]
MCNoMethods == [greeting |-> <<5, 0>>, request |-> MCDomain.request]
MCIpv6 == [greeting |-> Hello,
           request |-> <<5, 1, 0, 4>> \o [i \in 1..16 |-> i] \o Port]
MCBind == [greeting |-> Hello, request |-> <<5, 2, 0, 1, 10, 64, 0, 1>> \o Port]
MCType == [greeting |-> Hello, request |-> <<5, 1, 0, 2, 10, 64, 0, 1>> \o Port]
MCVersion == [greeting |-> <<4, 1, 0>>, request |-> <<>>]

MCConversations ==
    [c \in {c1, c2} |->
        IF c = c1 THEN {MCIpv4, MCDomain, MCEmptyDomain, MCMistakable, MCIpv6,
                        MCNoMethods, MCBind, MCType, MCVersion}
                  ELSE {MCDomain, MCVersion}]
MCOneConversation == [c \in {c1} |-> {MCDomain}]
=============================================================================
