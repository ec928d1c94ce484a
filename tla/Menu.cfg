\* MenuMatchesSession against login's early returns: two addresses and
\* two passwords, any initial user table; two connections so that a
\* session can be lost and a new one made, and
\* five frames: the protocol, authentication and connected menus, and a
\* logout's authentication and connected menus above them.
CONSTANTS
    Emails = {e1, e2}
    Passwords = {p1, p2}
    MaxConns = 2
    MaxDepth = 5
    None = None

SPECIFICATION Spec
\* The client stops: exit(0), or main returning.
CHECK_DEADLOCK FALSE
INVARIANT MenuMatchesSession
