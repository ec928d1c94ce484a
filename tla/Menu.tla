-------------------------------- MODULE Menu --------------------------------
(***************************************************************************)
(* The client's menus, src/src/common/menu.c, with the login of           *)
(* src/src/common/auth/auth_proxy.c and the user table of                  *)
(* src/database/user_db.c.                                                 *)
(*                                                                         *)
(* The three menus are functions that call each other: show_protocol_menu *)
(* calls show_auth_menu, which calls show_connected_menu after a login,   *)
(* which calls show_auth_menu again after a logout; sign_in runs the user *)
(* menu manageDbUser.  Each call pushes a frame and each return pops one, *)
(* so `stack` is the C call stack of the menu thread, top first; a frame  *)
(* is the function and where it resumes ("loop": the top of its do-while, *)
(* or the point after the call it made).  One step is one pass of a       *)
(* menu's loop: the option read and the command it runs.                   *)
(*                                                                         *)
(* The globals is_connected, is_logged_in and option_selected and the     *)
(* AuthProxy are the menu thread's.  What client_communicate returns is  *)
(* the Client module's; here it is any of its codes.  The database may be *)
(* unreachable or refuse a query at any call.                              *)
(***************************************************************************)
EXTENDS Integers, Sequences

CONSTANTS
    Emails,      \* addresses a user may type
    Passwords,   \* passwords a user may type
    MaxConns,    \* bound: connections established in a behaviour
    MaxDepth,    \* bound: frames on the menu thread's stack
    None         \* model value: no authenticated user

ASSUME MaxConns \in Nat /\ MaxDepth \in Nat \ {0}

VARIABLES
    stack,            \* the menu thread's frames, top first: [fn, at]
    is_connected,     \* menu.c globals
    is_logged_in,
    option_selected,  \* 1 UDP, 2 TCP, 0 before the first choice
    auth,             \* AuthProxy: [ok (isAuthenticated), user]
    users,            \* the user table: rows [email, pwd]
    conns,            \* connections established so far (history)
    loginConn,        \* the connection the last successful login was on (history)
    ended             \* "no", "exit" (exit(0)) or "return" (main returned)

vars == <<stack, is_connected, is_logged_in, option_selected, auth, users,
          conns, loginConn, ended>>

Row == [email : Emails, pwd : Passwords]
NoAuth == [ok |-> FALSE, user |-> None]

\* The menu loop whose turn it is: the top frame, at the top of its loop.
At(fn, at) == ended = "no" /\ stack # <<>> /\ Head(stack) = [fn |-> fn, at |-> at]

\* A menu calls another: it will resume at `at`; the callee starts its loop.
Call(at, callee) ==
    /\ Len(stack) < MaxDepth
    /\ stack' = <<[fn |-> callee, at |-> "loop"], [Head(stack) EXCEPT !.at = at]>>
                \o Tail(stack)

\* The top menu returns; when it is show_protocol_menu, main returns.
Return ==
    /\ stack' = Tail(stack)
    /\ ended' = IF Tail(stack) = <<>> THEN "return" ELSE ended

\* The menu goes round its do-while again.
Loop == stack' = <<[Head(stack) EXCEPT !.at = "loop"]>> \o Tail(stack)

(***************************************************************************)
(* show_protocol_menu.                                                     *)
(***************************************************************************)

\* Option 1: select_protocol_and_connect (refused while a connection
\* exists; otherwise the protocol is chosen and init_client_connection
\* succeeds or not), then show_auth_menu if connected.
SelectProtocolAndConnect(proto, ok) ==
    /\ At("protocol", "loop")
    /\ ok => conns < MaxConns
    /\ option_selected' = IF is_connected THEN option_selected ELSE proto
    /\ is_connected' = (is_connected \/ ok)
    /\ conns' = IF ~is_connected /\ ok THEN conns + 1 ELSE conns
    /\ IF is_connected' THEN Call("after", "auth") ELSE UNCHANGED stack
    /\ UNCHANGED <<is_logged_in, auth, users, loginConn, ended>>

\* Option 2: exit_program.
ExitProgram ==
    /\ At("protocol", "loop")
    /\ ended' = "exit"
    /\ UNCHANGED <<stack, is_connected, is_logged_in, option_selected, auth,
                   users, conns, loginConn>>

\* Back from show_auth_menu: the loop runs again only while not connected.
ProtocolResume ==
    /\ At("protocol", "after")
    /\ IF is_connected THEN Return ELSE Loop /\ UNCHANGED ended
    /\ UNCHANGED <<is_connected, is_logged_in, option_selected, auth, users,
                   conns, loginConn>>

(***************************************************************************)
(* show_auth_menu.                                                         *)
(***************************************************************************)

\* authenticate: the statement runs (the database is reachable and every
\* prepare, bind and execute succeeds: dbOk) and the row fetched first for
\* the email holds the password; crypt with the fixed salt is the same
\* function createUser stored, so a password matches exactly itself.
Authenticate(first, pwd, dbOk) == dbOk /\ first.pwd = pwd

\* logout_proxy: the AuthProxy is cleared (it is already clear otherwise).
LogoutProxy == auth' = NoAuth

\* Option 1: login clears the AuthProxy and authenticates: the row the
\* SELECT fetches first for the email must hold the password; the
\* connected menu follows a success.
Login(email, pwd, dbOk) ==
    LET rows == {r \in users : r.email = email}
    IN  /\ At("auth", "loop")
        /\ \E first \in rows \cup {[email |-> email, pwd |-> None]} :
              /\ (first.pwd = None) = (rows = {})
              /\ LET success == Authenticate(first, pwd, dbOk)
                 IN  /\ is_logged_in' = success
                     /\ auth' = IF success THEN [ok |-> TRUE, user |-> email] ELSE NoAuth
                     /\ loginConn' = IF success THEN conns ELSE loginConn
                     /\ IF success THEN Call("after_login", "connected")
                                   ELSE UNCHANGED stack
        /\ UNCHANGED <<is_connected, option_selected, users, conns, ended>>

\* Option 1 (also what get_int_input returns at end of input) when the
\* fgets of the email or of the password fails: login returns before it
\* clears the AuthProxy or sets is_logged_in, and show_auth_menu opens the
\* connected menu if the flag is still set from an earlier session.
LoginReadFails ==
    /\ At("auth", "loop")
    /\ IF is_logged_in THEN Call("after_login", "connected") ELSE UNCHANGED stack
    /\ UNCHANGED <<is_connected, is_logged_in, option_selected, auth, users,
                   conns, loginConn, ended>>

\* Option 2: sign_in runs the user menu, with no login asked.
SignIn ==
    /\ At("auth", "loop")
    /\ Call("after_signin", "users")
    /\ UNCHANGED <<is_connected, is_logged_in, option_selected, auth, users,
                   conns, loginConn, ended>>

\* Option 3 of this menu, option 5 of the connected one: disconnect closes
\* the socket and exits; without a connection the menu returns.
Disconnect(fn) ==
    /\ At(fn, "loop")
    /\ IF is_connected
       THEN /\ is_connected' = FALSE /\ ended' = "exit" /\ UNCHANGED stack
       ELSE /\ UNCHANGED is_connected
            /\ Return
    /\ UNCHANGED <<is_logged_in, option_selected, auth, users, conns, loginConn>>

\* Back from the connected menu or the user menu: loop while connected and
\* not logged in, return otherwise.
AuthResume ==
    /\ \/ At("auth", "after_login")
       \/ At("auth", "after_signin")
    /\ IF is_connected /\ ~is_logged_in THEN Loop /\ UNCHANGED ended ELSE Return
    /\ UNCHANGED <<is_connected, is_logged_in, option_selected, auth, users,
                   conns, loginConn>>

(***************************************************************************)
(* manageDbUser.                                                           *)
(***************************************************************************)

\* Option 1: createUser inserts the row, unless a field is empty, the
\* database is unreachable or the INSERT fails (ok = FALSE).
CreateUser(row, ok) ==
    /\ At("users", "loop")
    /\ users' = IF ok THEN users \cup {row} ELSE users
    /\ UNCHANGED <<stack, is_connected, is_logged_in, option_selected, auth,
                   conns, loginConn, ended>>

\* Option 3: deleteUser removes every row with the email.
DeleteUser(email, ok) ==
    /\ At("users", "loop")
    /\ users' = IF ok THEN {r \in users : r.email # email} ELSE users
    /\ UNCHANGED <<stack, is_connected, is_logged_in, option_selected, auth,
                   conns, loginConn, ended>>

\* Option 0, or input that is not a number: the user menu returns.
EndUserMenu ==
    /\ At("users", "loop")
    /\ Return
    /\ UNCHANGED <<is_connected, is_logged_in, option_selected, auth, users,
                   conns, loginConn>>

(***************************************************************************)
(* show_connected_menu.                                                    *)
(***************************************************************************)

\* Option 1: send_message, i.e. start_communication: a UDP call that
\* returns 1 (timeout) or a negative code, or a TCP call that returns -1,
\* drops the connection, and the menu returns.
SendMessage(code) ==
    /\ At("connected", "loop")
    /\ is_connected' = (is_connected /\ IF option_selected = 1 THEN code = 0 ELSE code # -1)
    /\ IF is_connected' /\ is_logged_in THEN UNCHANGED <<stack, ended>> ELSE Return
    /\ UNCHANGED <<is_logged_in, option_selected, auth, users, conns, loginConn>>

\* Option 4: logout clears the AuthProxy and is_logged_in; while still
\* connected it calls show_auth_menu.
Logout ==
    /\ At("connected", "loop")
    /\ LogoutProxy
    /\ is_logged_in' = FALSE
    /\ IF is_connected THEN Call("after_logout", "auth") ELSE Return
    /\ UNCHANGED <<is_connected, option_selected, users, conns, loginConn, ended>>

\* Back from the show_auth_menu a logout called: return.
ConnectedResume ==
    /\ At("connected", "after_logout")
    /\ Return
    /\ UNCHANGED <<is_connected, is_logged_in, option_selected, auth, users,
                   conns, loginConn>>

(***************************************************************************)
(* Specification.                                                          *)
(***************************************************************************)
Init ==
    /\ stack = <<[fn |-> "protocol", at |-> "loop"]>>
    /\ is_connected = FALSE
    /\ is_logged_in = FALSE
    /\ option_selected = 0
    /\ auth = NoAuth
    /\ users \in SUBSET Row
    /\ conns = 0
    /\ loginConn = 0
    /\ ended = "no"

Next ==
    \/ \E proto \in {1, 2}, ok \in BOOLEAN : SelectProtocolAndConnect(proto, ok)
    \/ ExitProgram \/ ProtocolResume
    \/ \E e \in Emails, p \in Passwords, ok \in BOOLEAN : Login(e, p, ok)
    \/ LoginReadFails
    \/ SignIn \/ AuthResume
    \/ \E fn \in {"auth", "connected"} : Disconnect(fn)
    \/ \E r \in Row, ok \in BOOLEAN : CreateUser(r, ok)
    \/ \E e \in Emails, ok \in BOOLEAN : DeleteUser(e, ok)
    \/ EndUserMenu
    \/ \E code \in {-1, 0, 1} : SendMessage(code)
    \/ Logout \/ ConnectedResume

\* The user chooses the options; nothing is promised about what they do.
Spec == Init /\ [][Next]_vars

(***************************************************************************)
(* Properties.                                                             *)
(***************************************************************************)
\* The menu on screen matches the session, however the menus were entered
\* and left: the protocol menu runs only without a connection, the
\* authentication menu only with one, and the connected menu only with a
\* connection on which this user logged in successfully (the AuthProxy
\* holds them), never on a flag left by an earlier connection.
MenuMatchesSession ==
    /\ At("protocol", "loop") => ~is_connected
    /\ At("auth", "loop") => is_connected
    /\ At("connected", "loop") => is_connected /\ auth.ok /\ loginConn = conns

=============================================================================
