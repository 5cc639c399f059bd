-------------------------------- MODULE Accounts --------------------------------
(***************************************************************************)
(* apps/access: the accounts and the sessions of remote users are one file. *)
(* A request looks for what it is about in the file as it is, and then      *)
(* changes it, either in one locked read and write or, for some commands,   *)
(* by writing back the account, or the whole file, that it read before.     *)
(*                                                                         *)
(* Passwords, keys, permissions and the time a session lasts are left out;  *)
(* the end of a lock's 15 minutes may come at any time.                     *)
(***************************************************************************)
EXTENDS Integers

CONSTANTS
    User, Ticket,       \* identifiers of accounts and sessions: none is given twice
    Request,            \* threads and commands
    Absent,
    Limit,              \* failures that lock an account (5)
    MaxUnlocks          \* bound: locks that end

ASSUME AccountsAssumption ==
    /\ Absent \notin User /\ User \cap Ticket = {}
    /\ Absent \notin [enabled : BOOLEAN, failures : Nat, locked : BOOLEAN]
    /\ Absent \notin [owner : User, revoked : BOOLEAN]
    /\ Limit \in Nat \ {0} /\ MaxUnlocks \in Nat

VARIABLES
    users, sessions,    \* the file
    given,              \* the identifiers given so far
    request,            \* what each is doing, on what, and what it has read
    guesses,            \* history: wrong passwords since the last right one or unlock
    ended,              \* history: accounts deleted, sessions revoked or deleted
    overwritten,        \* history: an account or a file was written back that had changed
    unlocks

accountsVars == <<users, sessions, given, request, guesses, ended, overwritten, unlocks>>

Document == [users |-> users, sessions |-> sessions]
NoRequest == [does |-> "nothing"]

AccountsInit ==
    /\ users = [u \in User |-> Absent] /\ sessions = [t \in Ticket |-> Absent]
    /\ given = {} /\ request = [r \in Request |-> NoRequest]
    /\ guesses = [u \in User |-> 0] /\ ended = {} /\ overwritten = FALSE
    /\ unlocks = 0

Doing(r, what) == request[r].does = what
Becomes(r, value) == request' = [request EXCEPT ![r] = value]
Done(r) == Becomes(r, NoRequest)

-----------------------------------------------------------------------------
\* create_user
AddUser(u) ==
    /\ u \notin given /\ given' = given \cup {u}
    /\ users' = [users EXCEPT ![u] = [enabled |-> TRUE, failures |-> 0, locked |-> FALSE]]
    /\ UNCHANGED <<sessions, request, guesses, ended, overwritten, unlocks>>

\* user(), sessions() or load(): what it is about must be there.
LookUp(r, what, u, t) ==
    /\ Doing(r, "nothing")
    /\ \/ what \in {"login", "delete", "account"} /\ users[u] # Absent
       \/ what = "session" /\ sessions[t] # Absent /\ sessions[t].owner = u
       \/ what = "role"
    /\ Becomes(r, [does |-> what, user |-> u, ticket |-> t,
                   read |-> CASE what = "role" -> Document
                              [] what = "session" -> sessions[t]
                              [] what \in {"login", "account"} -> users[u]
                              [] what = "delete" -> Absent])
    /\ UNCHANGED <<users, sessions, given, guesses, ended, overwritten, unlocks>>

Usable(account) == account # Absent /\ account.enabled /\ ~account.locked
Missed(account) == [account EXCEPT !.failures = @ + 1, !.locked = account.failures + 1 >= Limit]
\* As far as one beyond the limit.
OneMore(n) == IF n > Limit THEN n ELSE n + 1
Welcome(account) == [account EXCEPT !.failures = 0, !.locked = FALSE]

\* Fault: the account that was looked up is counted and written back.
AttemptOnCopy(r, right) ==
    LET u == request[r].user
        account == request[r].read
    IN /\ Doing(r, "login")
       /\ IF ~Usable(account)
          THEN Done(r) /\ UNCHANGED <<users, guesses>>
          ELSE IF right
          THEN /\ users' = [users EXCEPT ![u] = Welcome(account)]
               /\ guesses' = [guesses EXCEPT ![u] = 0]
               /\ Becomes(r, [request[r] EXCEPT !.does = "open", !.read = Absent])
          ELSE /\ users' = [users EXCEPT ![u] = Missed(account)]
               /\ guesses' = [guesses EXCEPT ![u] = OneMore(@)]
               /\ Done(r)
       /\ UNCHANGED <<sessions, given, ended, overwritten, unlocks>>

\* authenticate_password: counted on the account as it is by now.
Attempt(r, right) ==
    LET u == request[r].user
        account == users[u]
    IN /\ Doing(r, "login")
       /\ IF ~Usable(account)
          THEN Done(r) /\ UNCHANGED <<users, guesses>>
          ELSE IF right
          THEN /\ users' = [users EXCEPT ![u] = Welcome(account)]
               /\ guesses' = [guesses EXCEPT ![u] = 0]
               /\ Becomes(r, [request[r] EXCEPT !.does = "open", !.read = Absent])
          ELSE /\ users' = [users EXCEPT ![u] = Missed(account)]
               /\ guesses' = [guesses EXCEPT ![u] = OneMore(@)]
               /\ Done(r)
       /\ UNCHANGED <<sessions, given, ended, overwritten, unlocks>>

\* create_session
OpenSession(r, t) ==
    /\ Doing(r, "open")
    /\ t \notin given /\ given' = given \cup {t}
    /\ sessions' = [sessions EXCEPT ![t] = [owner |-> request[r].user, revoked |-> FALSE]]
    /\ Done(r)
    /\ UNCHANGED <<users, guesses, ended, overwritten, unlocks>>

\* revoke: the session that was read is written back as revoked, even if it is gone.
RevokeSession(r) ==
    LET t == request[r].ticket
    IN /\ Doing(r, "session")
       /\ sessions' = [sessions EXCEPT ![t] = [request[r].read EXCEPT !.revoked = TRUE]]
       /\ ended' = ended \cup {t}
       /\ Done(r)
       /\ UNCHANGED <<users, given, guesses, overwritten, unlocks>>

\* Fault: its sessions are left.
DeleteUserOnly(r) ==
    LET u == request[r].user
        open == {t \in Ticket : sessions[t] # Absent /\ sessions[t].owner = u}
    IN /\ Doing(r, "delete") /\ users[u] # Absent
       /\ users' = [users EXCEPT ![u] = Absent]
       /\ ended' = ended \cup {u} \cup open
       /\ Done(r)
       /\ UNCHANGED <<sessions, given, guesses, overwritten, unlocks>>

\* delete_user: the account, if it is still there, with its sessions.
DeleteUser(r) ==
    LET u == request[r].user
        open == {t \in Ticket : sessions[t] # Absent /\ sessions[t].owner = u}
    IN /\ Doing(r, "delete")
       /\ IF users[u] = Absent
          THEN UNCHANGED <<users, sessions, ended>>
          ELSE /\ users' = [users EXCEPT ![u] = Absent]
               /\ sessions' = [t \in Ticket |-> IF t \in open THEN Absent ELSE sessions[t]]
               /\ ended' = ended \cup {u} \cup open
       /\ Done(r)
       /\ UNCHANGED <<given, guesses, overwritten, unlocks>>

\* access user enable, disable, rotate-password, set-role: save_user writes back the
\* account that was read, and adds it again if it is gone.
WriteBackUser(r, on) ==
    LET u == request[r].user
        read == request[r].read
    IN /\ Doing(r, "account")
       /\ users' = [users EXCEPT ![u] = [read EXCEPT !.enabled = on]]
       /\ overwritten' = (overwritten \/ users[u] # read)
       /\ Done(r)
       /\ UNCHANGED <<sessions, given, guesses, ended, unlocks>>

\* access role create, update, delete: save writes back the file that was read.
WriteBackAll(r) ==
    /\ Doing(r, "role")
    /\ users' = request[r].read.users /\ sessions' = request[r].read.sessions
    /\ overwritten' = (overwritten \/ Document # request[r].read)
    /\ Done(r)
    /\ UNCHANGED <<given, guesses, ended, unlocks>>

\* lanaccess user enable, disable: one read and write.
SwitchUser(u, on) ==
    /\ users[u] # Absent /\ users' = [users EXCEPT ![u].enabled = on]
    /\ UNCHANGED <<sessions, given, request, guesses, ended, overwritten, unlocks>>

\* The 15 minutes have passed.
Unlock(u) ==
    /\ unlocks < MaxUnlocks /\ unlocks' = unlocks + 1
    /\ users[u] # Absent /\ users[u].locked
    /\ users' = [users EXCEPT ![u].locked = FALSE]
    /\ guesses' = [guesses EXCEPT ![u] = 0]
    /\ UNCHANGED <<sessions, given, request, ended, overwritten>>

AccountsNext ==
    \/ \E u \in User : AddUser(u) \/ Unlock(u) \/ \E on \in BOOLEAN : SwitchUser(u, on)
    \/ \E r \in Request :
          \/ \E what \in {"login", "delete", "account", "session", "role"}, u \in User, t \in Ticket :
                LookUp(r, what, u, t)
          \/ \E right \in BOOLEAN : Attempt(r, right)
          \/ \E on \in BOOLEAN : WriteBackUser(r, on)
          \/ \E t \in Ticket : OpenSession(r, t)
          \/ RevokeSession(r) \/ DeleteUser(r) \/ WriteBackAll(r)

AccountsSpec == AccountsInit /\ [][AccountsNext]_accountsVars

-----------------------------------------------------------------------------
\* The variables have their types, and what exists has had its identifier given.
AccountsTypeOK ==
    /\ \A u \in User : users[u] # Absent => u \in given /\ users[u].failures \in Nat
    /\ \A t \in Ticket : sessions[t] # Absent => t \in given /\ sessions[t].owner \in given
    /\ given \subseteq User \cup Ticket

\* Five wrong passwords, however their attempts overlap with each other and with changes of
\* the account, lock it: none is tried beyond them, unless an older account was written back.
GuessesAreCounted ==
    ~overwritten => \A u \in User :
        /\ guesses[u] <= Limit
        /\ guesses[u] = Limit /\ users[u] # Absent => users[u].locked

\* A session that was closed is not valid again, and an account that was deleted does not
\* come back, whatever was read before, unless it was written back by a command.
EndedStaysEnded ==
    ~overwritten =>
        /\ \A t \in Ticket \cap ended : sessions[t] = Absent \/ sessions[t].revoked
        /\ \A u \in User \cap ended : users[u] = Absent
================================================================================
