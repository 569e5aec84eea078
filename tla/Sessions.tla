------------------------------- MODULE Sessions -------------------------------
(***************************************************************************)
(* Staying logged in: AuthService's login, refreshTokens and logout over   *)
(* the sessions table, the worker that cleans it, and the browser side     *)
(* (apiRequest and AuthContext), which keeps one refresh token per device  *)
(* and presents it whenever a request is answered 401.                     *)
(*                                                                         *)
(* One account with several devices.  The calls of a device run side by    *)
(* side (parallel requests, several tabs), interleave at every await of    *)
(* the server, and their answers may be lost.                              *)
(*                                                                         *)
(* A refresh token is a JWT of the user, the family and the second it was  *)
(* signed in, so that two of a family signed in one second are the same    *)
(* token.  Access tokens and passwords are not modelled: any request may   *)
(* be answered 401, and who logs in knows the password.                    *)
(***************************************************************************)
EXTENDS Integers, FiniteSets

CONSTANTS
    Devices,       \* browsers, each with its localStorage
    Calls,         \* API calls in progress
    Families,      \* bound: the family ids a login can draw
    RowIds,        \* bound: the sessions rows there can be
    Life,          \* how long a refresh token is valid
    MaxTime,       \* bound: when the clock stops
    None

Token == [family : Families, issued : 0..MaxTime]

ASSUME SessionsAssumption ==
    /\ Life \in Nat \ {0} /\ MaxTime \in Nat
    /\ None \notin Devices \cup RowIds /\ None \notin Token

VARIABLES
    now,
    active,        \* users.status is ACTIVE
    rows,          \* the sessions table: the token of a row, None if it is free
    stored,        \* the refresh token in the localStorage of a device
    pc, device, sent, found, granted,   \* of a call in progress
    spent,         \* history: the tokens exchanged, not expired or ended since
    ended,         \* history: the families logged out of or revoked
    together       \* history: the families two calls were busy with at once

db      == <<active, rows>>
locals  == <<device, sent, found, granted>>
history == <<spent, ended, together>>
vars    == <<now, db, stored, pc, locals, history>>

Init ==
    /\ now = 0
    /\ active = TRUE
    /\ rows = [i \in RowIds |-> None]
    /\ stored = [d \in Devices |-> None]
    /\ pc = [p \in Calls |-> "idle"]
    /\ device = [p \in Calls |-> None]
    /\ sent = [p \in Calls |-> None]
    /\ found = [p \in Calls |-> None]
    /\ granted = [p \in Calls |-> None]
    /\ spent = {} /\ ended = {} /\ together = {}

At(p, l)   == pc[p] = l
Goto(p, l) == pc' = [pc EXCEPT ![p] = l]

Leave(p) ==
    /\ Goto(p, "idle")
    /\ device' = [device EXCEPT ![p] = None]
    /\ sent' = [sent EXCEPT ![p] = None]
    /\ found' = [found EXCEPT ![p] = None]
    /\ granted' = [granted EXCEPT ![p] = None]

\* jwt.verify at any time from the exp of the token on.
Expired(t) == now >= t.issued + Life

RowsOf(f) == {i \in RowIds : rows[i] # None /\ rows[i].family = f}
Delete(ids) == rows' = [i \in RowIds |-> IF i \in ids THEN None ELSE rows[i]]

End(f) ==
    /\ ended' = ended \cup {f}
    /\ spent' = {t \in spent : t.family # f}

\* createSession with a token of family f, signed now, under an id nobody knows.
Issue(p, f) ==
    \E i \in RowIds :
        /\ rows[i] = None /\ \A q \in Calls : found[q] # i
        /\ rows' = [rows EXCEPT ![i] = [family |-> f, issued |-> now]]
        /\ granted' = [granted EXCEPT ![p] = [family |-> f, issued |-> now]]

\* A device sends the token it holds along with a call.
Present(p, d, l) ==
    /\ At(p, "idle") /\ stored[d] # None
    /\ device' = [device EXCEPT ![p] = d]
    /\ sent' = [sent EXCEPT ![p] = stored[d]]
    /\ together' = IF \E q \in Calls : /\ ~At(q, "idle") /\ sent[q] # None
                                       /\ sent[q].family = stored[d].family
                   THEN together \cup {stored[d].family} ELSE together
    /\ Goto(p, l)
    /\ UNCHANGED <<now, db, stored, found, granted, spent, ended>>

-----------------------------------------------------------------------------
(* AuthService.login                                                       *)

LoginRead(p, d) ==
    /\ At(p, "idle")
    /\ active
    /\ device' = [device EXCEPT ![p] = d]
    /\ Goto(p, "login_issue")
    /\ UNCHANGED <<now, db, stored, sent, found, granted, history>>

\* familyId is a new uuid.
LoginIssue(p) ==
    /\ At(p, "login_issue")
    /\ \E f \in Families :
          /\ \A i \in RowIds : rows[i] # None => rows[i].family # f
          /\ \A q \in Calls : /\ sent[q] # None => sent[q].family # f
                              /\ granted[q] # None => granted[q].family # f
          /\ \A d \in Devices : stored[d] # None => stored[d].family # f
          /\ f \notin ended \cup together
          /\ Issue(p, f)
    /\ Goto(p, "granted")
    /\ UNCHANGED <<now, active, stored, device, sent, found, history>>

-----------------------------------------------------------------------------
(* AuthService.refreshTokens, called by apiRequest                         *)

RefreshCall(p, d) == Present(p, d, "refresh_find")

RefreshFind(p) ==
    /\ At(p, "refresh_find")
    /\ \/ Expired(sent[p]) /\ Goto(p, "denied") /\ UNCHANGED found
       \/ /\ ~Expired(sent[p])
          /\ \E i \in RowIds : /\ rows[i] = sent[p]
                               /\ found' = [found EXCEPT ![p] = i]
          /\ Goto(p, "refresh_delete")
       \/ /\ ~Expired(sent[p])
          /\ \A i \in RowIds : rows[i] # sent[p]
          /\ Goto(p, "refresh_revoke")
          /\ UNCHANGED found
    /\ UNCHANGED <<now, db, stored, device, sent, granted, history>>

\* Mutant: only the session of the token itself, which is gone.
RefreshRevokeToken(p) ==
    /\ At(p, "refresh_revoke")
    /\ Delete({i \in RowIds : rows[i] = sent[p]})
    /\ End(sent[p].family)
    /\ Goto(p, "denied")
    /\ UNCHANGED <<now, active, stored, locals, together>>

RefreshRevoke(p) ==
    /\ At(p, "refresh_revoke")
    /\ Delete(RowsOf(sent[p].family))
    /\ End(sent[p].family)
    /\ Goto(p, "denied")
    /\ UNCHANGED <<now, active, stored, locals, together>>

\* Mutant: the old session is left to expire.
RefreshKeep(p) ==
    /\ At(p, "refresh_delete")
    /\ spent' = IF sent[p].family \in ended THEN spent ELSE spent \cup {sent[p]}
    /\ found' = [found EXCEPT ![p] = None]
    /\ Goto(p, "refresh_user")
    /\ UNCHANGED <<now, db, stored, device, sent, granted, ended, together>>

RefreshDelete(p) ==
    /\ At(p, "refresh_delete")
    /\ Delete({found[p]})
    /\ spent' = IF sent[p].family \in ended THEN spent ELSE spent \cup {sent[p]}
    /\ found' = [found EXCEPT ![p] = None]
    /\ Goto(p, "refresh_user")
    /\ UNCHANGED <<now, active, stored, device, sent, granted, ended, together>>

RefreshUser(p) ==
    /\ At(p, "refresh_user")
    /\ Goto(p, IF active THEN "refresh_issue" ELSE "denied")
    /\ UNCHANGED <<now, db, stored, locals, history>>

RefreshIssue(p) ==
    /\ At(p, "refresh_issue")
    /\ Issue(p, sent[p].family)
    /\ Goto(p, "granted")
    /\ UNCHANGED <<now, active, stored, device, sent, found, history>>

-----------------------------------------------------------------------------
(* AuthService.logout; AuthContext forgets the token in any case           *)

LogoutCall(p, d) == Present(p, d, "logout_find")

LogoutFind(p) ==
    /\ At(p, "logout_find")
    /\ \/ \E i \in RowIds : /\ rows[i] = sent[p]
                            /\ found' = [found EXCEPT ![p] = i]
                            /\ Goto(p, "logout_delete")
       \/ /\ \A i \in RowIds : rows[i] # sent[p]
          /\ Goto(p, "denied")
          /\ UNCHANGED found
    /\ UNCHANGED <<now, db, stored, device, sent, granted, history>>

LogoutDelete(p) ==
    /\ At(p, "logout_delete")
    /\ Delete({found[p]})
    /\ End(sent[p].family)
    /\ found' = [found EXCEPT ![p] = None]
    /\ Goto(p, "denied")
    /\ UNCHANGED <<now, active, stored, device, sent, granted, together>>

-----------------------------------------------------------------------------
(* What the browser does with the answer                                   *)

Granted(p) ==
    /\ At(p, "granted")
    /\ stored' = [stored EXCEPT ![device[p]] = granted[p]]
    /\ Leave(p)
    /\ UNCHANGED <<now, db, history>>

\* Also the end of a logout: the token is removed.
Denied(p) ==
    /\ At(p, "denied")
    /\ stored' = [stored EXCEPT ![device[p]] = None]
    /\ Leave(p)
    /\ UNCHANGED <<now, db, history>>

\* The page was left or the connection broke; the server went on.
AnswerLost(p) ==
    /\ pc[p] \in {"granted", "denied"}
    /\ Leave(p)
    /\ UNCHANGED <<now, db, stored, history>>

\* AuthContext.loadUser forgets the tokens on any error of its request.
LoadFails(d) ==
    /\ stored[d] # None
    /\ stored' = [stored EXCEPT ![d] = None]
    /\ UNCHANGED <<now, db, pc, locals, history>>

-----------------------------------------------------------------------------
\* Mutant: the comparison the wrong way round.
CleanUnexpired ==
    /\ Delete({i \in RowIds : rows[i] # None /\ ~Expired(rows[i])})
    /\ UNCHANGED <<now, active, stored, pc, locals, history>>

\* BackgroundWorker.cleanExpiredSessions.  expires_at lies in the second in which
\* the token expires.
Clean ==
    /\ Delete({i \in RowIds : rows[i] # None /\ Expired(rows[i])})
    /\ UNCHANGED <<now, active, stored, pc, locals, history>>

\* AdminController.updateUserStatus.
SetActive(a) ==
    /\ active' = a
    /\ UNCHANGED <<now, rows, stored, pc, locals, history>>

Tick ==
    /\ now < MaxTime
    /\ now' = now + 1
    /\ spent' = {t \in spent : now' < t.issued + Life}
    /\ UNCHANGED <<db, stored, pc, locals, ended, together>>

Next ==
    \/ \E p \in Calls, d \in Devices :
          LoginRead(p, d) \/ RefreshCall(p, d) \/ LogoutCall(p, d)
    \/ \E p \in Calls :
          \/ LoginIssue(p)
          \/ RefreshFind(p) \/ RefreshRevoke(p) \/ RefreshDelete(p)
          \/ RefreshUser(p) \/ RefreshIssue(p)
          \/ LogoutFind(p) \/ LogoutDelete(p)
          \/ Granted(p) \/ Denied(p) \/ AnswerLost(p)
    \/ \E d \in Devices : LoadFails(d)
    \/ Clean
    \/ \E a \in BOOLEAN : SetActive(a)
    \/ Tick

Spec == Init /\ [][Next]_vars

-----------------------------------------------------------------------------
\* Every column and every local variable holds a value of its type.
TypeOK ==
    /\ now \in 0..MaxTime
    /\ active \in BOOLEAN
    /\ rows \in [RowIds -> Token \cup {None}]
    /\ stored \in [Devices -> Token \cup {None}]
    /\ pc \in [Calls -> {"idle", "login_issue", "refresh_find", "refresh_revoke",
                         "refresh_delete", "refresh_user", "refresh_issue",
                         "logout_find", "logout_delete", "granted", "denied"}]
    /\ device \in [Calls -> Devices \cup {None}]
    /\ sent \in [Calls -> Token \cup {None}]
    /\ found \in [Calls -> RowIds \cup {None}]
    /\ granted \in [Calls -> Token \cup {None}]
    /\ spent \subseteq Token
    /\ ended \cup together \subseteq Families

\* Rotation: however refreshes, logins and logouts of the devices interleave
\* and whatever answers are lost, a family has one session at most, unless two
\* calls presented its token at once.
OneSessionPerFamily ==
    \A f \in Families \ together : Cardinality(RowsOf(f)) <= 1

\* "Revoke the entire family", and logout: unless two calls were busy with it at
\* once, a family that ended has no session ever after.
EndedStaysDead == \A f \in ended \ together : RowsOf(f) = {}

\* A refresh is refused only for a cause: the token is expired or was exchanged
\* before, its family was logged out or revoked, or the account is not active.
\* Nothing another device or the worker does is one.
DeniedForCause ==
    [][\A p \in Calls :
          /\ pc[p] \in {"refresh_find", "refresh_revoke", "refresh_user"}
          /\ pc'[p] = "denied"
          => \/ Expired(sent[p])
             \/ sent[p] \in spent
             \/ sent[p].family \in ended
             \/ ~active]_vars

\* Rotation and its revocation keep the table of sessions in order.
SessionsInOrder == TypeOK /\ OneSessionPerFamily
==============================================================================
