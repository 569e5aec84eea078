---------------------------- MODULE SignedInProofs ----------------------------
(***************************************************************************)
(* What a signed-in user relies on whatever the page: Sessions, Messaging  *)
(* and Notifications, three components that share no state.                *)
(*                                                                         *)
(* Sessions: for any number of devices, calls, families and rows, and any  *)
(* lifetime of the tokens.  Messaging: for any number of conversations,    *)
(* messages, loads, openings and cuts.  Notifications: for any number of   *)
(* handlers, calls and cuts.  Each has an inductive invariant of its own.  *)
(***************************************************************************)
EXTENDS Sessions, Messaging, Notifications, SequenceTheorems, FiniteSetTheorems,
        FunctionTheorems, TLAPS

-----------------------------------------------------------------------------
(* Sessions                                                                *)

Refreshing == {"refresh_find", "refresh_revoke", "refresh_delete", "refresh_user",
               "refresh_issue"}
Leaving    == {"logout_find", "logout_delete"}

\* Which of its locals a call has set; the row it has found is that of its token, or
\* was deleted and has not been used again.
Locals ==
    \A p \in Calls :
        /\ pc[p] \in {"idle", "login_issue"} => sent[p] = None
        /\ pc[p] \in Refreshing \cup Leaving => sent[p] # None
        /\ pc[p] \in {"refresh_delete", "logout_delete"}
              => found[p] \in RowIds /\ rows[found[p]] \in {sent[p], None}

\* Only one call at a time is busy with a family, unless two presented it at once.
Alone ==
    \A p, q \in Calls :
        p # q /\ sent[p] # None /\ sent[q] # None /\ sent[p].family = sent[q].family
        => sent[p].family \in together

\* A family has one row; the call that is to exchange it knows which, or has deleted
\* it, and has not seen the family end.
Exchange ==
    /\ \A f \in Families \ together : \A i, k \in RowsOf(f) : i = k
    /\ \A p \in Calls :
          sent[p] # None /\ sent[p].family \notin together =>
              /\ pc[p] \in {"refresh_delete", "logout_delete"}
                    => RowsOf(sent[p].family) \subseteq {found[p]}
              /\ pc[p] \in {"refresh_user", "refresh_issue"}
                    => RowsOf(sent[p].family) = {}
              /\ pc[p] \in {"refresh_delete", "refresh_user", "refresh_issue"}
                    => sent[p].family \notin ended

\* The causes for which a token may be refused; none of them goes away.
Void(t) == Expired(t) \/ t \in spent \/ t.family \in ended

Held(t) ==
    \/ \E d \in Devices : stored[d] = t
    \/ \E p \in Calls : t \in {sent[p], granted[p]}

\* Every token somebody holds has its row, or there is a cause that it has not.
Backed ==
    /\ \A t \in Token : Held(t) /\ ~Void(t) => \E i \in RowIds : rows[i] = t
    /\ \A p \in Calls : pc[p] = "refresh_revoke" => Void(sent[p])

Inv == TypeOK /\ Locals /\ Alone /\ Exchange /\ EndedStaysDead /\ Backed

\* What stands for nothing is no token, device or row.
LEMMA NoneIsNoToken == None \notin Token /\ None \notin Devices /\ None \notin RowIds
BY SessionsAssumption

\* Nobody is logged in at first.
LEMMA InitInv == Init => Inv
<1> SUFFICES ASSUME Init PROVE Inv
  OBVIOUS
<1>1. TypeOK
  BY SessionsAssumption, NoneIsNoToken DEF Init, TypeOK
<1>2. Locals
  BY SessionsAssumption, NoneIsNoToken DEF Init, Locals, Refreshing, Leaving
<1>3. Alone
  BY SessionsAssumption, NoneIsNoToken DEF Init, Alone
<1>4. Exchange
  BY SessionsAssumption, NoneIsNoToken DEF Init, Exchange, RowsOf
<1>5. EndedStaysDead
  BY SessionsAssumption, NoneIsNoToken DEF Init, EndedStaysDead
<1>6. Backed
  BY SessionsAssumption, NoneIsNoToken DEF Init, Backed, Held
<1> QED  BY <1>1, <1>2, <1>3, <1>4, <1>5, <1>6 DEF Inv

\* Every step of the calls, the devices and the worker keeps the invariant.
LEMMA Step == Inv /\ [Next]_vars => Inv'
<1> SUFFICES ASSUME Inv, [Next]_vars PROVE Inv'
  OBVIOUS
<1> USE NoneIsNoToken DEF Inv, db, locals, history
<1>1. ASSUME NEW p \in Calls, NEW d \in Devices, LoginRead(p, d) PROVE Inv'
  <2>1. TypeOK'
    BY <1>1 DEF LoginRead, Goto, TypeOK
  <2>2. Locals'
    BY <1>1 DEF LoginRead, At, Goto, Locals, Refreshing, Leaving
  <2>3. Alone'
    BY <1>1 DEF LoginRead, Alone
  <2>4. Exchange'
    BY <1>1 DEF LoginRead, Goto, Exchange, RowsOf
  <2>5. EndedStaysDead'
    BY <1>1 DEF LoginRead, EndedStaysDead, RowsOf
  <2>6. Backed'
    BY <1>1 DEF LoginRead, Goto, Backed, Held, Void, Expired
  <2> QED  BY <2>1, <2>2, <2>3, <2>4, <2>5, <2>6
<1>2. ASSUME NEW p \in Calls, NEW d \in Devices, RefreshCall(p, d) PROVE Inv'
  <2>1. TypeOK'
    BY <1>2 DEF RefreshCall, Present, Goto, TypeOK, Token
  <2>2. Locals'
    BY <1>2 DEF RefreshCall, Present, Goto, TypeOK, Locals
  <2>3. Alone'
    BY <1>2 DEF RefreshCall, Present, At, Locals, Alone
  <2>4. Exchange'
    BY <1>2 DEF RefreshCall, Present, Goto, TypeOK, Exchange, RowsOf
  <2>5. EndedStaysDead'
    BY <1>2 DEF RefreshCall, Present, EndedStaysDead, RowsOf
  <2>6. Backed'
    BY <1>2 DEF RefreshCall, Present, Goto, TypeOK, Backed, Held, Void, Expired
  <2> QED  BY <2>1, <2>2, <2>3, <2>4, <2>5, <2>6
<1>3. ASSUME NEW p \in Calls, NEW d \in Devices, LogoutCall(p, d) PROVE Inv'
  <2>1. TypeOK'
    BY <1>3 DEF LogoutCall, Present, Goto, TypeOK, Token
  <2>2. Locals'
    BY <1>3 DEF LogoutCall, Present, Goto, TypeOK, Locals
  <2>3. Alone'
    BY <1>3 DEF LogoutCall, Present, At, Locals, Alone
  <2>4. Exchange'
    BY <1>3 DEF LogoutCall, Present, Goto, TypeOK, Exchange, RowsOf
  <2>5. EndedStaysDead'
    BY <1>3 DEF LogoutCall, Present, EndedStaysDead, RowsOf
  <2>6. Backed'
    BY <1>3 DEF LogoutCall, Present, Goto, TypeOK, Backed, Held, Void, Expired
  <2> QED  BY <2>1, <2>2, <2>3, <2>4, <2>5, <2>6
<1>4. ASSUME NEW p \in Calls, LoginIssue(p) PROVE Inv'
  <2>1. TypeOK'
    BY <1>4 DEF LoginIssue, Issue, Goto, TypeOK, Token
  <2>2. Locals'
    BY <1>4 DEF LoginIssue, Issue, Goto, Locals, Refreshing, Leaving
  <2>3. Alone'
    BY <1>4 DEF LoginIssue, Alone
  <2>4. Exchange'
    BY <1>4 DEF LoginIssue, Issue, Goto, Exchange, RowsOf
  <2>5. EndedStaysDead'
    BY <1>4 DEF LoginIssue, Issue, EndedStaysDead, RowsOf
  <2>6. Backed'
    BY <1>4 DEF LoginIssue, Issue, Goto, TypeOK, Backed, Held, Void, Expired
  <2> QED  BY <2>1, <2>2, <2>3, <2>4, <2>5, <2>6
<1>5. ASSUME NEW p \in Calls, RefreshFind(p) PROVE Inv'
  <2>1. TypeOK'
    BY <1>5 DEF RefreshFind, Goto, TypeOK
  <2>2. Locals'
    BY <1>5 DEF RefreshFind, At, Goto, TypeOK, Locals, Refreshing
  <2>3. Alone'
    BY <1>5 DEF RefreshFind, Alone
  <2>4. Exchange'
    BY <1>5 DEF RefreshFind, Goto, TypeOK, Exchange, EndedStaysDead, RowsOf, Token
  <2>5. EndedStaysDead'
    BY <1>5 DEF RefreshFind, EndedStaysDead, RowsOf
  <2>6. Backed'
    BY <1>5 DEF RefreshFind, At, Goto, TypeOK, Locals, Backed, Held, Void, Expired, Refreshing
  <2> QED  BY <2>1, <2>2, <2>3, <2>4, <2>5, <2>6
<1>6. ASSUME NEW p \in Calls, RefreshRevoke(p) PROVE Inv'
  <2>1. TypeOK'
    <3>1. sent[p] \in Token /\ sent[p].family \in Families
      BY <1>6 DEF RefreshRevoke, At, TypeOK, Locals, Refreshing, Token
    <3>2. rows' \in [RowIds -> Token \cup {None}]
      BY <1>6 DEF RefreshRevoke, Delete, TypeOK
    <3>3. spent' \subseteq Token /\ ended' \cup together' \subseteq Families
      BY <1>6, <3>1 DEF RefreshRevoke, End, TypeOK
    <3> QED
      BY <1>6, <3>2, <3>3 DEF RefreshRevoke, Goto, TypeOK
  <2>2. Locals'
    BY <1>6 DEF RefreshRevoke, Delete, Goto, Locals, Refreshing, Leaving
  <2>3. Alone'
    BY <1>6 DEF RefreshRevoke, Alone
  <2>4. Exchange'
    BY <1>6 DEF RefreshRevoke, Delete, End, At, Goto, Locals, Alone, Exchange, RowsOf,
       Refreshing
  <2>5. EndedStaysDead'
    BY <1>6 DEF RefreshRevoke, Delete, End, EndedStaysDead, RowsOf
  <2>6. Backed'
    <3>1. sent[p] \in Token /\ ended' = ended \cup {sent[p].family}
      BY <1>6 DEF RefreshRevoke, End, At, TypeOK, Locals, Refreshing
    <3>2. \A t \in Token : Void(t) => Void(t)'
      BY <1>6 DEF RefreshRevoke, End, Void, Expired
    <3>3. \A i \in RowIds : rows[i] \in Token /\ rows[i].family # sent[p].family
                               => rows'[i] = rows[i]
      BY <1>6 DEF RefreshRevoke, Delete, RowsOf
    <3>4. \A t \in Token : t.family = sent[p].family => Void(t)'
      BY <3>1 DEF Void
    <3>5. ASSUME NEW t \in Token, Held(t)', ~Void(t)' PROVE \E i \in RowIds : rows'[i] = t
      <4>1. Held(t) /\ ~Void(t) /\ t.family # sent[p].family
        BY <1>6, <3>2, <3>4, <3>5 DEF RefreshRevoke, Held
      <4> QED
        BY <3>3, <4>1 DEF Backed
    <3>6. \A q \in Calls : pc'[q] = "refresh_revoke" => Void(sent[q]) /\ sent[q] \in Token
      BY <1>6 DEF RefreshRevoke, Goto, Backed, TypeOK, Locals, Refreshing
    <3> QED
      BY <1>6, <3>2, <3>5, <3>6 DEF RefreshRevoke, Backed
  <2> QED  BY <2>1, <2>2, <2>3, <2>4, <2>5, <2>6
<1>7. ASSUME NEW p \in Calls, RefreshDelete(p) PROVE Inv'
  <2>1. TypeOK'
    <3>1. sent[p] \in Token /\ sent[p].family \in Families
      BY <1>7 DEF RefreshDelete, At, TypeOK, Locals, Refreshing, Token
    <3>2. rows' \in [RowIds -> Token \cup {None}]
      BY <1>7 DEF RefreshDelete, Delete, TypeOK
    <3>3. spent' \subseteq Token
      BY <1>7, <3>1 DEF RefreshDelete, TypeOK
    <3> QED
      BY <1>7, <3>2, <3>3 DEF RefreshDelete, Goto, TypeOK
  <2>2. Locals'
    BY <1>7 DEF RefreshDelete, Delete, At, Goto, TypeOK, Locals, Refreshing
  <2>3. Alone'
    BY <1>7 DEF RefreshDelete, Alone
  <2>4. Exchange'
    BY <1>7 DEF RefreshDelete, Delete, At, Goto, Exchange, RowsOf
  <2>5. EndedStaysDead'
    BY <1>7 DEF RefreshDelete, Delete, EndedStaysDead, RowsOf
  <2>6. Backed'
    BY <1>7 DEF RefreshDelete, Delete, At, Goto, Locals, Backed, Held, Void, Expired
  <2> QED  BY <2>1, <2>2, <2>3, <2>4, <2>5, <2>6
<1>8. ASSUME NEW p \in Calls, RefreshUser(p) PROVE Inv'
  <2>1. TypeOK'
    BY <1>8 DEF RefreshUser, Goto, TypeOK
  <2>2. Locals'
    BY <1>8 DEF RefreshUser, At, Goto, Locals, Refreshing
  <2>3. Alone'
    BY <1>8 DEF RefreshUser, Alone
  <2>4. Exchange'
    BY <1>8 DEF RefreshUser, At, Goto, Exchange, RowsOf
  <2>5. EndedStaysDead'
    BY <1>8 DEF RefreshUser, EndedStaysDead, RowsOf
  <2>6. Backed'
    BY <1>8 DEF RefreshUser, Goto, Backed, Held, Void, Expired
  <2> QED  BY <2>1, <2>2, <2>3, <2>4, <2>5, <2>6
<1>9. ASSUME NEW p \in Calls, RefreshIssue(p) PROVE Inv'
  <2>1. TypeOK'
    <3>1. sent[p] \in Token /\ sent[p].family \in Families
      BY <1>9 DEF RefreshIssue, At, TypeOK, Locals, Refreshing, Token
    <3>2. [family |-> sent[p].family, issued |-> now] \in Token
      BY <3>1 DEF TypeOK, Token
    <3>3. /\ rows' \in [RowIds -> Token \cup {None}]
          /\ granted' \in [Calls -> Token \cup {None}]
      BY <1>9, <3>2 DEF RefreshIssue, Issue, TypeOK
    <3> QED
      BY <1>9, <3>3 DEF RefreshIssue, Goto, TypeOK
  <2>2. Locals'
    BY <1>9 DEF RefreshIssue, Issue, Goto, Locals, Refreshing, Leaving
  <2>3. Alone'
    BY <1>9 DEF RefreshIssue, Alone
  <2>4. Exchange'
    BY <1>9 DEF RefreshIssue, Issue, At, Goto, TypeOK, Locals, Alone, Exchange, RowsOf,
       Refreshing
  <2>5. EndedStaysDead'
    BY <1>9 DEF RefreshIssue, Issue, At, Locals, Exchange, EndedStaysDead, RowsOf, Refreshing
  <2>6. Backed'
    BY <1>9 DEF RefreshIssue, Issue, Goto, TypeOK, Backed, Held, Void, Expired
  <2> QED  BY <2>1, <2>2, <2>3, <2>4, <2>5, <2>6
<1>10. ASSUME NEW p \in Calls, LogoutFind(p) PROVE Inv'
  <2>1. TypeOK'
    BY <1>10 DEF LogoutFind, Goto, TypeOK
  <2>2. Locals'
    BY <1>10 DEF LogoutFind, At, Goto, TypeOK, Locals, Leaving
  <2>3. Alone'
    BY <1>10 DEF LogoutFind, Alone
  <2>4. Exchange'
    BY <1>10 DEF LogoutFind, Goto, TypeOK, Exchange, RowsOf, Token
  <2>5. EndedStaysDead'
    BY <1>10 DEF LogoutFind, EndedStaysDead, RowsOf
  <2>6. Backed'
    BY <1>10 DEF LogoutFind, Goto, TypeOK, Backed, Held, Void, Expired
  <2> QED  BY <2>1, <2>2, <2>3, <2>4, <2>5, <2>6
<1>11. ASSUME NEW p \in Calls, LogoutDelete(p) PROVE Inv'
  <2>1. TypeOK'
    <3>1. sent[p] \in Token /\ sent[p].family \in Families
      BY <1>11 DEF LogoutDelete, At, TypeOK, Locals, Leaving, Token
    <3>2. rows' \in [RowIds -> Token \cup {None}]
      BY <1>11 DEF LogoutDelete, Delete, TypeOK
    <3>3. spent' \subseteq Token /\ ended' \cup together' \subseteq Families
      BY <1>11, <3>1 DEF LogoutDelete, End, TypeOK
    <3> QED
      BY <1>11, <3>2, <3>3 DEF LogoutDelete, Goto, TypeOK
  <2>2. Locals'
    BY <1>11 DEF LogoutDelete, Delete, Goto, TypeOK, Locals, Refreshing, Leaving
  <2>3. Alone'
    BY <1>11 DEF LogoutDelete, Alone
  <2>4. Exchange'
    BY <1>11 DEF LogoutDelete, Delete, End, At, Goto, Locals, Alone, Exchange, RowsOf, Leaving
  <2>5. EndedStaysDead'
    BY <1>11 DEF LogoutDelete, Delete, End, At, Locals, Exchange, EndedStaysDead, RowsOf,
       Leaving
  <2>6. Backed'
    BY <1>11 DEF LogoutDelete, Delete, End, At, Goto, Locals, Backed, Held, Void, Expired
  <2> QED  BY <2>1, <2>2, <2>3, <2>4, <2>5, <2>6
<1>12. ASSUME NEW p \in Calls, Granted(p) PROVE Inv'
  <2>1. TypeOK'
    BY <1>12 DEF Granted, Leave, At, Goto, TypeOK, Token
  <2>2. Locals'
    BY <1>12 DEF Granted, Leave, Goto, TypeOK, Locals, Refreshing, Leaving
  <2>3. Alone'
    BY <1>12 DEF Granted, Leave, Alone
  <2>4. Exchange'
    BY <1>12 DEF Granted, Leave, Goto, TypeOK, Exchange, RowsOf
  <2>5. EndedStaysDead'
    BY <1>12 DEF Granted, EndedStaysDead, RowsOf
  <2>6. Backed'
    BY <1>12 DEF Granted, Leave, Goto, TypeOK, Backed, Held, Void, Expired
  <2> QED  BY <2>1, <2>2, <2>3, <2>4, <2>5, <2>6
<1>13. ASSUME NEW p \in Calls, Denied(p) PROVE Inv'
  <2>1. TypeOK'
    BY <1>13 DEF Denied, Leave, At, Goto, TypeOK, Token
  <2>2. Locals'
    BY <1>13 DEF Denied, Leave, Goto, TypeOK, Locals, Refreshing, Leaving
  <2>3. Alone'
    BY <1>13 DEF Denied, Leave, Alone
  <2>4. Exchange'
    BY <1>13 DEF Denied, Leave, Goto, TypeOK, Exchange, RowsOf
  <2>5. EndedStaysDead'
    BY <1>13 DEF Denied, EndedStaysDead, RowsOf
  <2>6. Backed'
    BY <1>13 DEF Denied, Leave, Goto, TypeOK, Backed, Held, Void, Expired
  <2> QED  BY <2>1, <2>2, <2>3, <2>4, <2>5, <2>6
<1>14. ASSUME NEW p \in Calls, AnswerLost(p) PROVE Inv'
  <2>1. TypeOK'
    BY <1>14 DEF AnswerLost, Leave, Goto, TypeOK
  <2>2. Locals'
    BY <1>14 DEF AnswerLost, Leave, Goto, TypeOK, Locals, Refreshing, Leaving
  <2>3. Alone'
    BY <1>14 DEF AnswerLost, Leave, Alone
  <2>4. Exchange'
    BY <1>14 DEF AnswerLost, Leave, Goto, Exchange, RowsOf
  <2>5. EndedStaysDead'
    BY <1>14 DEF AnswerLost, EndedStaysDead, RowsOf
  <2>6. Backed'
    BY <1>14 DEF AnswerLost, Leave, Goto, Backed, Held, Void, Expired
  <2> QED  BY <2>1, <2>2, <2>3, <2>4, <2>5, <2>6
<1>15. ASSUME NEW d \in Devices, LoadFails(d) PROVE Inv'
  <2>1. TypeOK'
    BY <1>15 DEF LoadFails, TypeOK
  <2>2. Locals'
    BY <1>15 DEF LoadFails, Locals
  <2>3. Alone'
    BY <1>15 DEF LoadFails, Alone
  <2>4. Exchange'
    BY <1>15 DEF LoadFails, Exchange, RowsOf
  <2>5. EndedStaysDead'
    BY <1>15 DEF LoadFails, EndedStaysDead, RowsOf
  <2>6. Backed'
    BY <1>15 DEF LoadFails, Backed, Held, Void, Expired
  <2> QED  BY <2>1, <2>2, <2>3, <2>4, <2>5, <2>6
<1>16. ASSUME Clean PROVE Inv'
  <2>1. TypeOK'
    BY <1>16 DEF Clean, Delete, TypeOK
  <2>2. Locals'
    BY <1>16 DEF Clean, Delete, Locals
  <2>3. Alone'
    BY <1>16 DEF Clean, Alone
  <2>4. Exchange'
    BY <1>16 DEF Clean, Delete, Exchange, RowsOf
  <2>5. EndedStaysDead'
    BY <1>16 DEF Clean, Delete, EndedStaysDead, RowsOf
  <2>6. Backed'
    BY <1>16 DEF Clean, Delete, Backed, Held, Void, Expired
  <2> QED  BY <2>1, <2>2, <2>3, <2>4, <2>5, <2>6
<1>17. ASSUME NEW a \in BOOLEAN, SetActive(a) PROVE Inv'
  <2>1. TypeOK'
    BY <1>17 DEF SetActive, TypeOK
  <2>2. Locals'
    BY <1>17 DEF SetActive, Locals
  <2>3. Alone'
    BY <1>17 DEF SetActive, Alone
  <2>4. Exchange'
    BY <1>17 DEF SetActive, Exchange, RowsOf
  <2>5. EndedStaysDead'
    BY <1>17 DEF SetActive, EndedStaysDead, RowsOf
  <2>6. Backed'
    BY <1>17 DEF SetActive, Backed, Held, Void, Expired
  <2> QED  BY <2>1, <2>2, <2>3, <2>4, <2>5, <2>6
<1>18. ASSUME Tick PROVE Inv'
  <2>1. TypeOK'
    <3>1. now' \in 0..MaxTime
      BY <1>18, SessionsAssumption DEF Tick, TypeOK
    <3> QED
      BY <1>18, <3>1 DEF Tick, TypeOK
  <2>2. Locals'
    BY <1>18 DEF Tick, Locals
  <2>3. Alone'
    BY <1>18 DEF Tick, Alone
  <2>4. Exchange'
    BY <1>18 DEF Tick, Exchange, RowsOf
  <2>5. EndedStaysDead'
    BY <1>18 DEF Tick, EndedStaysDead, RowsOf
  <2>6. Backed'
    <3>1. \A t \in Token : Void(t) => Void(t)'
      <4>1. now \in Int /\ now' = now + 1
        BY <1>18, SessionsAssumption DEF Tick, TypeOK
      <4>2. \A t \in Token : t.issued + Life \in Int
        BY SessionsAssumption DEF Token
      <4> QED
        BY <1>18, <4>1, <4>2 DEF Tick, Void, Expired
    <3>2. \A q \in Calls : pc[q] = "refresh_revoke" => sent[q] \in Token
      BY DEF TypeOK, Locals, Refreshing
    <3> QED
      BY <1>18, <3>1, <3>2 DEF Tick, Backed, Held
  <2> QED  BY <2>1, <2>2, <2>3, <2>4, <2>5, <2>6
<1>19. CASE UNCHANGED vars
  <2>1. TypeOK'
    BY <1>19 DEF vars, TypeOK
  <2>2. Locals'
    BY <1>19 DEF vars, Locals
  <2>3. Alone'
    BY <1>19 DEF vars, Alone
  <2>4. Exchange'
    BY <1>19 DEF vars, Exchange, RowsOf
  <2>5. EndedStaysDead'
    BY <1>19 DEF vars, EndedStaysDead, RowsOf
  <2>6. Backed'
    BY <1>19 DEF vars, Backed, Held, Void, Expired
  <2> QED  BY <2>1, <2>2, <2>3, <2>4, <2>5, <2>6
<1> QED  BY <1>1, <1>2, <1>3, <1>4, <1>5, <1>6, <1>7, <1>8, <1>9, <1>10, <1>11, <1>12, <1>13,
            <1>14, <1>15, <1>16, <1>17, <1>18, <1>19 DEF Next

\* The invariant holds of every behaviour.
THEOREM Correct == Spec => []Inv
<1>1. Init => Inv
  BY InitInv
<1>2. Inv /\ [Next]_vars => Inv'
  BY Step
<1> QED  BY <1>1, <1>2, PTL DEF Spec

\* Rotation leaves a family one session at most, for any number of devices, parallel
\* calls and lost answers, unless two calls presented its token at once.
THEOREM SessionsOrdered == Spec => []SessionsInOrder
<1>1. ASSUME Inv PROVE SessionsInOrder
  <2>1. ASSUME NEW f \in Families \ together PROVE Cardinality(RowsOf(f)) <= 1
    <3>1. \A i, k \in RowsOf(f) : i = k
      BY <1>1 DEF Inv, Exchange
    <3>2. CASE RowsOf(f) = {}
      BY <3>2, FS_EmptySet
    <3>3. CASE RowsOf(f) # {}
      <4>1. PICK i \in RowsOf(f) : TRUE
        BY <3>3
      <4>2. RowsOf(f) \subseteq {i}
        BY <3>1, <4>1
      <4>3. IsFiniteSet({i}) /\ Cardinality({i}) = 1
        BY FS_Singleton
      <4>4. Cardinality(RowsOf(f)) <= Cardinality({i})
        BY <4>2, <4>3, FS_Subset
      <4> QED  BY <4>3, <4>4
    <3> QED  BY <3>2, <3>3
  <2> QED  BY <1>1, <2>1 DEF Inv, SessionsInOrder, OneSessionPerFamily
<1> QED  BY <1>1, Correct, PTL

\* A family that was logged out of or revoked has no session ever after, with the same
\* exception.
THEOREM EndedForGood == Spec => []EndedStaysDead
<1>1. Inv => EndedStaysDead
  BY DEF Inv
<1> QED  BY <1>1, Correct, PTL

\* Nobody's refresh is refused because of what another device or the worker did: the
\* token is void, or the account is not active.
THEOREM NoneDeniedWithoutCause == Spec => DeniedForCause
<1> DEFINE Asking(p) == pc[p] \in {"refresh_find", "refresh_revoke", "refresh_user"}
           Cause(p)  == \/ Expired(sent[p]) \/ sent[p] \in spent
                        \/ sent[p].family \in ended \/ ~active
<1>1. ASSUME Inv, Next, NEW p \in Calls, Asking(p), pc'[p] = "denied" PROVE Cause(p)
  <2>1. CASE RefreshFind(p)
    BY <1>1, <2>1 DEF RefreshFind, Goto, Inv, TypeOK
  <2>2. CASE RefreshRevoke(p)
    BY <1>1, <2>2 DEF RefreshRevoke, At, Inv, Backed, Void
  <2>3. CASE RefreshUser(p)
    BY <1>1, <2>3 DEF RefreshUser, Goto
  <2>4. ASSUME NEW q \in Calls, q # p,
               RefreshFind(q) \/ RefreshRevoke(q) \/ RefreshUser(q)
        PROVE  FALSE
    BY <1>1, <2>4 DEF RefreshFind, RefreshRevoke, RefreshUser, Goto, Inv, TypeOK
  <2>5. ASSUME NEW q \in Calls,
               LoginIssue(q) \/ RefreshDelete(q) \/ RefreshIssue(q) \/ LogoutFind(q)
                  \/ LogoutDelete(q)
        PROVE  FALSE
    BY <1>1, <2>5 DEF LoginIssue, RefreshDelete, RefreshIssue, LogoutFind, LogoutDelete,
                      At, Goto, Inv, TypeOK
  <2>6. ASSUME NEW q \in Calls, Granted(q) \/ Denied(q) \/ AnswerLost(q) PROVE FALSE
    BY <1>1, <2>6 DEF Granted, Denied, AnswerLost, Leave, Goto, Inv, TypeOK
  <2>7. ASSUME NEW q \in Calls, NEW d \in Devices,
               LoginRead(q, d) \/ RefreshCall(q, d) \/ LogoutCall(q, d)
        PROVE  FALSE
    BY <1>1, <2>7 DEF LoginRead, RefreshCall, LogoutCall, Present, Goto, Inv, TypeOK
  <2>8. ASSUME UNCHANGED pc PROVE FALSE
    BY <1>1, <2>8
  <2>9. \/ \E d \in Devices : LoadFails(d)
        \/ Clean \/ Tick
        \/ \E a \in BOOLEAN : SetActive(a)
        => UNCHANGED pc
    BY DEF LoadFails, Clean, Tick, SetActive
  <2> QED
    BY <1>1, <2>1, <2>2, <2>3, <2>4, <2>5, <2>6, <2>7, <2>8, <2>9 DEF Next
<1>2. Inv /\ [Next]_vars
      => [\A p \in Calls :
             /\ pc[p] \in {"refresh_find", "refresh_revoke", "refresh_user"}
             /\ pc'[p] = "denied"
             => \/ Expired(sent[p])
                \/ sent[p] \in spent
                \/ sent[p].family \in ended
                \/ ~active]_vars
  BY <1>1
<1> QED  BY <1>2, Correct, PTL DEF Spec, DeniedForCause

-----------------------------------------------------------------------------
(* Sequences                                                               *)

\* The head of a sequence leaves it.
LEMMA HeadGone ==
    ASSUME NEW S, NEW s \in Seq(S), s # <<>>
    PROVE  /\ Head(s) \in S /\ Head(s) = s[1] /\ 1 \in DOMAIN s /\ Tail(s) \in Seq(S)
           /\ \A i \in DOMAIN Tail(s) : i + 1 \in DOMAIN s /\ Tail(s)[i] = s[i + 1]
           /\ \A i \in DOMAIN s : i # 1 => i - 1 \in DOMAIN Tail(s) /\ s[i] = Tail(s)[i - 1]
           /\ DOMAIN s = 1..Len(s) /\ DOMAIN Tail(s) = 1..Len(s) - 1
<1>1. Len(s) \in Nat /\ Len(s) > 0 /\ Head(s) = s[1] /\ Head(s) \in S
      /\ DOMAIN s = 1..Len(s)
  OBVIOUS
<1>2. /\ Tail(s) \in Seq(S) /\ Len(Tail(s)) = Len(s) - 1
      /\ \A i \in 1..Len(s) - 1 : Tail(s)[i] = s[i + 1]
  OBVIOUS
<1>3. DOMAIN Tail(s) = 1..Len(s) - 1
  BY <1>2
<1> QED  BY <1>1, <1>2, <1>3

\* An element appended is the last.
LEMMA LastAdded ==
    ASSUME NEW S, NEW s \in Seq(S), NEW e \in S
    PROVE  /\ Append(s, e) \in Seq(S) /\ DOMAIN s = 1..Len(s) /\ Len(s) \in Nat
           /\ DOMAIN Append(s, e) = 1..Len(s) + 1 /\ Append(s, e)[Len(s) + 1] = e
           /\ \A i \in DOMAIN s : Append(s, e)[i] = s[i]
<1>1. /\ Append(s, e) \in Seq(S) /\ Len(s) \in Nat /\ Len(Append(s, e)) = Len(s) + 1
      /\ \A i \in 1..Len(s) : Append(s, e)[i] = s[i]
      /\ Append(s, e)[Len(s) + 1] = e
  OBVIOUS
<1>2. DOMAIN s = 1..Len(s) /\ DOMAIN Append(s, e) = 1..Len(s) + 1
  BY <1>1
<1> QED  BY <1>1, <1>2

\* What a sequence has when its head leaves it, and when an element is appended.
LEMMA ElementsOf ==
    ASSUME NEW S, NEW s \in Seq(S)
    PROVE  /\ Elements(s) \subseteq S
           /\ \A e \in S : Elements(Append(s, e)) = Elements(s) \cup {e}
           /\ s # <<>> => Elements(s) = Elements(Tail(s)) \cup {Head(s)}
<1>1. Elements(s) \subseteq S
  BY DEF Elements
<1>2. ASSUME NEW e \in S PROVE Elements(Append(s, e)) = Elements(s) \cup {e}
  <2> DEFINE t == Append(s, e)
  <2>1. /\ DOMAIN s = 1..Len(s) /\ Len(s) \in Nat /\ DOMAIN t = 1..Len(s) + 1
        /\ t[Len(s) + 1] = e /\ \A i \in DOMAIN s : t[i] = s[i]
    BY LastAdded
  <2> HIDE DEF t
  <2>2. Elements(t) \subseteq Elements(s) \cup {e}
    BY <2>1 DEF Elements
  <2>3. e \in Elements(t)
    BY <2>1 DEF Elements
  <2>4. Elements(s) \subseteq Elements(t)
    BY <2>1 DEF Elements
  <2> QED  BY <2>2, <2>3, <2>4 DEF t
<1>3. ASSUME s # <<>> PROVE Elements(s) = Elements(Tail(s)) \cup {Head(s)}
  <2> DEFINE t == Tail(s)
  <2>1. /\ Head(s) = s[1] /\ 1 \in DOMAIN s
        /\ \A i \in DOMAIN t : i + 1 \in DOMAIN s /\ t[i] = s[i + 1]
        /\ \A i \in DOMAIN s : i # 1 => i - 1 \in DOMAIN t /\ s[i] = t[i - 1]
    BY <1>3, HeadGone
  <2> HIDE DEF t
  <2>2. Elements(t) \subseteq Elements(s) /\ Head(s) \in Elements(s)
    BY <2>1 DEF Elements
  <2>3. Elements(s) \subseteq Elements(t) \cup {Head(s)}
    BY <2>1 DEF Elements
  <2> QED  BY <2>2, <2>3 DEF t
<1> QED  BY <1>1, <1>2, <1>3

\* Nothing is an element of the empty sequence.
LEMMA NoElements == Elements(<<>>) = {} /\ DOMAIN <<>> = {}
  BY DEF Elements

\* An element put before is the first.
LEMMA FirstAdded ==
    ASSUME NEW S, NEW s \in Seq(S), NEW e \in S
    PROVE  /\ <<e>> \o s \in Seq(S) /\ DOMAIN s = 1..Len(s) /\ Len(s) \in Nat
           /\ DOMAIN (<<e>> \o s) = 1..Len(s) + 1 /\ (<<e>> \o s)[1] = e
           /\ \A i \in 2..Len(s) + 1 : (<<e>> \o s)[i] = s[i - 1]
<1>1. <<e>> \in Seq(S) /\ Len(<<e>>) = 1 /\ <<e>>[1] = e /\ Len(s) \in Nat
      /\ DOMAIN s = 1..Len(s)
  OBVIOUS
<1> DEFINE t == <<e>> \o s
<1>2. /\ t \in Seq(S) /\ Len(t) = 1 + Len(s)
      /\ \A i \in 1..1 + Len(s) : t[i] = IF i <= 1 THEN <<e>>[i] ELSE s[i - 1]
  BY <1>1, ConcatProperties
<1> HIDE DEF t
<1>3. DOMAIN t = 1..Len(s) + 1
  BY <1>1, <1>2
<1>4. t[1] = e /\ \A i \in 2..Len(s) + 1 : t[i] = s[i - 1]
  BY <1>1, <1>2
<1> QED  BY <1>1, <1>2, <1>3, <1>4 DEF t

-----------------------------------------------------------------------------
(* Messaging: what is kept                                                 *)

Kept    == {"inserted", "answer", "done"}
Timed   == {"stamped"} \cup Kept
Untimed == {"unsent", "emitted", "asked"}

\* The rows and the handlers that write them.
MessageRows ==
    /\ \A m \in Messages : step[m] \in Untimed => createdAt[m] = 0
    /\ \A m \in Messages : step[m] \in Timed => createdAt[m] > 0
    /\ \A m, n \in Messages : createdAt[m] = createdAt[n] /\ createdAt[m] > 0 => m = n
    /\ saved = {m \in Messages : step[m] \in Kept}
    /\ \A m \in Messages : step[m] # "unsent" => conv[m] \in Convs
    /\ \A m \in Messages : byRest[m] => mine[m] /\ step[m] # "emitted"
    /\ \A m \in Messages : step[m] = "answer" => byRest[m]
    /\ read \subseteq Foreign(saved)

\* An event is on its way to the page once, when its handler is done, and one to the server
\* once, before the handler begins; a connection that is cut has nothing of either.
Inward ==
    /\ \A i \in DOMAIN in : step[in[i]] = "done" /\ ~byRest[in[i]]
    /\ \A i, j \in DOMAIN in : in[i] = in[j] => i = j
Outward ==
    /\ \A i \in DOMAIN out : \A m \in Messages : out[i] = Send(m) => step[m] = "emitted"
    /\ \A i, j \in DOMAIN out : \A m \in Messages : out[i] = Send(m) /\ out[j] = Send(m)
         => i = j
Down == ~connected => in = <<>> /\ rooms = {} /\ \A v \in Convs : joining[v] = 0
Carried == Inward /\ Outward /\ Down

\* The joins of a conversation that are under way or wait were each asked for by an opening.
Places(s, e) == {i \in DOMAIN s : s[i] = e}
JoinsCounted == \A v \in Convs : joining[v] + Cardinality(Places(out, Join(v))) <= opens

\* What the page shows, and what the loads bring it.
HeldByPage ==
    /\ \A i \in DOMAIN shown : shown[i] \in saved
    /\ \A c \in Loads : \A i \in DOMAIN got[c] : got[c][i] \in saved /\ conv[got[c][i]] = of[c]
    /\ \A c \in Loads : \A i, j \in DOMAIN got[c] :
          i < j => createdAt[got[c][i]] < createdAt[got[c][j]]
    /\ \A c \in Loads : at[c] \in {"idle", "select"} => got[c] = <<>>
    /\ \A c \in Loads : at[c] # "idle" => of[c] \in Convs

OnceMore ==
    \A m \in Messages : UnderWay(m) =>
        /\ m \in Elements(shown) => m \in crossed
        /\ \A c \in Loads : m \in Elements(got[c]) => m \in crossed

Younger ==
    \A m, n \in Messages : UnderWay(m) /\ createdAt[m] > 0 /\ createdAt[m] < createdAt[n]
        => m \in mingled /\ n \in mingled

OneLoad ==
    /\ ~blurred => \A c, d \in Loads : at[c] # "idle" /\ at[d] # "idle" => c = d
    /\ ~blurred => \A c \in Loads : at[c] # "idle" => of[c] = opened
    /\ \A m \in Messages : byRest[m] /\ InProgress(m) => conv[m] = opened \/ m \in moved

\* The socket is in the room of the open conversation or will be, and whoever takes leave of
\* it joins again.
InRoom ==
    opened # Nil =>
       /\ ~cut => (connected /\ opened \in rooms) \/ JoinPending(opened)
       /\ \A i \in DOMAIN out : out[i] = Part(opened) =>
             \E j \in DOMAIN out : i < j /\ out[j] = Join(opened)

\* Every load under way that has read brings a message, or the page has it if there is none.
Brought(m) ==
    /\ ~Loading => m \in Elements(shown)
    /\ \A c \in Loads : at[c] \in {"mark", "answer"} => m \in Elements(got[c])

Complete ==
    opened # Nil /\ ~blurred =>
        \A m \in saved : conv[m] = opened /\ ~UnderWay(m) /\ m \notin excused => Brought(m)

Seen ==
    /\ \A c \in Loads : at[c] = "mark" =>
          \A m \in Unread(of[c]) : m \in settled \cup Elements(got[c])
    /\ ReadWasShown

MsgInv ==
    /\ ChatTypeOK /\ MessageRows /\ Carried /\ JoinsCounted /\ HeldByPage
    /\ ShownOnce /\ OnceMore /\ ShownInOrder /\ Younger
    /\ ShownBelongs /\ OneLoad /\ InRoom /\ Complete /\ Seen

-----------------------------------------------------------------------------
(* Events                                                                   *)

\* The events differ.
LEMMA EventsDiffer ==
    /\ \A v, w : Join(v) = Join(w) => v = w
    /\ \A v, w : Part(v) = Part(w) => v = w
    /\ \A m, n : Send(m) = Send(n) => m = n
    /\ \A v, w : Join(v) # Part(w) /\ Join(v) # Send(w) /\ Part(v) # Send(w)
<1>1. ASSUME NEW v, NEW w
      PROVE  /\ Join(v).conv = v /\ Part(v).conv = v /\ Send(v).message = v
             /\ Join(v).event = "join" /\ Part(w).event = "leave" /\ Send(w).event = "send"
  BY DEF Join, Part, Send
<1>2. /\ \A v : Join(v).conv = v /\ Part(v).conv = v /\ Send(v).message = v
      /\ \A v : Join(v).event = "join" /\ Part(v).event = "leave" /\ Send(v).event = "send"
  BY <1>1
<1>3. \A v, w : Join(v) = Join(w) => v = w  BY <1>2
<1>4. \A v, w : Part(v) = Part(w) => v = w  BY <1>2
<1>5. \A m, n : Send(m) = Send(n) => m = n  BY <1>2
<1>6. "join" # "leave" /\ "join" # "send" /\ "leave" # "send"  OBVIOUS
<1>7. \A v, w : Join(v) # Part(w) /\ Join(v) # Send(w) /\ Part(v) # Send(w)  BY <1>2, <1>6
<1> QED  BY <1>3, <1>4, <1>5, <1>7

\* What the server takes.
LEMMA Served ==
    ASSUME ChatTypeOK, Serve
    PROVE  \/ \E v \in Convs : /\ Head(out) = Join(v)
                               /\ joining' = [joining EXCEPT ![v] = @ + 1]
                               /\ UNCHANGED <<rooms, step>>
           \/ \E v \in Convs : /\ Head(out) = Part(v) /\ rooms' = rooms \ {v}
                               /\ UNCHANGED <<joining, step>>
           \/ \E m \in Messages : /\ Head(out) = Send(m)
                                  /\ step' = [step EXCEPT ![m] = "asked"]
                                  /\ UNCHANGED <<rooms, joining>>
<1>1. out \in Seq(Events) /\ out # <<>>
  BY DEF ChatTypeOK, Serve
<1>2. Head(out) \in Events
  BY <1>1, HeadGone
<1>3. CASE \E v \in Convs : Head(out) = Join(v)
  BY <1>3 DEF Serve, Join, PartRoom, server
<1>4. CASE \E v \in Convs : Head(out) = Part(v)
  BY <1>4 DEF Serve, Part, PartRoom, server
<1>5. CASE \E m \in Messages : Head(out) = Send(m)
  BY <1>5 DEF Serve, Send, PartRoom, server
<1> QED  BY <1>2, <1>3, <1>4, <1>5 DEF Events

LEMMA MsgInitInv == ASSUME MessagingAssumption, ChatInit PROVE MsgInv
<1>1. Nil \notin Convs \cup Messages /\ MaxOpens \in Nat /\ MaxCuts \in Nat /\ PageSize \in Nat
  BY DEF MessagingAssumption
<1>2. <<>> \in Seq(Events) /\ <<>> \in Seq(Messages) /\ Len(<<>>) = 0
  OBVIOUS
<1>3. ChatTypeOK
  <2>1. \A c \in Loads : got[c] = <<>> /\ Len(got[c]) <= PageSize
    BY <1>1, <1>2 DEF ChatInit
  <2>2. /\ got \in [Loads -> Seq(Messages)]
        /\ at \in [Loads -> {"idle", "select", "mark", "answer"}]
        /\ of \in [Loads -> Convs \cup {Nil}]
    BY <1>2 DEF ChatInit
  <2>3. /\ rooms \subseteq Convs /\ joining \in [Convs -> 0..MaxOpens]
        /\ out \in Seq(Events) /\ in \in Seq(Messages)
        /\ connected \in BOOLEAN /\ cuts \in 0..MaxCuts
    BY <1>1, <1>2 DEF ChatInit
  <2>4. opened \in Convs \cup {Nil} /\ shown \in Seq(Messages) /\ opens \in 0..MaxOpens
    BY <1>1, <1>2 DEF ChatInit
  <2>5. /\ blurred \in BOOLEAN /\ cut \in BOOLEAN
        /\ excused \cup crossed \cup mingled \cup moved \cup settled \subseteq Messages
    BY DEF ChatInit
  <2>6. /\ step \in [Messages -> {"unsent", "emitted", "asked", "stamped", "inserted",
                                  "answer", "done", "lost"}]
        /\ conv \in [Messages -> Convs \cup {Nil}]
        /\ mine \in [Messages -> BOOLEAN] /\ byRest \in [Messages -> BOOLEAN]
        /\ createdAt \in [Messages -> 0..clock] /\ clock \in Nat
        /\ saved \subseteq {m \in Messages : createdAt[m] > 0} /\ read \subseteq saved
    BY DEF ChatInit
  <2> QED  BY <2>1, <2>2, <2>3, <2>4, <2>5, <2>6 DEF ChatTypeOK
<1>4. MessageRows
  BY DEF ChatInit, MessageRows, Kept, Timed, Untimed, Foreign
<1>5. Carried
  BY NoElements DEF ChatInit, Carried, Inward, Outward, Down
<1>6. JoinsCounted
  <2>1. \A v \in Convs : Places(out, Join(v)) = {} /\ joining[v] = 0 /\ opens = 0
    BY NoElements DEF ChatInit, Places
  <2> QED  BY <2>1, FS_EmptySet DEF JoinsCounted
<1>7. HeldByPage
  BY NoElements DEF ChatInit, HeldByPage
<1>8. ShownOnce /\ ShownInOrder /\ ShownBelongs
  BY NoElements DEF ChatInit, ShownOnce, ShownInOrder, ShownBelongs
<1>9. OnceMore /\ Younger
  BY NoElements DEF ChatInit, OnceMore, Younger, UnderWay, InProgress
<1>10. OneLoad
  BY DEF ChatInit, OneLoad
<1>11. InRoom /\ Complete
  BY DEF ChatInit, InRoom, Complete
<1>12. Seen
  BY DEF ChatInit, Seen, ReadWasShown
<1> QED
  BY <1>3, <1>4, <1>5, <1>6, <1>7, <1>8, <1>9, <1>10, <1>11, <1>12 DEF MsgInv

-----------------------------------------------------------------------------
(* The types                                                               *)

\* The types of the rows and of what is recorded, and of the rest.
RowsTyped ==
    /\ step \in [Messages -> {"unsent", "emitted", "asked", "stamped", "inserted", "answer",
                              "done", "lost"}]
    /\ conv \in [Messages -> Convs \cup {Nil}]
    /\ mine \in [Messages -> BOOLEAN] /\ byRest \in [Messages -> BOOLEAN]
    /\ createdAt \in [Messages -> 0..clock] /\ clock \in Nat
    /\ saved \subseteq {m \in Messages : createdAt[m] > 0} /\ read \subseteq saved

RecordTyped ==
    /\ blurred \in BOOLEAN /\ cut \in BOOLEAN
    /\ excused \cup crossed \cup mingled \cup moved \cup settled \subseteq Messages

WireTyped ==
    /\ rooms \subseteq Convs /\ joining \in [Convs -> 0..MaxOpens]
    /\ out \in Seq(Events) /\ in \in Seq(Messages)
    /\ connected \in BOOLEAN /\ cuts \in 0..MaxCuts

PageTyped ==
    /\ opened \in Convs \cup {Nil} /\ shown \in Seq(Messages) /\ opens \in 0..MaxOpens
    /\ at \in [Loads -> {"idle", "select", "mark", "answer"}]
    /\ of \in [Loads -> Convs \cup {Nil}]
    /\ got \in [Loads -> Seq(Messages)] /\ \A c \in Loads : Len(got[c]) <= PageSize

LEMMA TypeParts == ChatTypeOK <=> RowsTyped /\ RecordTyped /\ WireTyped /\ PageTyped
  BY DEF ChatTypeOK, RowsTyped, RecordTyped, WireTyped, PageTyped

LEMMA RowsTypedStep == ASSUME MsgInv, ChatNext PROVE RowsTyped'
<1> USE DEF RowsTyped, messageRows
<1>1. ChatTypeOK /\ MessageRows /\ Carried
  BY DEF MsgInv
<1>2. RowsTyped
  BY <1>1, TypeParts
<1>3. CASE UNCHANGED <<messageRows, read>>
  BY <1>2, <1>3
<1>4. ASSUME NEW m \in Messages, SendMessage(m) PROVE RowsTyped'
  <2>1. opened \in Convs \cup {Nil} /\ connected \in BOOLEAN  BY <1>1 DEF ChatTypeOK
  <2> QED  BY <1>2, <1>4, <2>1 DEF SendMessage, Begin
<1>5. ASSUME NEW m \in Messages, Posted(m) PROVE RowsTyped'
  BY <1>2, <1>5 DEF Posted
<1>6. ASSUME NEW m \in Messages, Stamp(m) PROVE RowsTyped'
  BY <1>2, <1>6 DEF Stamp
<1>7. ASSUME NEW m \in Messages, Insert(m) PROVE RowsTyped'
  <2>1. createdAt[m] > 0  BY <1>1, <1>7 DEF MessageRows, Insert, Timed
  <2> QED  BY <1>2, <1>7, <2>1 DEF Insert
<1>8. ASSUME NEW m \in Messages, Tell(m) PROVE RowsTyped'
  BY <1>2, <1>8 DEF Tell
<1>9. ASSUME NEW m \in Messages, SendFails(m) PROVE RowsTyped'
  BY <1>2, <1>9 DEF SendFails
<1>10. ASSUME NEW m \in Messages, NEW v \in Convs, OtherSends(m, v) PROVE RowsTyped'
  BY <1>2, <1>10 DEF OtherSends, Begin
<1>11. CASE Cut
  BY <1>2, <1>11 DEF Cut
<1>12. CASE Serve
  <2>1. UNCHANGED <<conv, mine, byRest, createdAt, clock, saved, read>>
    BY <1>12 DEF Serve
  <2>2. step' = step \/ \E m \in Messages : step' = [step EXCEPT ![m] = "asked"]
    BY <1>1, <1>12, Served
  <2> QED  BY <1>2, <2>1, <2>2
<1>13. ASSUME NEW c \in Loads, Mark(c) PROVE RowsTyped'
  BY <1>2, <1>13 DEF Mark, Unread
<1>14. (\E c \in Loads, v \in Convs : Open(c, v)) => UNCHANGED <<messageRows, read>>
  BY DEF Open
<1>15. (\E c \in Loads : Select(c) \/ Answer(c) \/ FetchFails(c))
         => UNCHANGED <<messageRows, read>>
  BY DEF Select, Answer, FetchFails
<1>16. Connect \/ Receive \/ (\E v \in Convs : Joined(v)) => UNCHANGED <<messageRows, read>>
  BY DEF Connect, Receive, Joined
<1> QED
  BY <1>3, <1>4, <1>5, <1>6, <1>7, <1>8, <1>9, <1>10, <1>11, <1>12, <1>13, <1>14, <1>15,
     <1>16 DEF ChatNext

LEMMA RecordTypedStep == ASSUME MsgInv, ChatNext PROVE RecordTyped'
<1> USE DEF RecordTyped, chatHistory
<1>1. ChatTypeOK
  BY DEF MsgInv
<1>2. RecordTyped /\ in \in Seq(Messages) /\ got \in [Loads -> Seq(Messages)]
      /\ saved \subseteq Messages
  BY <1>1, TypeParts DEF ChatTypeOK
<1>3. CASE UNCHANGED chatHistory
  BY <1>2, <1>3
<1>4. ASSUME NEW c \in Loads, NEW v \in Convs, Open(c, v) PROVE RecordTyped'
  BY <1>2, <1>4 DEF Open
<1>5. ASSUME NEW c \in Loads, Select(c) PROVE RecordTyped'
  <2>1. Of(of[c]) \subseteq Messages  BY <1>2 DEF Of
  <2>2. PICK s \in Pages(of[c]) :
            /\ excused' = excused \cup (Of(of[c]) \ Elements(s))
            /\ settled' = settled \cup Foreign(Of(of[c]) \ Elements(s))
            /\ crossed' = crossed \cup {m \in Elements(s) : UnderWay(m)}
    BY <1>5 DEF Select
  <2>3. s \in [1..PageLength(of[c]) -> Of(of[c])]  BY DEF Pages
  <2>4. Elements(s) \subseteq Messages  BY <2>1, <2>3 DEF Elements
  <2>5. UNCHANGED <<blurred, cut, mingled, moved>>  BY <1>5 DEF Select
  <2> QED  BY <1>2, <2>1, <2>2, <2>4, <2>5 DEF Foreign
<1>6. ASSUME NEW c \in Loads, Answer(c) PROVE RecordTyped'
  <2>1. Elements(got[c]) \subseteq Messages  BY <1>2, ElementsOf
  <2> QED  BY <1>2, <1>6, <2>1 DEF Answer, Foreign
<1>7. ASSUME NEW c \in Loads, FetchFails(c) PROVE RecordTyped'
  <2>1. Elements(got[c]) \subseteq Messages  BY <1>2, ElementsOf
  <2> QED  BY <1>2, <1>7, <2>1 DEF FetchFails, Foreign
<1>8. ASSUME NEW m \in Messages, Posted(m) PROVE RecordTyped'
  BY <1>2, <1>8 DEF Posted, ShowAlso, Foreign
<1>9. ASSUME NEW m \in Messages, Stamp(m) PROVE RecordTyped'
  BY <1>2, <1>9 DEF Stamp
<1>10. ASSUME NEW m \in Messages, Insert(m) PROVE RecordTyped'
  BY <1>2, <1>10 DEF Insert, Foreign
<1>11. ASSUME NEW m \in Messages, Tell(m) PROVE RecordTyped'
  BY <1>2, <1>11 DEF Tell
<1>12. ASSUME NEW m \in Messages, SendFails(m) PROVE RecordTyped'
  BY <1>2, <1>12 DEF SendFails
<1>13. CASE Cut
  <2>1. Elements(in) \subseteq Messages  BY <1>2, ElementsOf
  <2> QED  BY <1>2, <1>13, <2>1 DEF Cut
<1>14. CASE Receive
  <2>1. Head(in) \in Messages  BY <1>2, <1>14, HeadGone DEF Receive
  <2> QED  BY <1>2, <1>14, <2>1 DEF Receive, ShowAlso, Foreign
<1>15. (\E c \in Loads : Mark(c)) => UNCHANGED chatHistory
  BY DEF Mark
<1>16. (\E m \in Messages : SendMessage(m)) \/ (\E m \in Messages, v \in Convs : OtherSends(m, v))
       => UNCHANGED chatHistory
  BY DEF SendMessage, OtherSends
<1>17. Connect \/ Serve \/ (\E v \in Convs : Joined(v)) => UNCHANGED chatHistory
  BY DEF Connect, Serve, Joined
<1> QED
  BY <1>3, <1>4, <1>5, <1>6, <1>7, <1>8, <1>9, <1>10, <1>11, <1>12, <1>13, <1>14, <1>15,
     <1>16, <1>17 DEF ChatNext

LEMMA PageTypedStep == ASSUME MessagingAssumption, MsgInv, ChatNext PROVE PageTyped'
<1> USE DEF PageTyped
<1>1. ChatTypeOK /\ PageSize \in Nat \ {0} /\ MaxOpens \in Nat /\ IsFiniteSet(Messages)
  BY DEF MsgInv, MessagingAssumption
<1>2. PageTyped /\ in \in Seq(Messages) /\ saved \subseteq Messages
  BY <1>1, TypeParts DEF ChatTypeOK
<1>3. <<>> \in Seq(Messages) /\ Len(<<>>) <= PageSize
  BY <1>1
<1>4. CASE UNCHANGED <<page, loads>>
  BY <1>2, <1>4 DEF page, loads
<1>5. ASSUME NEW c \in Loads, NEW v \in Convs, Open(c, v) PROVE PageTyped'
  BY <1>1, <1>2, <1>5 DEF Open, Selectable
<1>6. ASSUME NEW c \in Loads, Select(c) PROVE PageTyped'
  <2>1. PICK s \in Pages(of[c]) : got' = [got EXCEPT ![c] = s]
    BY <1>6 DEF Select
  <2> DEFINE n == PageLength(of[c])
  <2>2. Of(of[c]) \subseteq Messages /\ IsFiniteSet(Of(of[c]))
    BY <1>1, <1>2, FS_Subset DEF Of
  <2>3. Cardinality(Of(of[c])) \in Nat
    BY <2>2, FS_CardinalityType
  <2>4. n \in Nat /\ n <= PageSize
    BY <1>1, <2>3 DEF PageLength
  <2> HIDE DEF n
  <2>5. s \in [1..n -> Messages]
    BY <2>2 DEF Pages, n
  <2>6. s \in Seq(Messages) /\ Len(s) <= PageSize
    BY <2>4, <2>5
  <2>7. UNCHANGED <<page, of>> /\ at' = [at EXCEPT ![c] = "mark"]
    BY <1>6 DEF Select
  <2> QED  BY <1>2, <2>1, <2>6, <2>7 DEF page
<1>7. ASSUME NEW c \in Loads, Mark(c) PROVE PageTyped'
  BY <1>2, <1>7 DEF Mark, page
<1>8. ASSUME NEW c \in Loads, Answer(c) PROVE PageTyped'
  BY <1>2, <1>3, <1>8 DEF Answer, EndLoad
<1>9. ASSUME NEW c \in Loads, FetchFails(c) PROVE PageTyped'
  BY <1>2, <1>3, <1>9 DEF FetchFails, EndLoad, page
<1>10. ASSUME NEW m \in Messages, Posted(m) PROVE PageTyped'
  <2>1. shown' \in Seq(Messages)  BY <1>2, <1>10, LastAdded DEF Posted, ShowAlso
  <2> QED  BY <1>2, <1>10, <2>1 DEF Posted, loads
<1>11. CASE Receive
  <2>1. Head(in) \in Messages  BY <1>2, <1>11, HeadGone DEF Receive
  <2>2. Append(shown, Head(in)) \in Seq(Messages)  BY <1>2, <2>1, LastAdded
  <2>3. shown' = shown \/ shown' = Append(shown, Head(in))
    BY <1>11 DEF Receive, ShowAlso
  <2>4. shown' \in Seq(Messages)  BY <1>2, <2>2, <2>3
  <2> QED  BY <1>2, <1>11, <2>4 DEF Receive, loads
<1>12. (\E m \in Messages : SendMessage(m) \/ Stamp(m) \/ Insert(m) \/ Tell(m) \/ SendFails(m))
       => UNCHANGED <<page, loads>>
  BY DEF SendMessage, Stamp, Insert, Tell, SendFails
<1>13. (\E m \in Messages, v \in Convs : OtherSends(m, v)) => UNCHANGED <<page, loads>>
  BY DEF OtherSends
<1>14. Connect \/ Cut \/ Serve \/ (\E v \in Convs : Joined(v)) => UNCHANGED <<page, loads>>
  BY DEF Connect, Cut, Serve, Joined
<1> QED
  BY <1>4, <1>5, <1>6, <1>7, <1>8, <1>9, <1>10, <1>11, <1>12, <1>13, <1>14 DEF ChatNext

-----------------------------------------------------------------------------
(* What the socket carries                                                 *)

\* How often an element is in a sequence, when one is appended and when the head leaves.
LEMMA PlacesFinite ==
    ASSUME NEW S, NEW s \in Seq(S), NEW e
    PROVE  IsFiniteSet(Places(s, e)) /\ Cardinality(Places(s, e)) \in Nat
<1>1. DOMAIN s = 1..Len(s) /\ Len(s) \in Nat
  OBVIOUS
<1>2. IsFiniteSet(1..Len(s))
  BY <1>1, FS_Interval
<1>3. Places(s, e) \subseteq 1..Len(s)
  BY <1>1 DEF Places
<1> QED  BY <1>2, <1>3, FS_Subset, FS_CardinalityType

LEMMA PlacesAppended ==
    ASSUME NEW S, NEW s \in Seq(S), NEW d \in S, NEW e
    PROVE  Cardinality(Places(Append(s, d), e))
               = IF d = e THEN Cardinality(Places(s, e)) + 1 ELSE Cardinality(Places(s, e))
<1> DEFINE t == Append(s, d)
<1>1. /\ DOMAIN s = 1..Len(s) /\ Len(s) \in Nat /\ DOMAIN t = 1..Len(s) + 1
      /\ t[Len(s) + 1] = d /\ \A i \in DOMAIN s : t[i] = s[i]
  BY LastAdded
<1>2. IsFiniteSet(Places(s, e))
  BY PlacesFinite
<1> HIDE DEF t
<1>3. CASE d = e
  <2>1. Places(t, e) = Places(s, e) \cup {Len(s) + 1} /\ Len(s) + 1 \notin Places(s, e)
    BY <1>1, <1>3 DEF Places
  <2> QED  BY <1>2, <1>3, <2>1, FS_AddElement DEF t
<1>4. CASE d # e
  <2>1. Places(t, e) = Places(s, e)
    BY <1>1, <1>4 DEF Places
  <2> QED  BY <1>4, <2>1 DEF t
<1> QED  BY <1>3, <1>4

LEMMA PlacesTaken ==
    ASSUME NEW S, NEW s \in Seq(S), s # <<>>, NEW e
    PROVE  Cardinality(Places(s, e)) = IF Head(s) = e THEN Cardinality(Places(Tail(s), e)) + 1
                                                      ELSE Cardinality(Places(Tail(s), e))
<1> DEFINE t == Tail(s)
           P == Places(s, e) \ {1}
<1>1. /\ Head(s) = s[1] /\ 1 \in DOMAIN s /\ t \in Seq(S)
      /\ \A i \in DOMAIN t : i + 1 \in DOMAIN s /\ t[i] = s[i + 1]
      /\ \A i \in DOMAIN s : i # 1 => i - 1 \in DOMAIN t /\ s[i] = t[i - 1]
      /\ DOMAIN s = 1..Len(s) /\ DOMAIN t = 1..Len(s) - 1 /\ Len(s) \in Nat
  <2>1. Len(s) \in Nat  OBVIOUS
  <2> QED  BY <2>1, HeadGone
<1>2. IsFiniteSet(Places(s, e)) /\ IsFiniteSet(Places(t, e))
  BY <1>1, PlacesFinite
<1> HIDE DEF t
<1>3. ExistsBijection(P, Places(t, e))
  <2> DEFINE f == [i \in P |-> i - 1]
  <2>1. \A i \in P : f[i] = i - 1
    OBVIOUS
  <2>2. \A i \in P : i \in DOMAIN s /\ i # 1 /\ s[i] = e
    BY DEF Places
  <2>3. \A i \in P : f[i] \in Places(t, e)
    BY <1>1, <2>2 DEF Places
  <2>4. \A i, j \in P : f[i] = f[j] => i = j
    BY <1>1, <2>2
  <2>5. \A j \in Places(t, e) : \E i \in P : f[i] = j
    <3> HIDE DEF f
    <3> SUFFICES ASSUME NEW j \in Places(t, e) PROVE \E i \in P : f[i] = j
      OBVIOUS
    <3>1. j \in DOMAIN t /\ t[j] = e  BY DEF Places
    <3>2. j + 1 \in DOMAIN s /\ s[j + 1] = e /\ j + 1 # 1 /\ j + 1 - 1 = j  BY <1>1, <3>1
    <3>3. j + 1 \in P  BY <3>2 DEF Places
    <3>4. PICK i \in P : i = j + 1  BY <3>3
    <3>5. i - 1 = j  BY <3>2, <3>4
    <3> QED  BY <2>1, <3>5
  <2>6. f \in [P -> Places(t, e)]
    BY <2>3
  <2> HIDE DEF f, P
  <2>7. f \in Bijection(P, Places(t, e))
    BY <2>4, <2>5, <2>6, Fun_IsBij
  <2> QED  BY <2>7 DEF ExistsBijection
<1>4. Cardinality(P) = Cardinality(Places(t, e))
  BY <1>2, <1>3, FS_RemoveElement, FS_Bijection
<1>5. 1 \in Places(s, e) <=> Head(s) = e
  BY <1>1 DEF Places
<1>6. Cardinality(P) = IF 1 \in Places(s, e) THEN Cardinality(Places(s, e)) - 1
                                             ELSE Cardinality(Places(s, e))
  BY <1>2, FS_RemoveElement
<1>7. Cardinality(Places(s, e)) \in Nat /\ Cardinality(Places(t, e)) \in Nat
  BY <1>2, FS_CardinalityType
<1> QED  BY <1>4, <1>5, <1>6, <1>7 DEF t

\* An opening asks for one join, and takes leave of the conversation before.
LEMMA OutAfterOpen ==
    ASSUME ChatTypeOK, NEW c \in Loads, NEW v \in Convs, Open(c, v)
    PROVE  \E o \in Seq(Events) :
              /\ o = out \/ (opened \in Convs /\ opened # v /\ o = Append(out, Part(opened)))
              /\ opened = Nil => o = out
              /\ out' = Append(o, Join(v)) /\ Join(v) \in Events
<1>1. out \in Seq(Events) /\ opened \in Convs \cup {Nil} /\ opened # v
  BY DEF ChatTypeOK, Open, Selectable
<1>2. Join(v) \in Events /\ (opened \in Convs => Part(opened) \in Events)
  BY DEF Events
<1>3. CASE opened = Nil
  <2>1. out' = Append(out, Join(v))
    BY <1>3 DEF Open
  <2> QED  BY <1>1, <1>2, <1>3, <2>1
<1>4. CASE opened # Nil
  <2>1. Append(out, Part(opened)) \in Seq(Events)
    BY <1>1, <1>2, <1>4, LastAdded
  <2> QED  BY <1>1, <1>2, <1>4, <2>1 DEF Open
<1> QED  BY <1>3, <1>4

LEMMA JoinsStep ==
    ASSUME MsgInv, ChatNext PROVE JoinsCounted' /\ joining' \in [Convs -> Nat]
<1> DEFINE N(v) == Cardinality(Places(out, Join(v)))
<1>1. ChatTypeOK /\ JoinsCounted /\ (~connected => \A v \in Convs : joining[v] = 0)
  BY DEF MsgInv, Carried, Down
<1>2. /\ out \in Seq(Events) /\ joining \in [Convs -> Nat] /\ opens \in Nat
      /\ opened \in Convs \cup {Nil}
  BY <1>1 DEF ChatTypeOK
<1>3. \A v \in Convs : N(v) \in Nat /\ joining[v] + N(v) <= opens /\ joining[v] \in Nat
  BY <1>1, <1>2, PlacesFinite DEF JoinsCounted
<1>4. CASE UNCHANGED <<out, joining, opens>>
  BY <1>1, <1>2, <1>4 DEF JoinsCounted
<1>5. ASSUME NEW c \in Loads, NEW v \in Convs, Open(c, v)
      PROVE  JoinsCounted' /\ joining' \in [Convs -> Nat]
  <2>1. PICK o \in Seq(Events) :
           /\ o = out \/ (opened \in Convs /\ o = Append(out, Part(opened)))
           /\ out' = Append(o, Join(v)) /\ Join(v) \in Events
    BY <1>1, <1>5, OutAfterOpen
  <2>2. joining' = joining /\ opens' = opens + 1
    BY <1>5 DEF Open, server
  <2>3. \A w \in Convs : Cardinality(Places(o, Join(w))) = N(w)
    <3>1. CASE o = out  BY <3>1
    <3>2. CASE opened \in Convs /\ o = Append(out, Part(opened))
      <4>1. Part(opened) \in Events /\ \A w : Part(opened) # Join(w)
        BY <3>2, EventsDiffer DEF Events
      <4> QED  BY <1>2, <3>2, <4>1, PlacesAppended
    <3> QED  BY <2>1, <3>1, <3>2
  <2>4. ASSUME NEW w \in Convs
        PROVE  Cardinality(Places(out', Join(w))) = IF v = w THEN N(w) + 1 ELSE N(w)
    <3>1. Join(v) = Join(w) <=> v = w
      BY EventsDiffer
    <3>2. o \in Seq(Events) /\ Join(v) \in Events /\ out' = Append(o, Join(v))
      BY <2>1
    <3>3. Cardinality(Places(Append(o, Join(v)), Join(w)))
              = IF Join(v) = Join(w) THEN Cardinality(Places(o, Join(w))) + 1
                                     ELSE Cardinality(Places(o, Join(w)))
      BY <3>2, PlacesAppended
    <3>4. Cardinality(Places(o, Join(w))) = N(w)
      BY <2>3
    <3> QED  BY <3>1, <3>2, <3>3, <3>4
  <2> HIDE DEF N
  <2>5. ASSUME NEW w \in Convs
        PROVE  joining'[w] + Cardinality(Places(out', Join(w))) <= opens'
    <3>1. N(w) \in Nat /\ joining[w] \in Nat /\ joining[w] + N(w) <= opens
      BY <1>3
    <3>2. /\ Cardinality(Places(out', Join(w))) \in {N(w), N(w) + 1}
          /\ joining'[w] = joining[w] /\ opens' = opens + 1
      BY <2>2, <2>4
    <3> QED  BY <1>2, <3>1, <3>2
  <2> QED  BY <1>2, <2>2, <2>5 DEF JoinsCounted
<1>6. ASSUME NEW m \in Messages, SendMessage(m)
      PROVE  JoinsCounted' /\ joining' \in [Convs -> Nat]
  <2>1. UNCHANGED <<joining, opens>> /\ (out' = out \/ out' = Append(out, Send(m)))
    BY <1>6 DEF SendMessage, server, page
  <2>2. \A w \in Convs : Cardinality(Places(out', Join(w))) = N(w)
    <3>1. CASE out' = out  BY <3>1
    <3>2. CASE out' = Append(out, Send(m))
      <4>1. Send(m) \in Events /\ \A w : Send(m) # Join(w)
        BY EventsDiffer DEF Events
      <4> QED  BY <1>2, <3>2, <4>1, PlacesAppended
    <3> QED  BY <2>1, <3>1, <3>2
  <2> QED  BY <1>2, <1>3, <2>1, <2>2 DEF JoinsCounted
<1>7. CASE Cut
  <2>1. /\ joining' = [v \in Convs |-> 0] /\ opens' = opens
        /\ \A v \in Convs : Places(out', Join(v)) = {}
    BY <1>7, NoElements DEF Cut, Places, page
  <2>2. \A v \in Convs : Cardinality(Places(out', Join(v))) = 0
    BY <2>1, FS_EmptySet
  <2> QED  BY <1>2, <2>1, <2>2 DEF JoinsCounted
<1>8. CASE Serve
  <2>1. out # <<>> /\ out' = Tail(out) /\ opens' = opens
    BY <1>8 DEF Serve, page
  <2>2. \A w : N(w) = IF Head(out) = Join(w) THEN Cardinality(Places(out', Join(w))) + 1
                                               ELSE Cardinality(Places(out', Join(w)))
    BY <1>2, <2>1, PlacesTaken
  <2>3. out' \in Seq(Events)
    BY <1>2, <2>1, HeadGone
  <2>4. \A w \in Convs : Cardinality(Places(out', Join(w))) \in Nat
    BY <2>3, PlacesFinite
  <2> HIDE DEF N
  <2>5. ASSUME NEW v \in Convs, Head(out) = Join(v), joining' = [joining EXCEPT ![v] = @ + 1]
        PROVE  JoinsCounted' /\ joining' \in [Convs -> Nat]
    <3>1. \A w \in Convs : Head(out) = Join(w) <=> w = v
      BY <2>5, EventsDiffer
    <3>2. ASSUME NEW w \in Convs
          PROVE  joining'[w] + Cardinality(Places(out', Join(w))) <= opens'
      <4>1. /\ N(w) \in Nat /\ joining[w] \in Nat /\ joining[w] + N(w) <= opens
            /\ Cardinality(Places(out', Join(w))) \in Nat
        BY <1>3, <2>4
      <4>2. CASE w = v
        <5>1. N(w) = Cardinality(Places(out', Join(w))) + 1  BY <2>2, <3>1, <4>2
        <5>2. joining'[w] = joining[w] + 1  BY <1>2, <2>5, <4>2
        <5> QED  BY <1>2, <2>1, <4>1, <5>1, <5>2
      <4>3. CASE w # v
        <5>1. N(w) = Cardinality(Places(out', Join(w)))  BY <2>2, <3>1, <4>3
        <5>2. joining'[w] = joining[w]  BY <1>2, <2>5, <4>3
        <5> QED  BY <2>1, <4>1, <5>1, <5>2
      <4> QED  BY <4>2, <4>3
    <3> QED  BY <1>2, <2>5, <3>2 DEF JoinsCounted
  <2>6. ASSUME joining' = joining
        PROVE  JoinsCounted' /\ joining' \in [Convs -> Nat]
    <3>1. \A w \in Convs : joining'[w] + Cardinality(Places(out', Join(w))) <= opens'
      BY <1>2, <1>3, <2>1, <2>2, <2>4, <2>6
    <3> QED  BY <1>2, <2>6, <3>1 DEF JoinsCounted
  <2> QED  BY <1>1, <1>8, <2>5, <2>6, Served
<1>9. ASSUME NEW v \in Convs, Joined(v)
      PROVE  JoinsCounted' /\ joining' \in [Convs -> Nat]
  <2>1. UNCHANGED <<out, opens>> /\ joining' = [joining EXCEPT ![v] = @ - 1] /\ joining[v] > 0
    BY <1>9 DEF Joined, wire, page
  <2> HIDE DEF N
  <2>2. \A w \in Convs : joining'[w] \in Nat /\ joining'[w] <= joining[w]
    BY <1>2, <1>3, <2>1
  <2>3. ASSUME NEW w \in Convs PROVE joining'[w] + N(w) <= opens
    <3>1. N(w) \in Nat /\ joining[w] \in Nat /\ joining[w] + N(w) <= opens
      BY <1>3
    <3> QED  BY <1>2, <2>2, <3>1
  <2>4. joining' \in [Convs -> Nat]
    BY <1>2, <2>1, <2>2
  <2> QED  BY <2>1, <2>3, <2>4 DEF JoinsCounted, N
<1>10. (\E c \in Loads : Select(c) \/ Mark(c) \/ Answer(c) \/ FetchFails(c))
       => UNCHANGED <<out, joining, opens>>
  BY DEF Select, Mark, Answer, FetchFails, server, wire, page
<1>11. (\E m \in Messages : Posted(m) \/ Stamp(m) \/ Insert(m) \/ Tell(m) \/ SendFails(m))
       => UNCHANGED <<out, joining, opens>>
  BY DEF Posted, Stamp, Insert, Tell, SendFails, server, wire, page
<1>12. (\E m \in Messages, v \in Convs : OtherSends(m, v)) => UNCHANGED <<out, joining, opens>>
  BY DEF OtherSends, server, wire, page
<1>13. Connect \/ Receive => UNCHANGED <<out, joining, opens>>
  BY DEF Connect, Receive, server, page
<1> QED
  BY <1>4, <1>5, <1>6, <1>7, <1>8, <1>9, <1>10, <1>11, <1>12, <1>13 DEF ChatNext

LEMMA WireTypedStep == ASSUME MessagingAssumption, MsgInv, ChatNext PROVE WireTyped'
<1> DEFINE Lines == /\ rooms \subseteq Convs /\ out \in Seq(Events) /\ in \in Seq(Messages)
                    /\ connected \in BOOLEAN /\ cuts \in 0..MaxCuts
<1>1. ChatTypeOK /\ Lines /\ MaxCuts \in Nat
  BY DEF MsgInv, ChatTypeOK, MessagingAssumption
<1>2. Lines'
  <2>1. CASE UNCHANGED <<rooms, wire>>
    BY <1>1, <2>1 DEF wire
  <2>2. ASSUME NEW c \in Loads, NEW v \in Convs, Open(c, v) PROVE Lines'
    <3>1. PICK o \in Seq(Events) : out' = Append(o, Join(v)) /\ Join(v) \in Events
      BY <1>1, <2>2, OutAfterOpen
    <3>2. out' \in Seq(Events)
      BY <3>1, LastAdded
    <3> QED  BY <1>1, <2>2, <3>2 DEF Open, server
  <2>3. ASSUME NEW m \in Messages, SendMessage(m) PROVE Lines'
    <3>1. Send(m) \in Events
      BY DEF Events
    <3>2. Append(out, Send(m)) \in Seq(Events)
      BY <1>1, <3>1, LastAdded
    <3> QED  BY <1>1, <2>3, <3>2 DEF SendMessage, server
  <2>4. ASSUME NEW m \in Messages, Tell(m) PROVE Lines'
    <3>1. Append(in, m) \in Seq(Messages)
      BY <1>1, LastAdded
    <3>2. in' = in \/ in' = Append(in, m)
      BY <2>4 DEF Tell
    <3>3. UNCHANGED <<rooms, out, connected, cuts>>
      BY <2>4 DEF Tell, server
    <3> QED  BY <1>1, <3>1, <3>2, <3>3
  <2>5. CASE Connect
    BY <1>1, <2>5 DEF Connect, server
  <2>6. CASE Cut
    <3>1. <<>> \in Seq(Events) /\ <<>> \in Seq(Messages)
      OBVIOUS
    <3>2. rooms' = {} /\ out' = <<>> /\ in' = <<>> /\ connected' = FALSE
      BY <2>6 DEF Cut
    <3>3. cuts' \in 0..MaxCuts
      BY <1>1, <2>6 DEF Cut
    <3> QED  BY <3>1, <3>2, <3>3
  <2>7. CASE Serve
    <3>1. out' \in Seq(Events)
      BY <1>1, <2>7, HeadGone DEF Serve
    <3>2. rooms' \subseteq rooms
      BY <1>1, <2>7, Served
    <3>3. UNCHANGED <<in, connected, cuts>>
      BY <2>7 DEF Serve
    <3> QED  BY <1>1, <3>1, <3>2, <3>3
  <2>8. CASE Receive
    <3>1. in' \in Seq(Messages)
      BY <1>1, <2>8, HeadGone DEF Receive
    <3> QED  BY <1>1, <2>8, <3>1 DEF Receive, server
  <2>9. ASSUME NEW v \in Convs, Joined(v) PROVE Lines'
    BY <1>1, <2>9 DEF Joined, wire
  <2>10. (\E c \in Loads : Select(c) \/ Mark(c) \/ Answer(c) \/ FetchFails(c))
         => UNCHANGED <<rooms, wire>>
    BY DEF Select, Mark, Answer, FetchFails, server
  <2>11. (\E m \in Messages : Posted(m) \/ Stamp(m) \/ Insert(m) \/ SendFails(m))
         => UNCHANGED <<rooms, wire>>
    BY DEF Posted, Stamp, Insert, SendFails, server
  <2>12. (\E m \in Messages, v \in Convs : OtherSends(m, v)) => UNCHANGED <<rooms, wire>>
    BY DEF OtherSends, server
  <2> QED
    BY <2>1, <2>2, <2>3, <2>4, <2>5, <2>6, <2>7, <2>8, <2>9, <2>10, <2>11, <2>12 DEF ChatNext
<1>3. joining' \in [Convs -> 0..MaxOpens]
  <2>1. joining' \in [Convs -> Nat] /\ JoinsCounted'
    BY JoinsStep
  <2>2. opens' \in Nat /\ opens' <= MaxOpens /\ MaxOpens \in Nat
    BY PageTypedStep DEF PageTyped, MessagingAssumption
  <2>3. \A v \in Convs : Cardinality(Places(out', Join(v))) \in Nat
    BY <1>2, PlacesFinite
  <2>4. \A v \in Convs : joining'[v] \in 0..MaxOpens
    BY <2>1, <2>2, <2>3 DEF JoinsCounted
  <2> QED  BY <2>1, <2>4
<1> QED  BY <1>2, <1>3 DEF WireTyped

LEMMA MsgTypedStep == ASSUME MessagingAssumption, MsgInv, ChatNext PROVE ChatTypeOK'
<1>1. RowsTyped' /\ RecordTyped' /\ WireTyped' /\ PageTyped'
  BY RowsTypedStep, RecordTypedStep, WireTypedStep, PageTypedStep
<1> QED
  BY <1>1 DEF ChatTypeOK, RowsTyped, RecordTyped, WireTyped, PageTyped

-----------------------------------------------------------------------------
(* The rows and the handlers                                               *)

LEMMA MessageRowsStep == ASSUME MsgInv, ChatNext PROVE MessageRows'
<1> USE DEF MessageRows, Kept, Timed, Untimed
<1>1. ChatTypeOK /\ MessageRows /\ Outward
  BY DEF MsgInv, Carried
<1>2. /\ step \in [Messages -> {"unsent", "emitted", "asked", "stamped", "inserted", "answer",
                                "done", "lost"}]
      /\ conv \in [Messages -> Convs \cup {Nil}]
      /\ mine \in [Messages -> BOOLEAN] /\ byRest \in [Messages -> BOOLEAN]
      /\ createdAt \in [Messages -> 0..clock] /\ clock \in Nat /\ opened \in Convs \cup {Nil}
      /\ connected \in BOOLEAN
  BY <1>1 DEF ChatTypeOK
<1> HIDE DEF MessageRows
<1>3. CASE UNCHANGED <<messageRows, read>>
  BY <1>1, <1>3 DEF messageRows, MessageRows, Foreign
<1>4. ASSUME NEW m \in Messages, SendMessage(m) PROVE MessageRows'
  <2>1. /\ UNCHANGED <<createdAt, saved, read>> /\ step[m] = "unsent" /\ opened \in Convs
        /\ conv' = [conv EXCEPT ![m] = opened] /\ mine' = [mine EXCEPT ![m] = TRUE]
        /\ byRest' = [byRest EXCEPT ![m] = ~connected]
    BY <1>2, <1>4 DEF SendMessage, Begin, FormShown
  <2>2. \/ connected /\ step' = [step EXCEPT ![m] = "emitted"]
        \/ ~connected /\ step' = [step EXCEPT ![m] = "asked"]
    BY <1>4 DEF SendMessage
  <2>3. m \notin saved
    BY <1>1, <2>1 DEF MessageRows
  <2>4. CASE connected /\ step' = [step EXCEPT ![m] = "emitted"]
    BY <1>1, <1>2, <2>1, <2>3, <2>4 DEF MessageRows, Foreign
  <2>5. CASE ~connected /\ step' = [step EXCEPT ![m] = "asked"]
    BY <1>1, <1>2, <2>1, <2>3, <2>5 DEF MessageRows, Foreign
  <2> QED  BY <2>2, <2>4, <2>5
<1>5. ASSUME NEW m \in Messages, NEW v \in Convs, OtherSends(m, v) PROVE MessageRows'
  <2>1. /\ UNCHANGED <<createdAt, saved, read>> /\ step[m] = "unsent"
        /\ conv' = [conv EXCEPT ![m] = v] /\ mine' = [mine EXCEPT ![m] = FALSE]
        /\ byRest' = [byRest EXCEPT ![m] = FALSE] /\ step' = [step EXCEPT ![m] = "asked"]
    BY <1>5 DEF OtherSends, Begin
  <2>2. m \notin saved
    BY <1>1, <2>1 DEF MessageRows
  <2> QED  BY <1>1, <1>2, <2>1, <2>2 DEF MessageRows, Foreign
<1>6. ASSUME NEW m \in Messages, Posted(m) PROVE MessageRows'
  BY <1>1, <1>2, <1>6 DEF Posted, MessageRows, Foreign
<1>7. ASSUME NEW m \in Messages, Stamp(m) PROVE MessageRows'
  <2>1. /\ step[m] = "asked" /\ step' = [step EXCEPT ![m] = "stamped"]
        /\ createdAt' = [createdAt EXCEPT ![m] = clock + 1]
        /\ UNCHANGED <<conv, mine, byRest, saved, read>>
    BY <1>7 DEF Stamp
  <2>2. \A n \in Messages : createdAt[n] # clock + 1 /\ createdAt[n] \in Nat
    BY <1>2
  <2>3. \A k, n \in Messages : createdAt'[k] = createdAt'[n] /\ createdAt'[k] > 0 => k = n
    BY <1>1, <1>2, <2>1, <2>2 DEF MessageRows
  <2>4. /\ \A n \in Messages : step'[n] \in Untimed => createdAt'[n] = 0
        /\ \A n \in Messages : step'[n] \in Timed => createdAt'[n] > 0
    BY <1>1, <1>2, <2>1 DEF MessageRows
  <2>5. saved' = {n \in Messages : step'[n] \in Kept}
    BY <1>1, <1>2, <2>1 DEF MessageRows
  <2> QED  BY <1>1, <1>2, <2>1, <2>3, <2>4, <2>5 DEF MessageRows, Foreign
<1>8. ASSUME NEW m \in Messages, Insert(m) PROVE MessageRows'
  <2>1. /\ step[m] = "stamped" /\ step' = [step EXCEPT ![m] = "inserted"]
        /\ saved' = saved \cup {m} /\ UNCHANGED <<conv, mine, byRest, createdAt, read>>
    BY <1>8 DEF Insert
  <2>2. saved' = {n \in Messages : step'[n] \in Kept}
    BY <1>1, <1>2, <2>1 DEF MessageRows
  <2> QED  BY <1>1, <1>2, <2>1, <2>2 DEF MessageRows, Foreign
<1>9. ASSUME NEW m \in Messages, Tell(m) PROVE MessageRows'
  BY <1>1, <1>2, <1>9 DEF Tell, MessageRows, Foreign
<1>10. ASSUME NEW m \in Messages, SendFails(m) PROVE MessageRows'
  <2>1. /\ step[m] \in {"stamped", "inserted", "answer"}
        /\ step' = [step EXCEPT ![m] = IF m \in saved THEN "done" ELSE "lost"]
        /\ UNCHANGED <<conv, mine, byRest, createdAt, saved, read>>
    BY <1>10 DEF SendFails
  <2>2. m \in saved <=> step[m] \in Kept
    BY <1>1 DEF MessageRows
  <2> QED  BY <1>1, <1>2, <2>1, <2>2 DEF MessageRows, Foreign
<1>11. CASE Cut
  <2>1. /\ step' = [m \in Messages |-> IF step[m] = "emitted" THEN "lost" ELSE step[m]]
        /\ UNCHANGED <<conv, mine, byRest, createdAt, saved, read>>
    BY <1>11 DEF Cut
  <2> QED  BY <1>1, <1>2, <2>1 DEF MessageRows, Foreign
<1>12. CASE Serve
  <2>1. UNCHANGED <<conv, mine, byRest, createdAt, saved, read>> /\ out # <<>>
    BY <1>12 DEF Serve
  <2>2. CASE step' = step
    BY <1>1, <2>1, <2>2 DEF MessageRows, Foreign
  <2>3. ASSUME NEW m \in Messages, Head(out) = Send(m), step' = [step EXCEPT ![m] = "asked"]
        PROVE  MessageRows'
    <3>1. out[1] = Send(m) /\ 1 \in DOMAIN out
      BY <1>1, <2>1, <2>3, HeadGone DEF ChatTypeOK
    <3>2. step[m] = "emitted"
      BY <1>1, <3>1 DEF Outward
    <3> QED  BY <1>1, <1>2, <2>1, <2>3, <3>2 DEF MessageRows, Foreign
  <2> QED  BY <1>1, <1>12, <2>2, <2>3, Served
<1>13. ASSUME NEW c \in Loads, Mark(c) PROVE MessageRows'
  <2>1. read' \subseteq read \cup Foreign(saved) /\ UNCHANGED messageRows
    BY <1>13 DEF Mark, Unread, Foreign
  <2> QED  BY <1>1, <2>1 DEF MessageRows, Foreign, messageRows
<1>14. (\E c \in Loads, v \in Convs : Open(c, v)) => UNCHANGED <<messageRows, read>>
  BY DEF Open
<1>15. (\E c \in Loads : Select(c) \/ Answer(c) \/ FetchFails(c))
         => UNCHANGED <<messageRows, read>>
  BY DEF Select, Answer, FetchFails
<1>16. Connect \/ Receive \/ (\E v \in Convs : Joined(v)) => UNCHANGED <<messageRows, read>>
  BY DEF Connect, Receive, Joined
<1> QED
  BY <1>3, <1>4, <1>5, <1>6, <1>7, <1>8, <1>9, <1>10, <1>11, <1>12, <1>13, <1>14, <1>15,
     <1>16 DEF ChatNext

\* What is done stays so, and is not posted by then if it was not before.
LEMMA DoneStays ==
    ASSUME MsgInv, ChatNext, NEW m \in Messages, step[m] = "done"
    PROVE  step'[m] = "done" /\ byRest'[m] = byRest[m]
<1>1. ChatTypeOK /\ Outward
  BY DEF MsgInv, Carried
<1>2. /\ step \in [Messages -> {"unsent", "emitted", "asked", "stamped", "inserted", "answer",
                                "done", "lost"}]
      /\ byRest \in [Messages -> BOOLEAN]
  BY <1>1 DEF ChatTypeOK
<1>3. ASSUME NEW n \in Messages, SendMessage(n)
      PROVE  step'[m] = "done" /\ byRest'[m] = byRest[m]
  BY <1>2, <1>3 DEF SendMessage, Begin
<1>4. ASSUME NEW n \in Messages, NEW v \in Convs, OtherSends(n, v)
      PROVE  step'[m] = "done" /\ byRest'[m] = byRest[m]
  BY <1>2, <1>4 DEF OtherSends, Begin
<1>5. ASSUME NEW n \in Messages, Posted(n) \/ Stamp(n) \/ Insert(n) \/ Tell(n)
      PROVE  step'[m] = "done" /\ byRest'[m] = byRest[m]
  BY <1>2, <1>5 DEF Posted, Stamp, Insert, Tell
<1>6. ASSUME NEW n \in Messages, SendFails(n)
      PROVE  step'[m] = "done" /\ byRest'[m] = byRest[m]
  BY <1>2, <1>6 DEF SendFails
<1>7. CASE Cut
  BY <1>2, <1>7 DEF Cut
<1>8. CASE Serve
  <2>1. byRest' = byRest /\ out # <<>>
    BY <1>8 DEF Serve
  <2>2. ASSUME NEW n \in Messages, Head(out) = Send(n), step' = [step EXCEPT ![n] = "asked"]
        PROVE  step'[m] = "done"
    <3>1. out[1] = Send(n) /\ 1 \in DOMAIN out
      BY <1>1, <2>1, <2>2, HeadGone DEF ChatTypeOK
    <3>2. step[n] = "emitted"
      BY <1>1, <3>1 DEF Outward
    <3> QED  BY <1>2, <2>2, <3>2
  <2> QED  BY <1>1, <1>8, <2>1, <2>2, Served
<1>9. UNCHANGED messageRows => step'[m] = "done" /\ byRest'[m] = byRest[m]
  BY DEF messageRows
<1>10. (\E c \in Loads, v \in Convs : Open(c, v)) => UNCHANGED messageRows
  BY DEF Open
<1>11. (\E c \in Loads : Select(c) \/ Mark(c) \/ Answer(c) \/ FetchFails(c))
         => UNCHANGED messageRows
  BY DEF Select, Mark, Answer, FetchFails
<1>12. Connect \/ Receive \/ (\E v \in Convs : Joined(v)) => UNCHANGED messageRows
  BY DEF Connect, Receive, Joined
<1> QED
  BY <1>3, <1>4, <1>5, <1>6, <1>7, <1>8, <1>9, <1>10, <1>11, <1>12 DEF ChatNext

LEMMA InwardStep == ASSUME MsgInv, ChatNext PROVE Inward'
<1>1. ChatTypeOK /\ Inward /\ MessageRows
  BY DEF MsgInv, Carried
<1>2. in \in Seq(Messages)
  BY <1>1 DEF ChatTypeOK
<1>3. \A i \in DOMAIN in : in[i] \in Messages
  BY <1>2
<1>4. \A i \in DOMAIN in : step'[in[i]] = "done" /\ ~byRest'[in[i]]
  BY <1>1, <1>3, DoneStays DEF Inward
<1>5. CASE in' = in
  BY <1>1, <1>4, <1>5 DEF Inward
<1>6. CASE in' = <<>>
  BY <1>6, NoElements DEF Inward
<1>7. CASE in # <<>> /\ in' = Tail(in)
  <2>1. \A i \in DOMAIN in' : i + 1 \in DOMAIN in /\ in'[i] = in[i + 1] /\ i \in Int
    <3>1. /\ \A i \in DOMAIN Tail(in) : i + 1 \in DOMAIN in /\ Tail(in)[i] = in[i + 1]
          /\ DOMAIN Tail(in) = 1..Len(in) - 1
      BY <1>2, <1>7, HeadGone
    <3> QED  BY <1>7, <3>1
  <2>2. \A i, j \in DOMAIN in' : in'[i] = in'[j] => i = j
    BY <1>1, <2>1 DEF Inward
  <2> QED  BY <1>4, <2>1, <2>2 DEF Inward
<1>8. ASSUME NEW m \in Messages, Tell(m), in' = Append(in, m) PROVE Inward'
  <2>1. /\ step[m] = "inserted"
        /\ step' = [step EXCEPT ![m] = IF byRest[m] THEN "answer" ELSE "done"]
        /\ byRest' = byRest
    BY <1>8 DEF Tell
  <2>2. Append(in, m) # in
    BY <1>2
  <2>3. TRUE \in Broadcasts(m)
    BY <1>8, <2>2 DEF Tell, Broadcasts
  <2>4. ~byRest[m]
    BY <1>1, <2>3 DEF Broadcasts, MessageRows
  <2>5. \A i \in DOMAIN in : in[i] # m
    BY <1>1, <2>1 DEF Inward
  <2>6. /\ DOMAIN in = 1..Len(in) /\ Len(in) \in Nat /\ DOMAIN in' = 1..Len(in) + 1
        /\ in'[Len(in) + 1] = m /\ \A i \in DOMAIN in : in'[i] = in[i]
    BY <1>2, <1>8, LastAdded
  <2>7. step'[m] = "done" /\ ~byRest'[m]
    BY <1>1, <2>1, <2>4 DEF ChatTypeOK
  <2>8. \A i \in DOMAIN in' : step'[in'[i]] = "done" /\ ~byRest'[in'[i]]
    BY <1>4, <2>6, <2>7
  <2>9. \A i, j \in DOMAIN in' : in'[i] = in'[j] => i = j
    BY <1>1, <2>5, <2>6 DEF Inward
  <2> QED  BY <2>8, <2>9 DEF Inward
<1>9. ASSUME NEW m \in Messages, Tell(m) PROVE in' = in \/ in' = Append(in, m)
  BY <1>9 DEF Tell
<1>10. Cut => in' = <<>>
  BY DEF Cut
<1>11. Receive => in # <<>> /\ in' = Tail(in)
  BY DEF Receive
<1>12. (\E c \in Loads, v \in Convs : Open(c, v)) => in' = in
  BY DEF Open
<1>13. (\E c \in Loads : Select(c) \/ Mark(c) \/ Answer(c) \/ FetchFails(c)) => in' = in
  BY DEF Select, Mark, Answer, FetchFails, wire
<1>14. (\E m \in Messages : SendMessage(m) \/ Posted(m) \/ Stamp(m) \/ Insert(m) \/ SendFails(m))
       => in' = in
  BY DEF SendMessage, Posted, Stamp, Insert, SendFails, wire
<1>15. (\E m \in Messages, v \in Convs : OtherSends(m, v)) => in' = in
  BY DEF OtherSends, wire
<1>16. Connect \/ Serve \/ (\E v \in Convs : Joined(v)) => in' = in
  BY DEF Connect, Serve, Joined, wire
<1> QED
  BY <1>5, <1>6, <1>7, <1>8, <1>9, <1>10, <1>11, <1>12, <1>13, <1>14, <1>15, <1>16 DEF ChatNext

LEMMA OutwardStep == ASSUME MsgInv, ChatNext PROVE Outward'
<1>1. ChatTypeOK /\ Outward
  BY DEF MsgInv, Carried
<1>2. /\ out \in Seq(Events)
      /\ step \in [Messages -> {"unsent", "emitted", "asked", "stamped", "inserted", "answer",
                                "done", "lost"}]
  BY <1>1 DEF ChatTypeOK
<1> DEFINE Waits == \A m \in Messages : step[m] = "emitted" => step'[m] = "emitted"
<1>3. CASE out' = out /\ Waits
  BY <1>1, <1>3 DEF Outward
<1>4. ASSUME NEW c \in Loads, NEW v \in Convs, Open(c, v) PROVE Outward'
  <2>1. PICK o \in Seq(Events) :
           /\ o = out \/ (opened \in Convs /\ o = Append(out, Part(opened)))
           /\ out' = Append(o, Join(v)) /\ Join(v) \in Events
    BY <1>1, <1>4, OutAfterOpen
  <2>2. ASSUME NEW i \in DOMAIN o, NEW m \in Messages, o[i] = Send(m)
        PROVE  i \in DOMAIN out /\ out[i] = Send(m)
    <3>1. CASE o = out  BY <2>2, <3>1
    <3>2. CASE opened \in Convs /\ o = Append(out, Part(opened))
      <4>1. Part(opened) \in Events /\ Part(opened) # Send(m)
        BY <3>2, EventsDiffer DEF Events
      <4>2. /\ DOMAIN out = 1..Len(out) /\ Len(out) \in Nat /\ DOMAIN o = 1..Len(out) + 1
            /\ o[Len(out) + 1] = Part(opened) /\ \A k \in DOMAIN out : o[k] = out[k]
        BY <1>2, <3>2, <4>1, LastAdded
      <4> QED  BY <2>2, <4>1, <4>2
    <3> QED  BY <2>1, <3>1, <3>2
  <2>3. /\ DOMAIN o = 1..Len(o) /\ Len(o) \in Nat /\ DOMAIN out' = 1..Len(o) + 1
        /\ out'[Len(o) + 1] = Join(v) /\ \A k \in DOMAIN o : out'[k] = o[k]
    BY <2>1, LastAdded
  <2>4. ASSUME NEW i \in DOMAIN out', NEW m \in Messages, out'[i] = Send(m)
        PROVE  i \in DOMAIN out /\ out[i] = Send(m)
    <3>1. Join(v) # Send(m)  BY EventsDiffer
    <3>2. i \in DOMAIN o /\ o[i] = Send(m)  BY <2>3, <2>4, <3>1
    <3> QED  BY <2>2, <3>2
  <2>5. step' = step
    BY <1>4 DEF Open, messageRows
  <2> QED  BY <1>1, <2>4, <2>5 DEF Outward
<1>5. ASSUME NEW m \in Messages, SendMessage(m) PROVE Outward'
  <2>1. step[m] = "unsent" /\ (\A n \in Messages : n # m => step'[n] = step[n])
    BY <1>2, <1>5 DEF SendMessage, Begin
  <2>2. CASE out' = out
    BY <1>1, <2>1, <2>2 DEF Outward
  <2>3. CASE step' = [step EXCEPT ![m] = "emitted"] /\ out' = Append(out, Send(m))
    <3>1. Send(m) \in Events
      BY DEF Events
    <3>2. /\ DOMAIN out = 1..Len(out) /\ Len(out) \in Nat /\ DOMAIN out' = 1..Len(out) + 1
          /\ out'[Len(out) + 1] = Send(m) /\ \A k \in DOMAIN out : out'[k] = out[k]
      BY <1>2, <2>3, <3>1, LastAdded
    <3>3. \A i \in DOMAIN out : out[i] # Send(m)
      BY <1>1, <2>1 DEF Outward
    <3>4. step'[m] = "emitted"
      BY <1>2, <2>3
    <3>5. \A n \in Messages : Send(n) = Send(m) => n = m
      BY EventsDiffer
    <3>6. \A i \in DOMAIN out' : \A n \in Messages : out'[i] = Send(n) => step'[n] = "emitted"
      BY <1>1, <2>1, <3>2, <3>4, <3>5 DEF Outward
    <3>7. ASSUME NEW i \in DOMAIN out', NEW j \in DOMAIN out', NEW n \in Messages,
                 out'[i] = Send(n), out'[j] = Send(n)
          PROVE  i = j
      <4>1. CASE n = m
        BY <3>2, <3>3, <3>7, <4>1
      <4>2. CASE n # m
        <5>1. i \in DOMAIN out /\ j \in DOMAIN out /\ out[i] = Send(n) /\ out[j] = Send(n)
          BY <3>2, <3>5, <3>7, <4>2
        <5> QED  BY <1>1, <5>1 DEF Outward
      <4> QED  BY <4>1, <4>2
    <3> QED  BY <3>6, <3>7 DEF Outward
  <2> QED  BY <1>5, <2>2, <2>3 DEF SendMessage
<1>6. CASE Cut
  BY <1>6, NoElements DEF Cut, Outward
<1>7. CASE Serve
  <2>1. out # <<>> /\ out' = Tail(out)
    BY <1>7 DEF Serve
  <2>2. /\ \A i \in DOMAIN out' : i + 1 \in DOMAIN out /\ out'[i] = out[i + 1]
             /\ i \in 1..Len(out) - 1
        /\ Head(out) = out[1] /\ 1 \in DOMAIN out /\ Len(out) \in Nat
    <3>1. /\ \A i \in DOMAIN Tail(out) : i + 1 \in DOMAIN out /\ Tail(out)[i] = out[i + 1]
          /\ DOMAIN Tail(out) = 1..Len(out) - 1
          /\ Head(out) = out[1] /\ 1 \in DOMAIN out
      BY <1>2, <2>1, HeadGone
    <3> QED  BY <1>2, <2>1, <3>1
  <2>3. \A i, j \in DOMAIN out' : \A m \in Messages :
            out'[i] = Send(m) /\ out'[j] = Send(m) => i = j
    BY <1>1, <2>2 DEF Outward
  <2>4. ASSUME NEW i \in DOMAIN out', NEW m \in Messages, out'[i] = Send(m)
        PROVE  step'[m] = "emitted"
    <3>1. step[m] = "emitted"
      BY <1>1, <2>2, <2>4 DEF Outward
    <3>2. out[1] # Send(m)
      <4>1. i + 1 # 1 /\ i + 1 \in DOMAIN out /\ out[i + 1] = Send(m)
        BY <2>2, <2>4
      <4> QED  BY <1>1, <2>2, <4>1 DEF Outward
    <3>3. CASE step' = step  BY <3>1, <3>3
    <3>4. CASE \E n \in Messages : Head(out) = Send(n) /\ step' = [step EXCEPT ![n] = "asked"]
      BY <1>2, <2>2, <3>1, <3>2, <3>4
    <3> QED  BY <1>1, <1>7, <3>3, <3>4, Served
  <2> QED  BY <2>3, <2>4 DEF Outward
<1>8. ASSUME NEW m \in Messages, Posted(m) \/ Stamp(m) \/ Insert(m) \/ Tell(m) \/ SendFails(m)
      PROVE  out' = out /\ Waits
  <2>1. CASE Posted(m)  BY <1>2, <2>1 DEF Posted, wire
  <2>2. CASE Stamp(m)  BY <1>2, <2>2 DEF Stamp, wire
  <2>3. CASE Insert(m)  BY <1>2, <2>3 DEF Insert, wire
  <2>4. CASE Tell(m)  BY <1>2, <2>4 DEF Tell
  <2>5. CASE SendFails(m)  BY <1>2, <2>5 DEF SendFails, wire
  <2> QED  BY <1>8, <2>1, <2>2, <2>3, <2>4, <2>5
<1>9. ASSUME NEW m \in Messages, NEW v \in Convs, OtherSends(m, v) PROVE out' = out /\ Waits
  BY <1>2, <1>9 DEF OtherSends, Begin, wire
<1>10. (\E c \in Loads : Select(c) \/ Mark(c) \/ Answer(c) \/ FetchFails(c))
         => out' = out /\ Waits
  BY DEF Select, Mark, Answer, FetchFails, wire, messageRows
<1>11. Connect \/ Receive \/ (\E v \in Convs : Joined(v)) => out' = out /\ Waits
  BY DEF Connect, Receive, Joined, wire, messageRows
<1> HIDE DEF Waits
<1> QED
  BY <1>3, <1>4, <1>5, <1>6, <1>7, <1>8, <1>9, <1>10, <1>11 DEF ChatNext

LEMMA DownStep == ASSUME MsgInv, ChatNext PROVE Down'
<1>1. ChatTypeOK /\ Down
  BY DEF MsgInv, Carried
<1>2. joining \in [Convs -> 0..MaxOpens]
  BY <1>1 DEF ChatTypeOK
<1>3. CASE UNCHANGED <<in, connected, rooms, joining>>
  BY <1>1, <1>3 DEF Down
<1>4. CASE connected'
  BY <1>4 DEF Down
<1>5. CASE Cut
  BY <1>2, <1>5 DEF Cut, Down
<1>6. ASSUME NEW m \in Messages, Tell(m)
      PROVE  connected' \/ UNCHANGED <<in, connected, rooms, joining>>
  BY <1>6 DEF Tell, server
<1>7. Connect \/ Serve \/ Receive => connected'
  BY DEF Connect, Serve, Receive
<1>8. ASSUME NEW v \in Convs, Joined(v) PROVE connected'
  BY <1>1, <1>2, <1>8 DEF Joined, Down, wire
<1>9. (\E c \in Loads, v \in Convs : Open(c, v)) => UNCHANGED <<in, connected, rooms, joining>>
  BY DEF Open, server
<1>10. (\E c \in Loads : Select(c) \/ Mark(c) \/ Answer(c) \/ FetchFails(c))
       => UNCHANGED <<in, connected, rooms, joining>>
  BY DEF Select, Mark, Answer, FetchFails, server, wire
<1>11. (\E m \in Messages : SendMessage(m) \/ Posted(m) \/ Stamp(m) \/ Insert(m) \/ SendFails(m))
       => UNCHANGED <<in, connected, rooms, joining>>
  BY DEF SendMessage, Posted, Stamp, Insert, SendFails, server, wire
<1>12. (\E m \in Messages, v \in Convs : OtherSends(m, v))
       => UNCHANGED <<in, connected, rooms, joining>>
  BY DEF OtherSends, server, wire
<1> QED
  BY <1>3, <1>4, <1>5, <1>6, <1>7, <1>8, <1>9, <1>10, <1>11, <1>12 DEF ChatNext

LEMMA CarriedStep == ASSUME MsgInv, ChatNext PROVE Carried'
  BY InwardStep, OutwardStep, DownStep DEF Carried

-----------------------------------------------------------------------------
(* What changes in a step                                                  *)

\* A row that is stored stays as it is.
LEMMA RowsStay ==
    ASSUME MsgInv, ChatNext, NEW m \in saved
    PROVE  /\ m \in Messages /\ m \in saved'
           /\ createdAt'[m] = createdAt[m] /\ conv'[m] = conv[m] /\ mine'[m] = mine[m]
<1> DEFINE Stays == m \in saved' /\ createdAt'[m] = createdAt[m] /\ conv'[m] = conv[m]
                    /\ mine'[m] = mine[m]
<1>1. ChatTypeOK /\ MessageRows
  BY DEF MsgInv
<1>2. /\ conv \in [Messages -> Convs \cup {Nil}] /\ mine \in [Messages -> BOOLEAN]
      /\ createdAt \in [Messages -> 0..clock] /\ m \in Messages
  BY <1>1 DEF ChatTypeOK
<1>3. step[m] \in Kept
  BY <1>1 DEF MessageRows
<1>4. ASSUME UNCHANGED <<createdAt, conv, mine, saved>> PROVE Stays
  BY <1>4
<1>5. ASSUME NEW n \in Messages, SendMessage(n) PROVE Stays
  <2>1. n # m  BY <1>3, <1>5 DEF SendMessage, Begin, Kept
  <2> QED  BY <1>2, <1>5, <2>1 DEF SendMessage, Begin
<1>6. ASSUME NEW n \in Messages, NEW v \in Convs, OtherSends(n, v) PROVE Stays
  <2>1. n # m  BY <1>3, <1>6 DEF OtherSends, Begin, Kept
  <2> QED  BY <1>2, <1>6, <2>1 DEF OtherSends, Begin
<1>7. ASSUME NEW n \in Messages, Stamp(n) PROVE Stays
  <2>1. n # m  BY <1>3, <1>7 DEF Stamp, Kept
  <2> QED  BY <1>2, <1>7, <2>1 DEF Stamp
<1>8. ASSUME NEW n \in Messages, Insert(n) PROVE Stays
  BY <1>8 DEF Insert
<1>9. (\E c \in Loads, v \in Convs : Open(c, v)) => UNCHANGED <<createdAt, conv, mine, saved>>
  BY DEF Open, messageRows
<1>10. (\E c \in Loads : Select(c) \/ Mark(c) \/ Answer(c) \/ FetchFails(c))
       => UNCHANGED <<createdAt, conv, mine, saved>>
  BY DEF Select, Mark, Answer, FetchFails, messageRows
<1>11. (\E n \in Messages : Posted(n) \/ Tell(n) \/ SendFails(n))
       => UNCHANGED <<createdAt, conv, mine, saved>>
  BY DEF Posted, Tell, SendFails
<1>12. Connect \/ Cut \/ Serve \/ Receive \/ (\E v \in Convs : Joined(v))
       => UNCHANGED <<createdAt, conv, mine, saved>>
  BY DEF Connect, Cut, Serve, Receive, Joined, messageRows
<1> HIDE DEF Stays
<1>13. Stays
  BY <1>4, <1>5, <1>6, <1>7, <1>8, <1>9, <1>10, <1>11, <1>12 DEF ChatNext, Stays
<1> QED  BY <1>2, <1>13 DEF Stays

\* What is on its way to the page was so before, or only begins.
LEMMA UnderWayBefore ==
    ASSUME MsgInv, ChatNext, NEW m \in Messages, UnderWay(m)'
    PROVE  UnderWay(m) \/ (m \notin saved' /\ createdAt'[m] = 0)
<1> DEFINE Begins == m \notin saved' /\ createdAt'[m] = 0
<1>1. ChatTypeOK /\ MessageRows /\ Inward /\ Outward
  BY DEF MsgInv, Carried
<1>2. /\ step \in [Messages -> {"unsent", "emitted", "asked", "stamped", "inserted", "answer",
                                "done", "lost"}]
      /\ in \in Seq(Messages) /\ createdAt \in [Messages -> 0..clock] /\ out \in Seq(Events)
  BY <1>1 DEF ChatTypeOK
<1>3. step'[m] \in {"asked", "stamped", "inserted", "answer"} \/ m \in Elements(in')
  BY DEF UnderWay, InProgress
<1>4. step[m] \in {"unsent", "emitted"} => m \notin saved /\ createdAt[m] = 0
  BY <1>1 DEF MessageRows, Untimed, Kept
<1>5. ASSUME UNCHANGED <<step, in>> PROVE UnderWay(m)
  BY <1>3, <1>5 DEF UnderWay, InProgress
<1>6. ASSUME NEW n \in Messages, SendMessage(n) PROVE UnderWay(m) \/ Begins
  <2>1. UNCHANGED <<in, createdAt, saved>> /\ step[n] = "unsent"
        /\ \A k \in Messages : k # n => step'[k] = step[k]
    BY <1>2, <1>6 DEF SendMessage, Begin
  <2> QED  BY <1>3, <1>4, <2>1 DEF UnderWay, InProgress
<1>7. ASSUME NEW n \in Messages, NEW v \in Convs, OtherSends(n, v) PROVE UnderWay(m) \/ Begins
  <2>1. UNCHANGED <<in, createdAt, saved>> /\ step[n] = "unsent"
        /\ \A k \in Messages : k # n => step'[k] = step[k]
    BY <1>2, <1>7 DEF OtherSends, Begin, wire
  <2> QED  BY <1>3, <1>4, <2>1 DEF UnderWay, InProgress
<1>8. ASSUME NEW n \in Messages, Posted(n) PROVE UnderWay(m)
  <2>1. in' = in /\ step' = [step EXCEPT ![n] = "done"] /\ step[n] = "answer"
    BY <1>8 DEF Posted, wire
  <2> QED  BY <1>2, <1>3, <2>1 DEF UnderWay, InProgress
<1>9. ASSUME NEW n \in Messages, Stamp(n) PROVE UnderWay(m)
  <2>1. in' = in /\ step' = [step EXCEPT ![n] = "stamped"] /\ step[n] = "asked"
    BY <1>9 DEF Stamp, wire
  <2> QED  BY <1>2, <1>3, <2>1 DEF UnderWay, InProgress
<1>10. ASSUME NEW n \in Messages, Insert(n) PROVE UnderWay(m)
  <2>1. in' = in /\ step' = [step EXCEPT ![n] = "inserted"] /\ step[n] = "stamped"
    BY <1>10 DEF Insert, wire
  <2> QED  BY <1>2, <1>3, <2>1 DEF UnderWay, InProgress
<1>11. ASSUME NEW n \in Messages, Tell(n) PROVE UnderWay(m)
  <2>1. (in' = in \/ in' = Append(in, n)) /\ step[n] = "inserted"
        /\ \A k \in Messages : k # n => step'[k] = step[k]
    BY <1>2, <1>11 DEF Tell
  <2>2. Elements(Append(in, n)) = Elements(in) \cup {n}
    BY <1>2, ElementsOf
  <2>3. Elements(in') \subseteq Elements(in) \cup {n}
    BY <2>1, <2>2
  <2> QED  BY <1>3, <2>1, <2>3 DEF UnderWay, InProgress
<1>12. ASSUME NEW n \in Messages, SendFails(n) PROVE UnderWay(m)
  <2>1. in' = in /\ step' = [step EXCEPT ![n] = IF n \in saved THEN "done" ELSE "lost"]
    BY <1>12 DEF SendFails, wire
  <2> QED  BY <1>2, <1>3, <2>1 DEF UnderWay, InProgress
<1>13. ASSUME Cut PROVE UnderWay(m)
  <2>1. /\ in' = <<>>
        /\ step' = [k \in Messages |-> IF step[k] = "emitted" THEN "lost" ELSE step[k]]
    BY <1>13 DEF Cut
  <2> QED  BY <1>2, <1>3, <2>1, NoElements DEF UnderWay, InProgress
<1>14. ASSUME Serve PROVE UnderWay(m) \/ Begins
  <2>1. UNCHANGED <<in, createdAt, saved>> /\ out # <<>>
    BY <1>14 DEF Serve
  <2>2. ASSUME step' = step PROVE UnderWay(m)
    BY <1>3, <2>1, <2>2 DEF UnderWay, InProgress
  <2>3. ASSUME NEW n \in Messages, Head(out) = Send(n), step' = [step EXCEPT ![n] = "asked"]
        PROVE  UnderWay(m) \/ Begins
    <3>1. out[1] = Send(n) /\ 1 \in DOMAIN out
      BY <1>2, <2>1, <2>3, HeadGone
    <3>2. step[n] = "emitted"
      BY <1>1, <3>1 DEF Outward
    <3>3. \A k \in Messages : k # n => step'[k] = step[k]
      BY <1>2, <2>3
    <3> QED  BY <1>3, <1>4, <2>1, <3>2, <3>3 DEF UnderWay, InProgress
  <2> HIDE DEF Begins
  <2> QED  BY <1>1, <1>14, <2>2, <2>3, Served
<1>15. ASSUME Receive PROVE UnderWay(m)
  <2>1. step' = step /\ in # <<>> /\ in' = Tail(in)
    BY <1>15 DEF Receive, messageRows
  <2>2. Elements(in') \subseteq Elements(in)
    BY <1>2, <2>1, ElementsOf
  <2> QED  BY <1>3, <2>1, <2>2 DEF UnderWay, InProgress
<1>16. (\E c \in Loads, v \in Convs : Open(c, v)) => UNCHANGED <<step, in>>
  BY DEF Open, messageRows
<1>17. (\E c \in Loads : Select(c) \/ Mark(c) \/ Answer(c) \/ FetchFails(c))
         => UNCHANGED <<step, in>>
  BY DEF Select, Mark, Answer, FetchFails, messageRows, wire
<1>18. Connect \/ (\E v \in Convs : Joined(v)) => UNCHANGED <<step, in>>
  BY DEF Connect, Joined, messageRows, wire
<1> HIDE DEF Begins
<1>19. UnderWay(m) \/ Begins
  BY <1>5, <1>6, <1>7, <1>8, <1>9, <1>10, <1>11, <1>12, <1>13, <1>14, <1>15, <1>16, <1>17,
     <1>18 DEF ChatNext
<1> QED  BY <1>19 DEF Begins

\* What is received is stored and was on its way, and is no longer.
LEMMA Received ==
    ASSUME MsgInv, Receive
    PROVE  \E h \in saved :
              /\ h = Head(in) /\ UnderWay(h) /\ ~UnderWay(h)'
              /\ \A m \in Messages : m # h => UnderWay(m)' = UnderWay(m)
<1>1. ChatTypeOK /\ MessageRows /\ Inward
  BY DEF MsgInv, Carried
<1>2. in \in Seq(Messages) /\ in # <<>> /\ in' = Tail(in) /\ step' = step
  BY <1>1 DEF ChatTypeOK, Receive, messageRows
<1>3. Head(in) \in Messages
  BY <1>2, HeadGone
<1>4. PICK h \in Messages : h = Head(in)
  BY <1>3
<1>5. /\ h = in[1] /\ 1 \in DOMAIN in
      /\ \A i \in DOMAIN Tail(in) : i + 1 \in DOMAIN in /\ Tail(in)[i] = in[i + 1] /\ i + 1 # 1
  <2>1. /\ h = in[1] /\ 1 \in DOMAIN in
        /\ \A i \in DOMAIN Tail(in) : i + 1 \in DOMAIN in /\ Tail(in)[i] = in[i + 1]
        /\ DOMAIN Tail(in) = 1..Len(in) - 1 /\ Len(in) \in Nat
    BY <1>2, <1>4, HeadGone
  <2> QED  BY <2>1
<1>6. Elements(in) = Elements(in') \cup {h}
  BY <1>2, <1>4, ElementsOf
<1>7. step[h] = "done"
  BY <1>1, <1>5 DEF Inward
<1>8. h \notin Elements(in')
  BY <1>1, <1>2, <1>5 DEF Inward, Elements
<1>9. h \in saved
  BY <1>1, <1>4, <1>7 DEF MessageRows, Kept
<1>10. UnderWay(h) /\ ~UnderWay(h)'
  BY <1>2, <1>6, <1>7, <1>8 DEF UnderWay, InProgress
<1>11. \A m \in Messages : m # h => UnderWay(m)' = UnderWay(m)
  BY <1>2, <1>6 DEF UnderWay, InProgress
<1> QED  BY <1>4, <1>9, <1>10, <1>11

\* So is what was posted, when the answer is there.
LEMMA PostAnswered ==
    ASSUME MsgInv, NEW m \in Messages, Posted(m)
    PROVE  /\ m \in saved /\ UnderWay(m) /\ ~UnderWay(m)'
           /\ \A n \in Messages : n # m => UnderWay(n)' = UnderWay(n)
<1>1. ChatTypeOK /\ MessageRows /\ Inward
  BY DEF MsgInv, Carried
<1>2. /\ step \in [Messages -> {"unsent", "emitted", "asked", "stamped", "inserted", "answer",
                                "done", "lost"}]
      /\ step[m] = "answer" /\ step' = [step EXCEPT ![m] = "done"] /\ in' = in
  BY <1>1 DEF ChatTypeOK, Posted, wire
<1>3. m \notin Elements(in)
  BY <1>1, <1>2 DEF Inward, Elements
<1>4. m \in saved
  BY <1>1, <1>2 DEF MessageRows, Kept
<1>5. UnderWay(m) /\ ~UnderWay(m)'
  BY <1>2, <1>3 DEF UnderWay, InProgress
<1>6. \A n \in Messages : n # m => UnderWay(n)' = UnderWay(n)
  BY <1>2 DEF UnderWay, InProgress
<1> QED  BY <1>4, <1>5, <1>6

\* The page shows what it did, one message more that was on its way, or what a load answers.
LEMMA ShownAfter ==
    ASSUME MsgInv, ChatNext
    PROVE  \/ shown' = shown
           \/ \E m \in saved : UnderWay(m) /\ ~UnderWay(m)' /\ shown' = Append(shown, m)
           \/ \E c \in Loads : at[c] = "answer" /\ shown' = got[c]
<1>1. ASSUME NEW m \in Messages, Posted(m)
      PROVE  m \in saved /\ UnderWay(m) /\ ~UnderWay(m)' /\ shown' = Append(shown, m)
  BY <1>1, PostAnswered DEF Posted, ShowAlso
<1>2. CASE Receive
  <2>1. PICK h \in saved : h = Head(in) /\ UnderWay(h) /\ ~UnderWay(h)'
    BY <1>2, Received
  <2>2. shown' = shown \/ shown' = Append(shown, Head(in))
    BY <1>2 DEF Receive, ShowAlso
  <2> QED  BY <2>1, <2>2
<1>3. ASSUME NEW c \in Loads, Answer(c) PROVE at[c] = "answer" /\ shown' = got[c]
  BY <1>3 DEF Answer
<1>4. (\E c \in Loads, v \in Convs : Open(c, v)) => shown' = shown
  BY DEF Open
<1>5. (\E c \in Loads : Select(c) \/ Mark(c) \/ FetchFails(c)) => shown' = shown
  BY DEF Select, Mark, FetchFails, page
<1>6. (\E m \in Messages : SendMessage(m) \/ Stamp(m) \/ Insert(m) \/ Tell(m) \/ SendFails(m))
      => shown' = shown
  BY DEF SendMessage, Stamp, Insert, Tell, SendFails, page
<1>7. (\E m \in Messages, v \in Convs : OtherSends(m, v)) => shown' = shown
  BY DEF OtherSends, page
<1>8. Connect \/ Cut \/ Serve \/ (\E v \in Convs : Joined(v)) => shown' = shown
  BY DEF Connect, Cut, Serve, Joined, page
<1> QED
  BY <1>1, <1>2, <1>3, <1>4, <1>5, <1>6, <1>7, <1>8 DEF ChatNext

\* A load holds what it did, what it has just read, or nothing.
LEMMA GotAfter ==
    ASSUME MsgInv, ChatNext, NEW c \in Loads
    PROVE  \/ got'[c] = got[c] /\ of'[c] = of[c]
           \/ got'[c] = <<>>
           \/ \E s \in Pages(of[c]) :
                 /\ got'[c] = s /\ of'[c] = of[c]
                 /\ crossed' = crossed \cup {m \in Elements(s) : UnderWay(m)}
<1>1. ChatTypeOK /\ HeldByPage
  BY DEF MsgInv
<1>2. got \in [Loads -> Seq(Messages)] /\ of \in [Loads -> Convs \cup {Nil}]
  BY <1>1 DEF ChatTypeOK
<1>3. ASSUME NEW d \in Loads, NEW v \in Convs, Open(d, v)
      PROVE  got'[c] = <<>> \/ (got'[c] = got[c] /\ of'[c] = of[c])
  BY <1>1, <1>2, <1>3 DEF Open, HeldByPage
<1>4. ASSUME NEW d \in Loads, Select(d)
      PROVE  \/ got'[c] = got[c] /\ of'[c] = of[c]
             \/ \E s \in Pages(of[c]) :
                   /\ got'[c] = s /\ of'[c] = of[c]
                   /\ crossed' = crossed \cup {m \in Elements(s) : UnderWay(m)}
  <2>1. PICK s \in Pages(of[d]) :
           /\ got' = [got EXCEPT ![d] = s]
           /\ crossed' = crossed \cup {m \in Elements(s) : UnderWay(m)}
    BY <1>4 DEF Select
  <2>2. of' = of
    BY <1>4 DEF Select
  <2> QED  BY <1>2, <2>1, <2>2
<1>5. ASSUME NEW d \in Loads, Answer(d) \/ FetchFails(d)
      PROVE  got'[c] = <<>> \/ (got'[c] = got[c] /\ of'[c] = of[c])
  BY <1>2, <1>5 DEF Answer, FetchFails, EndLoad
<1>6. (\E d \in Loads : Mark(d)) => UNCHANGED <<got, of>>
  BY DEF Mark
<1>7. (\E m \in Messages : \/ SendMessage(m) \/ Posted(m)
                           \/ Stamp(m) \/ Insert(m) \/ Tell(m) \/ SendFails(m))
      => UNCHANGED <<got, of>>
  BY DEF SendMessage, Posted, Stamp, Insert, Tell, SendFails, loads
<1>8. (\E m \in Messages, v \in Convs : OtherSends(m, v)) => UNCHANGED <<got, of>>
  BY DEF OtherSends, loads
<1>9. Connect \/ Cut \/ Serve \/ Receive \/ (\E v \in Convs : Joined(v))
        => UNCHANGED <<got, of>>
  BY DEF Connect, Cut, Serve, Receive, Joined, loads
<1> QED
  BY <1>3, <1>4, <1>5, <1>6, <1>7, <1>8, <1>9 DEF ChatNext

\* The record only grows.
LEMMA RecordGrows ==
    ASSUME ChatNext
    PROVE  /\ crossed \subseteq crossed' /\ mingled \subseteq mingled'
           /\ settled \subseteq settled'
           /\ excused \subseteq excused' /\ moved \subseteq moved'
<1> USE DEF chatHistory
<1>1. ASSUME NEW c \in Loads, NEW v \in Convs, Open(c, v)
      PROVE  UNCHANGED <<crossed, mingled, settled, excused>> /\ moved \subseteq moved'
  BY <1>1 DEF Open
<1>2. ASSUME NEW c \in Loads, Select(c)
      PROVE  /\ UNCHANGED <<mingled, moved>> /\ crossed \subseteq crossed'
             /\ settled \subseteq settled' /\ excused \subseteq excused'
  BY <1>2 DEF Select
<1>3. ASSUME NEW c \in Loads, Mark(c) \/ Answer(c) \/ FetchFails(c)
      PROVE  UNCHANGED <<crossed, mingled, excused, moved>> /\ settled \subseteq settled'
  BY <1>3 DEF Mark, Answer, FetchFails
<1>4. ASSUME NEW m \in Messages, Posted(m)
      PROVE  /\ UNCHANGED <<crossed, mingled, moved>>
             /\ settled \subseteq settled' /\ excused \subseteq excused'
  BY <1>4 DEF Posted, ShowAlso
<1>5. ASSUME NEW m \in Messages, Stamp(m) \/ Insert(m)
      PROVE  /\ UNCHANGED <<crossed, excused, moved>>
             /\ mingled \subseteq mingled' /\ settled \subseteq settled'
  BY <1>5 DEF Stamp, Insert
<1>6. ASSUME NEW m \in Messages, SendFails(m) \/ Tell(m)
      PROVE  UNCHANGED <<crossed, mingled, settled, moved>> /\ excused \subseteq excused'
  BY <1>6 DEF SendFails, Tell
<1>7. CASE Cut
  BY <1>7 DEF Cut
<1>8. CASE Receive
  BY <1>8 DEF Receive, ShowAlso
<1>9. (\E m \in Messages : SendMessage(m)) \/ (\E m \in Messages, v \in Convs : OtherSends(m, v))
      => UNCHANGED chatHistory
  BY DEF SendMessage, OtherSends
<1>10. Connect \/ Serve \/ (\E v \in Convs : Joined(v)) => UNCHANGED chatHistory
  BY DEF Connect, Serve, Joined
<1> QED
  BY <1>1, <1>2, <1>3, <1>4, <1>5, <1>6, <1>7, <1>8, <1>9, <1>10 DEF ChatNext

-----------------------------------------------------------------------------
(* What is shown: each message once, and in order                          *)

\* A page has rows of its conversation, the oldest first.
LEMMA PagesAre ==
    ASSUME NEW v, NEW s \in Pages(v)
    PROVE  /\ \A i \in DOMAIN s : s[i] \in saved /\ conv[s[i]] = v
           /\ \A i, j \in DOMAIN s : i < j => createdAt[s[i]] < createdAt[s[j]]
<1>1. s \in [1..PageLength(v) -> Of(v)]
      /\ \A i, j \in DOMAIN s : i < j => createdAt[s[i]] < createdAt[s[j]]
  BY DEF Pages
<1> QED  BY <1>1 DEF Of

LEMMA HeldByPageStep == ASSUME MessagingAssumption, MsgInv, ChatNext PROVE HeldByPage'
<1>1. ChatTypeOK /\ ChatTypeOK' /\ HeldByPage
  BY MsgTypedStep DEF MsgInv
<1>2. /\ got \in [Loads -> Seq(Messages)] /\ shown \in Seq(Messages)
      /\ at \in [Loads -> {"idle", "select", "mark", "answer"}]
      /\ of \in [Loads -> Convs \cup {Nil}]
  BY <1>1 DEF ChatTypeOK
<1>3. \A m \in saved : m \in saved' /\ createdAt'[m] = createdAt[m] /\ conv'[m] = conv[m]
                        /\ m \in Messages
  BY RowsStay
<1>4. \A i \in DOMAIN shown' : shown'[i] \in saved'
  <2>1. CASE shown' = shown
    BY <1>1, <1>3, <2>1 DEF HeldByPage
  <2>2. ASSUME NEW m \in saved, shown' = Append(shown, m)
        PROVE  \A i \in DOMAIN shown' : shown'[i] \in saved'
    <3>1. /\ DOMAIN shown = 1..Len(shown) /\ DOMAIN shown' = 1..Len(shown) + 1
          /\ shown'[Len(shown) + 1] = m /\ \A i \in DOMAIN shown : shown'[i] = shown[i]
          /\ Len(shown) \in Nat
      BY <1>2, <1>3, <2>2, LastAdded
    <3> QED  BY <1>1, <1>3, <3>1 DEF HeldByPage
  <2>3. ASSUME NEW c \in Loads, shown' = got[c]
        PROVE  \A i \in DOMAIN shown' : shown'[i] \in saved'
    BY <1>1, <1>3, <2>3 DEF HeldByPage
  <2> QED  BY <2>1, <2>2, <2>3, ShownAfter
<1>5. ASSUME NEW c \in Loads
      PROVE  /\ \A i \in DOMAIN got'[c] : got'[c][i] \in saved' /\ conv'[got'[c][i]] = of'[c]
             /\ \A i, j \in DOMAIN got'[c] :
                   i < j => createdAt'[got'[c][i]] < createdAt'[got'[c][j]]
  <2>1. CASE got'[c] = got[c] /\ of'[c] = of[c]
    <3>1. \A i \in DOMAIN got[c] : got[c][i] \in saved /\ conv[got[c][i]] = of[c]
      BY <1>1 DEF HeldByPage
    <3>2. \A i, j \in DOMAIN got[c] : i < j => createdAt[got[c][i]] < createdAt[got[c][j]]
      BY <1>1 DEF HeldByPage
    <3> QED  BY <1>3, <2>1, <3>1, <3>2
  <2>2. CASE got'[c] = <<>>
    BY <2>2, NoElements
  <2>3. ASSUME NEW s \in Pages(of[c]), got'[c] = s, of'[c] = of[c]
        PROVE  /\ \A i \in DOMAIN got'[c] : got'[c][i] \in saved' /\ conv'[got'[c][i]] = of'[c]
               /\ \A i, j \in DOMAIN got'[c] :
                     i < j => createdAt'[got'[c][i]] < createdAt'[got'[c][j]]
    <3>1. /\ \A i \in DOMAIN s : s[i] \in saved /\ conv[s[i]] = of[c]
          /\ \A i, j \in DOMAIN s : i < j => createdAt[s[i]] < createdAt[s[j]]
      BY PagesAre
    <3> QED  BY <1>3, <2>3, <3>1
  <2> QED  BY <2>1, <2>2, <2>3, GotAfter
<1> DEFINE Steady == /\ \A c \in Loads : at[c] \in {"idle", "select"} => got[c] = <<>>
                     /\ \A c \in Loads : at[c] # "idle" => of[c] \in Convs
<1>6. Steady
  BY <1>1 DEF HeldByPage
<1>7. Steady'
  <2>1. CASE UNCHANGED loads
    BY <1>6, <2>1 DEF loads
  <2>2. ASSUME NEW c \in Loads, NEW v \in Convs, Open(c, v) PROVE Steady'
    BY <1>2, <1>6, <2>2 DEF Open
  <2>3. ASSUME NEW c \in Loads, Select(c) PROVE Steady'
    <3>1. PICK s \in Pages(of[c]) : got' = [got EXCEPT ![c] = s]
      BY <2>3 DEF Select
    <3> QED  BY <1>2, <1>6, <2>3, <3>1 DEF Select
  <2>4. ASSUME NEW c \in Loads, Mark(c) PROVE Steady'
    BY <1>2, <1>6, <2>4 DEF Mark
  <2>5. ASSUME NEW c \in Loads, Answer(c) \/ FetchFails(c) PROVE Steady'
    BY <1>2, <1>6, <2>5 DEF Answer, FetchFails, EndLoad
  <2>6. (\E m \in Messages : \/ SendMessage(m) \/ Posted(m)
                             \/ Stamp(m) \/ Insert(m) \/ Tell(m) \/ SendFails(m))
        => UNCHANGED loads
    BY DEF SendMessage, Posted, Stamp, Insert, Tell, SendFails
  <2>7. (\E m \in Messages, v \in Convs : OtherSends(m, v)) => UNCHANGED loads
    BY DEF OtherSends
  <2>8. Connect \/ Cut \/ Serve \/ Receive \/ (\E v \in Convs : Joined(v)) => UNCHANGED loads
    BY DEF Connect, Cut, Serve, Receive, Joined
  <2> HIDE DEF Steady
  <2> QED  BY <2>1, <2>2, <2>3, <2>4, <2>5, <2>6, <2>7, <2>8 DEF ChatNext
<1> QED  BY <1>4, <1>5, <1>7 DEF HeldByPage

LEMMA OnceStep == ASSUME MessagingAssumption, MsgInv, ChatNext PROVE OnceMore' /\ ShownOnce'
<1>1. ChatTypeOK /\ HeldByPage /\ OnceMore /\ ShownOnce /\ HeldByPage' /\ ChatTypeOK'
  BY HeldByPageStep, MsgTypedStep DEF MsgInv
<1>2. got \in [Loads -> Seq(Messages)] /\ shown \in Seq(Messages) /\ saved \subseteq Messages
  BY <1>1 DEF ChatTypeOK
<1>3. crossed \subseteq crossed'
  BY RecordGrows
<1>4. ASSUME NEW m \in Messages, UnderWay(m)', m \in Elements(shown') PROVE m \in crossed'
  <2>1. m \in saved'
    BY <1>1, <1>4 DEF HeldByPage, Elements
  <2>2. UnderWay(m)
    BY <1>4, <2>1, UnderWayBefore
  <2>3. m \in Elements(shown) \/ \E c \in Loads : m \in Elements(got[c])
    <3>1. ASSUME NEW k \in saved, ~UnderWay(k)', shown' = Append(shown, k)
          PROVE  m \in Elements(shown)
      <4>1. m # k
        BY <1>4, <3>1
      <4>2. Elements(Append(shown, k)) = Elements(shown) \cup {k}
        BY <1>2, ElementsOf
      <4> QED  BY <1>4, <3>1, <4>1, <4>2
    <3> QED  BY <1>4, <3>1, ShownAfter
  <2> QED  BY <1>1, <1>3, <2>2, <2>3 DEF OnceMore
<1>5. ASSUME NEW m \in Messages, UnderWay(m)', NEW c \in Loads, m \in Elements(got'[c])
      PROVE  m \in crossed'
  <2>1. m \in saved'
    BY <1>1, <1>5 DEF HeldByPage, Elements
  <2>2. UnderWay(m)
    BY <1>5, <2>1, UnderWayBefore
  <2>3. CASE got'[c] = got[c]
    BY <1>1, <1>3, <1>5, <2>2, <2>3 DEF OnceMore
  <2>4. CASE got'[c] = <<>>
    BY <1>5, <2>4, NoElements
  <2>5. ASSUME NEW s \in Pages(of[c]), got'[c] = s,
               crossed' = crossed \cup {n \in Elements(s) : UnderWay(n)}
        PROVE  m \in crossed'
    BY <1>5, <2>2, <2>5
  <2> QED  BY <2>3, <2>4, <2>5, GotAfter
<1>6. OnceMore'
  BY <1>4, <1>5 DEF OnceMore
<1>7. ShownOnce'
  <2>1. CASE shown' = shown
    BY <1>1, <1>3, <2>1 DEF ShownOnce
  <2>2. ASSUME NEW m \in saved, UnderWay(m), shown' = Append(shown, m) PROVE ShownOnce'
    <3>1. /\ DOMAIN shown = 1..Len(shown) /\ DOMAIN shown' = 1..Len(shown) + 1
          /\ shown'[Len(shown) + 1] = m /\ \A i \in DOMAIN shown : shown'[i] = shown[i]
          /\ Len(shown) \in Nat
      BY <1>2, <2>2, LastAdded
    <3>2. \A i \in DOMAIN shown : shown[i] = m => m \in crossed
      BY <1>1, <1>2, <2>2 DEF OnceMore, Elements
    <3>3. ASSUME NEW i \in DOMAIN shown', NEW j \in DOMAIN shown', i # j, shown'[i] = shown'[j]
          PROVE  shown'[i] \in crossed'
      <4>1. CASE i \in DOMAIN shown /\ j \in DOMAIN shown
        BY <1>1, <1>3, <3>1, <3>3, <4>1 DEF ShownOnce
      <4>2. CASE i = Len(shown) + 1
        BY <1>3, <3>1, <3>2, <3>3, <4>2
      <4>3. CASE j = Len(shown) + 1
        BY <1>3, <3>1, <3>2, <3>3, <4>3
      <4> QED  BY <3>1, <3>3, <4>1, <4>2, <4>3
    <3> QED  BY <3>3 DEF ShownOnce
  <2>3. ASSUME NEW c \in Loads, shown' = got[c] PROVE ShownOnce'
    <3>1. /\ \A i, j \in DOMAIN got[c] : i < j => createdAt[got[c][i]] < createdAt[got[c][j]]
          /\ \A i \in DOMAIN got[c] : got[c][i] \in saved
      BY <1>1 DEF HeldByPage
    <3>2. \A m \in saved : createdAt[m] \in Nat
      BY <1>1 DEF ChatTypeOK
    <3>3. DOMAIN got[c] \subseteq Int
      BY <1>2
    <3>4. \A i, j \in DOMAIN got[c] : i # j => got[c][i] # got[c][j]
      BY <3>1, <3>2, <3>3
    <3> QED  BY <2>3, <3>4 DEF ShownOnce
  <2> QED  BY <2>1, <2>2, <2>3, ShownAfter
<1> QED  BY <1>6, <1>7

LEMMA YoungerStep == ASSUME MsgInv, ChatNext PROVE Younger'
<1>1. ChatTypeOK /\ Younger /\ MessageRows
  BY DEF MsgInv
<1>2. createdAt \in [Messages -> 0..clock] /\ clock \in Nat
  BY <1>1 DEF ChatTypeOK
<1>3. mingled \subseteq mingled'
  BY RecordGrows
<1>4. ASSUME createdAt' = createdAt PROVE Younger'
  <2> SUFFICES ASSUME NEW m \in Messages, NEW n \in Messages, UnderWay(m)', createdAt[m] > 0,
                      createdAt[m] < createdAt[n]
               PROVE  m \in mingled' /\ n \in mingled'
    BY <1>4 DEF Younger
  <2>1. UnderWay(m)
    BY <1>2, <1>4, UnderWayBefore
  <2> QED  BY <1>1, <1>3, <2>1 DEF Younger
<1>5. ASSUME NEW k \in Messages, Stamp(k) PROVE Younger'
  <2> SUFFICES ASSUME NEW m \in Messages, NEW n \in Messages, UnderWay(m)', createdAt'[m] > 0,
                      createdAt'[m] < createdAt'[n]
               PROVE  m \in mingled' /\ n \in mingled'
    BY DEF Younger
  <2>1. createdAt' = [createdAt EXCEPT ![k] = clock + 1] /\ step[k] = "asked"
        /\ mingled' = IF \E i \in Messages \ {k} : UnderWay(i)
                      THEN mingled \cup {k} \cup {i \in Messages : UnderWay(i)} ELSE mingled
    BY <1>5 DEF Stamp
  <2>2. m # k
    BY <1>2, <2>1
  <2>3. UnderWay(m) /\ createdAt'[m] = createdAt[m]
    BY <1>2, <2>1, <2>2, UnderWayBefore
  <2>4. CASE n = k
    BY <2>1, <2>2, <2>3, <2>4
  <2>5. CASE n # k
    BY <1>1, <1>2, <1>3, <2>1, <2>3, <2>5 DEF Younger
  <2> QED  BY <2>4, <2>5
<1>6. (\E c \in Loads, v \in Convs : Open(c, v)) => createdAt' = createdAt
  BY DEF Open, messageRows
<1>7. (\E c \in Loads : Select(c) \/ Mark(c) \/ Answer(c) \/ FetchFails(c))
        => createdAt' = createdAt
  BY DEF Select, Mark, Answer, FetchFails, messageRows
<1>8. (\E m \in Messages : SendMessage(m) \/ Posted(m) \/ Insert(m) \/ Tell(m) \/ SendFails(m))
      => createdAt' = createdAt
  BY DEF SendMessage, Posted, Insert, Tell, SendFails
<1>9. (\E m \in Messages, v \in Convs : OtherSends(m, v)) => createdAt' = createdAt
  BY DEF OtherSends
<1>10. Connect \/ Cut \/ Serve \/ Receive \/ (\E v \in Convs : Joined(v))
       => createdAt' = createdAt
  BY DEF Connect, Cut, Serve, Receive, Joined, messageRows
<1> QED
  BY <1>4, <1>5, <1>6, <1>7, <1>8, <1>9, <1>10 DEF ChatNext

LEMMA InOrderStep == ASSUME MessagingAssumption, MsgInv, ChatNext PROVE ShownInOrder'
<1>1. ChatTypeOK /\ HeldByPage /\ Younger /\ ShownInOrder
  BY DEF MsgInv
<1>2. got \in [Loads -> Seq(Messages)] /\ shown \in Seq(Messages) /\ saved \subseteq Messages
      /\ \A m \in saved : createdAt[m] \in Nat /\ createdAt[m] > 0
  BY <1>1 DEF ChatTypeOK
<1>3. mingled \subseteq mingled'
  BY RecordGrows
<1>4. \A m \in saved : createdAt'[m] = createdAt[m]
  BY RowsStay
<1>5. \A i \in DOMAIN shown : shown[i] \in saved
  BY <1>1 DEF HeldByPage
<1>6. CASE shown' = shown
  BY <1>1, <1>3, <1>4, <1>5, <1>6 DEF ShownInOrder
<1>7. ASSUME NEW m \in saved, UnderWay(m), shown' = Append(shown, m) PROVE ShownInOrder'
  <2>1. /\ DOMAIN shown = 1..Len(shown) /\ DOMAIN shown' = 1..Len(shown) + 1
        /\ shown'[Len(shown) + 1] = m /\ \A i \in DOMAIN shown : shown'[i] = shown[i]
        /\ Len(shown) \in Nat
    BY <1>2, <1>7, LastAdded
  <2> SUFFICES ASSUME NEW k \in DOMAIN shown', NEW l \in DOMAIN shown', k < l,
                      createdAt'[shown'[l]] < createdAt'[shown'[k]]
               PROVE  shown'[k] \in mingled' /\ shown'[l] \in mingled'
    BY DEF ShownInOrder
  <2>2. k \in DOMAIN shown /\ shown'[k] = shown[k]
    BY <2>1
  <2>3. CASE l \in DOMAIN shown
    BY <1>1, <1>3, <1>4, <1>5, <2>1, <2>2, <2>3 DEF ShownInOrder
  <2>4. CASE l = Len(shown) + 1
    <3>1. createdAt[m] < createdAt[shown[k]] /\ createdAt[m] > 0 /\ m \in Messages
          /\ shown[k] \in Messages
      BY <1>2, <1>4, <1>5, <2>1, <2>2, <2>4
    <3>2. m \in mingled /\ shown[k] \in mingled
      BY <1>1, <1>7, <3>1 DEF Younger
    <3> QED  BY <1>3, <2>1, <2>2, <2>4, <3>2
  <2> QED  BY <2>1, <2>3, <2>4
<1>8. ASSUME NEW c \in Loads, shown' = got[c] PROVE ShownInOrder'
  <2>1. /\ \A i, j \in DOMAIN got[c] : i < j => createdAt[got[c][i]] < createdAt[got[c][j]]
        /\ \A i \in DOMAIN got[c] : got[c][i] \in saved
    BY <1>1 DEF HeldByPage
  <2>2. \A i, j \in DOMAIN got[c] : i < j => ~(createdAt'[got[c][j]] < createdAt'[got[c][i]])
    BY <1>2, <1>4, <2>1
  <2> QED  BY <1>8, <2>2 DEF ShownInOrder
<1> QED  BY <1>6, <1>7, <1>8, ShownAfter

-----------------------------------------------------------------------------
(* Under whose name it is shown                                            *)

\* What a message is of does not change once it is sent, and a post is in progress once.
LEMMA PostsStay ==
    ASSUME MsgInv, ChatNext, NEW m \in Messages, byRest'[m], InProgress(m)'
    PROVE  \/ byRest[m] /\ InProgress(m) /\ conv'[m] = conv[m]
           \/ opened' = opened /\ conv'[m] = opened
<1> DEFINE Before == byRest[m] /\ InProgress(m) /\ conv'[m] = conv[m]
           Now    == opened' = opened /\ conv'[m] = opened
<1>1. ChatTypeOK /\ MessageRows /\ Outward
  BY DEF MsgInv, Carried
<1>2. /\ step \in [Messages -> {"unsent", "emitted", "asked", "stamped", "inserted", "answer",
                                "done", "lost"}]
      /\ conv \in [Messages -> Convs \cup {Nil}] /\ byRest \in [Messages -> BOOLEAN]
  BY <1>1 DEF ChatTypeOK
<1>3. byRest'[m] /\ step'[m] \in {"asked", "stamped", "inserted", "answer"}
  BY DEF InProgress
<1>4. byRest[m] => step[m] # "emitted"
  BY <1>1 DEF MessageRows
<1>5. ASSUME UNCHANGED <<conv, byRest, step>> PROVE Before
  BY <1>3, <1>5 DEF InProgress
<1>6. ASSUME NEW n \in Messages, SendMessage(n) PROVE Before \/ Now
  <2>1. /\ opened' = opened /\ conv' = [conv EXCEPT ![n] = opened]
        /\ \A k \in Messages : k # n => byRest'[k] = byRest[k] /\ step'[k] = step[k]
    BY <1>2, <1>6 DEF SendMessage, Begin, page
  <2> QED  BY <1>2, <1>3, <2>1 DEF InProgress
<1>7. ASSUME NEW n \in Messages, NEW v \in Convs, OtherSends(n, v) PROVE Before
  <2>1. /\ conv' = [conv EXCEPT ![n] = v] /\ byRest' = [byRest EXCEPT ![n] = FALSE]
        /\ \A k \in Messages : k # n => step'[k] = step[k]
    BY <1>2, <1>7 DEF OtherSends, Begin
  <2> QED  BY <1>2, <1>3, <2>1 DEF InProgress
<1>8. ASSUME NEW n \in Messages, Posted(n) \/ Stamp(n) \/ Insert(n) \/ Tell(n) \/ SendFails(n)
      PROVE  Before
  <2>1. CASE Posted(n)  BY <1>2, <1>3, <2>1 DEF Posted, InProgress
  <2>2. CASE Stamp(n)  BY <1>2, <1>3, <2>2 DEF Stamp, InProgress
  <2>3. CASE Insert(n)  BY <1>2, <1>3, <2>3 DEF Insert, InProgress
  <2>4. CASE Tell(n)  BY <1>2, <1>3, <2>4 DEF Tell, InProgress
  <2>5. CASE SendFails(n)  BY <1>2, <1>3, <2>5 DEF SendFails, InProgress
  <2> QED  BY <1>8, <2>1, <2>2, <2>3, <2>4, <2>5
<1>9. ASSUME Cut PROVE Before
  BY <1>2, <1>3, <1>9 DEF Cut, InProgress
<1>10. ASSUME Serve PROVE Before
  <2>1. UNCHANGED <<conv, byRest>> /\ out # <<>> /\ out \in Seq(Events)
    BY <1>1, <1>10 DEF Serve, ChatTypeOK
  <2>2. ASSUME step' = step PROVE Before
    BY <1>3, <2>1, <2>2 DEF InProgress
  <2>3. ASSUME NEW n \in Messages, Head(out) = Send(n), step' = [step EXCEPT ![n] = "asked"]
        PROVE  Before
    <3>1. out[1] = Send(n) /\ 1 \in DOMAIN out
      BY <2>1, <2>3, HeadGone
    <3>2. step[n] = "emitted"
      BY <1>1, <3>1 DEF Outward
    <3>3. m # n
      BY <1>3, <1>4, <2>1, <3>2
    <3> QED  BY <1>2, <1>3, <2>1, <2>3, <3>3 DEF InProgress
  <2> HIDE DEF Before
  <2> QED  BY <1>1, <1>10, <2>2, <2>3, Served
<1>11. (\E c \in Loads, v \in Convs : Open(c, v)) => UNCHANGED <<conv, byRest, step>>
  BY DEF Open, messageRows
<1>12. (\E c \in Loads : Select(c) \/ Mark(c) \/ Answer(c) \/ FetchFails(c))
       => UNCHANGED <<conv, byRest, step>>
  BY DEF Select, Mark, Answer, FetchFails, messageRows
<1>13. Connect \/ Receive \/ (\E v \in Convs : Joined(v)) => UNCHANGED <<conv, byRest, step>>
  BY DEF Connect, Receive, Joined, messageRows
<1> HIDE DEF Before, Now
<1>14. Before \/ Now
  BY <1>5, <1>6, <1>7, <1>8, <1>9, <1>10, <1>11, <1>12, <1>13 DEF ChatNext
<1> QED  BY <1>14 DEF Before, Now

LEMMA OneLoadStep == ASSUME MsgInv, ChatNext PROVE OneLoad'
<1>1. ChatTypeOK /\ OneLoad
  BY DEF MsgInv
<1>2. /\ at \in [Loads -> {"idle", "select", "mark", "answer"}]
      /\ of \in [Loads -> Convs \cup {Nil}] /\ blurred \in BOOLEAN
  BY <1>1 DEF ChatTypeOK
<1> DEFINE Single == ~blurred => \A c, d \in Loads : at[c] # "idle" /\ at[d] # "idle" => c = d
           Right == ~blurred => \A c \in Loads : at[c] # "idle" => of[c] = opened
           Moves == \A m \in Messages :
                       byRest[m] /\ InProgress(m) => conv[m] = opened \/ m \in moved
<1>3. Single /\ Right /\ Moves
  BY <1>1 DEF OneLoad
<1>4. Single' /\ Right'
  <2>1. ASSUME UNCHANGED <<blurred, at, of, opened>> PROVE Single' /\ Right'
    BY <1>3, <2>1
  <2>2. ASSUME NEW c \in Loads, NEW v \in Convs, Open(c, v) PROVE Single' /\ Right'
    <3>1. /\ at' = [at EXCEPT ![c] = "select"] /\ of' = [of EXCEPT ![c] = v] /\ opened' = v
          /\ blurred' = \E d \in Loads : at[d] # "idle"
      BY <2>2 DEF Open
    <3> QED  BY <1>2, <3>1
  <2>3. ASSUME NEW c \in Loads, Select(c) \/ Mark(c) PROVE Single' /\ Right'
    <3>1. /\ UNCHANGED <<blurred, of, opened>> /\ at[c] # "idle"
          /\ at' = [at EXCEPT ![c] = "mark"] \/ at' = [at EXCEPT ![c] = "answer"]
      BY <2>3 DEF Select, Mark, page, chatHistory
    <3>2. \A d \in Loads : at'[d] # "idle" <=> at[d] # "idle"
      BY <1>2, <3>1
    <3> QED  BY <1>3, <3>1, <3>2
  <2>4. ASSUME NEW c \in Loads, Answer(c) PROVE Single' /\ Right'
    <3>1. /\ UNCHANGED <<blurred, opened>>
          /\ at' = [at EXCEPT ![c] = "idle"] /\ of' = [of EXCEPT ![c] = Nil]
      BY <2>4 DEF Answer, EndLoad
    <3>2. \A d \in Loads : at'[d] # "idle" => at[d] # "idle" /\ of'[d] = of[d]
      BY <1>2, <3>1
    <3> QED  BY <1>3, <3>1, <3>2
  <2>5. ASSUME NEW c \in Loads, FetchFails(c) PROVE Single' /\ Right'
    BY <2>5 DEF FetchFails
  <2>6. (\E m \in Messages : \/ SendMessage(m) \/ Posted(m)
                             \/ Stamp(m) \/ Insert(m) \/ Tell(m) \/ SendFails(m))
        => UNCHANGED <<blurred, at, of, opened>>
    BY DEF SendMessage, Posted, Stamp, Insert, Tell, SendFails, page, loads, chatHistory
  <2>7. (\E m \in Messages, v \in Convs : OtherSends(m, v))
          => UNCHANGED <<blurred, at, of, opened>>
    BY DEF OtherSends, page, loads, chatHistory
  <2>8. Connect \/ Cut \/ Serve \/ Receive \/ (\E v \in Convs : Joined(v))
        => UNCHANGED <<blurred, at, of, opened>>
    BY DEF Connect, Cut, Serve, Receive, Joined, page, loads, chatHistory
  <2> HIDE DEF Single, Right
  <2> QED  BY <2>1, <2>2, <2>3, <2>4, <2>5, <2>6, <2>7, <2>8 DEF ChatNext
<1>5. Moves'
  <2> SUFFICES ASSUME NEW m \in Messages, byRest'[m], InProgress(m)'
               PROVE  conv'[m] = opened' \/ m \in moved'
    OBVIOUS
  <2>1. moved \subseteq moved'
    BY RecordGrows
  <2>2. CASE opened' = opened /\ conv'[m] = opened
    BY <2>2
  <2>3. CASE byRest[m] /\ InProgress(m) /\ conv'[m] = conv[m]
    <3>1. conv[m] = opened \/ m \in moved
      BY <1>3, <2>3
    <3>2. CASE opened' = opened
      BY <2>1, <2>3, <3>1, <3>2
    <3>3. ASSUME NEW c \in Loads, NEW v \in Convs, Open(c, v) PROVE m \in moved'
      <4>1. mine[m]
        BY <2>3 DEF MsgInv, MessageRows
      <4> QED  BY <2>3, <3>3, <4>1 DEF Open
    <3>4. (\E c \in Loads : Select(c) \/ Mark(c) \/ Answer(c) \/ FetchFails(c))
            => opened' = opened
      BY DEF Select, Mark, Answer, FetchFails, page
    <3>5. (\E n \in Messages : \/ SendMessage(n) \/ Posted(n)
                               \/ Stamp(n) \/ Insert(n) \/ Tell(n) \/ SendFails(n))
          => opened' = opened
      BY DEF SendMessage, Posted, Stamp, Insert, Tell, SendFails, page
    <3>6. (\E n \in Messages, v \in Convs : OtherSends(n, v)) => opened' = opened
      BY DEF OtherSends, page
    <3>7. Connect \/ Cut \/ Serve \/ Receive \/ (\E v \in Convs : Joined(v)) => opened' = opened
      BY DEF Connect, Cut, Serve, Receive, Joined, page
    <3> QED  BY <3>2, <3>3, <3>4, <3>5, <3>6, <3>7 DEF ChatNext
  <2> QED  BY <2>2, <2>3, PostsStay
<1> QED  BY <1>4, <1>5 DEF OneLoad

LEMMA BelongsStep == ASSUME MsgInv, ChatNext PROVE ShownBelongs'
<1>1. ChatTypeOK /\ HeldByPage /\ OneLoad /\ ShownBelongs /\ MessageRows
  BY DEF MsgInv
<1>2. /\ at \in [Loads -> {"idle", "select", "mark", "answer"}] /\ shown \in Seq(Messages)
      /\ of \in [Loads -> Convs \cup {Nil}] /\ saved \subseteq Messages /\ blurred \in BOOLEAN
  BY <1>1 DEF ChatTypeOK
<1>3. moved \subseteq moved' /\ \A m \in saved : conv'[m] = conv[m]
  BY RecordGrows, RowsStay
<1>4. Elements(shown) \subseteq saved
  BY <1>1 DEF HeldByPage, Elements
<1>5. ASSUME UNCHANGED <<shown, opened, blurred>>, Loading' = Loading PROVE ShownBelongs'
  BY <1>1, <1>3, <1>4, <1>5 DEF ShownBelongs
<1>6. ASSUME NEW c \in Loads, NEW v \in Convs, Open(c, v) PROVE ShownBelongs'
  <2>1. at'[c] = "select"
    BY <1>2, <1>6 DEF Open
  <2> QED  BY <2>1 DEF ShownBelongs, Loading
<1>7. ASSUME NEW c \in Loads, Select(c) \/ Mark(c) PROVE ShownBelongs'
  <2>1. at'[c] = "mark" \/ at'[c] = "answer"
    BY <1>2, <1>7 DEF Select, Mark
  <2> QED  BY <2>1 DEF ShownBelongs, Loading
<1>8. ASSUME NEW c \in Loads, Answer(c) PROVE ShownBelongs'
  <2>1. shown' = got[c] /\ UNCHANGED <<opened, blurred>> /\ at[c] = "answer"
    BY <1>8 DEF Answer
  <2>2. ASSUME ~blurred PROVE of[c] = opened
    BY <1>1, <2>1, <2>2 DEF OneLoad
  <2>3. \A m \in Elements(shown') : m \in saved /\ conv[m] = of[c]
    BY <1>1, <2>1 DEF HeldByPage, Elements
  <2> QED  BY <1>3, <2>1, <2>2, <2>3 DEF ShownBelongs
<1>9. ASSUME NEW c \in Loads, FetchFails(c) PROVE ShownBelongs'
  BY <1>9 DEF FetchFails, ShownBelongs
<1>10. ASSUME NEW m \in Messages, Posted(m) PROVE ShownBelongs'
  <2>1. shown' = Append(shown, m) /\ UNCHANGED <<opened, blurred, at>> /\ step[m] = "answer"
    BY <1>10 DEF Posted, ShowAlso, loads
  <2>2. conv[m] = opened \/ m \in moved
    BY <1>1, <2>1 DEF OneLoad, MessageRows, InProgress
  <2>3. m \in saved
    BY <1>1, <2>1 DEF MessageRows, Kept
  <2>4. Elements(Append(shown, m)) = Elements(shown) \cup {m}
    BY <1>2, ElementsOf
  <2>5. Loading' = Loading
    BY <2>1 DEF Loading
  <2> QED  BY <1>1, <1>3, <1>4, <2>1, <2>2, <2>3, <2>4, <2>5 DEF ShownBelongs
<1>11. CASE Receive
  <2>1. PICK h \in saved : h = Head(in)
    BY <1>11, Received
  <2>2. UNCHANGED <<opened, blurred, at>>
    BY <1>11 DEF Receive, loads
  <2>3. shown' = shown \/ (conv[h] = opened /\ shown' = Append(shown, h))
    BY <1>11, <2>1 DEF Receive, ShowAlso
  <2>4. Loading' = Loading
    BY <2>2 DEF Loading
  <2>5. Elements(Append(shown, h)) = Elements(shown) \cup {h}
    BY <1>2, ElementsOf
  <2> QED  BY <1>1, <1>3, <1>4, <2>2, <2>3, <2>4, <2>5 DEF ShownBelongs
<1>12. (\E m \in Messages : SendMessage(m) \/ Stamp(m) \/ Insert(m) \/ Tell(m) \/ SendFails(m))
       => UNCHANGED <<shown, opened, blurred, at>>
  BY DEF SendMessage, Stamp, Insert, Tell, SendFails, page, loads, chatHistory
<1>13. (\E m \in Messages, v \in Convs : OtherSends(m, v))
         => UNCHANGED <<shown, opened, blurred, at>>
  BY DEF OtherSends, page, loads, chatHistory
<1>14. Connect \/ Cut \/ Serve \/ (\E v \in Convs : Joined(v))
       => UNCHANGED <<shown, opened, blurred, at>>
  BY DEF Connect, Cut, Serve, Joined, page, loads, chatHistory
<1>15. at' = at => Loading' = Loading
  BY DEF Loading
<1> QED
  BY <1>5, <1>6, <1>7, <1>8, <1>9, <1>10, <1>11, <1>12, <1>13, <1>14, <1>15 DEF ChatNext

-----------------------------------------------------------------------------
(* The room                                                                *)

LEMMA InRoomStep == ASSUME MsgInv, ChatNext PROVE InRoom'
<1>1. ChatTypeOK /\ InRoom /\ Down
  BY DEF MsgInv, Carried
<1>2. /\ out \in Seq(Events) /\ joining \in [Convs -> 0..MaxOpens]
      /\ opened \in Convs \cup {Nil}
      /\ connected \in BOOLEAN /\ cut \in BOOLEAN
  BY <1>1 DEF ChatTypeOK
<1>3. ASSUME UNCHANGED <<out, joining, opened, connected, cut, rooms>> PROVE InRoom'
  BY <1>1, <1>3 DEF InRoom, JoinPending
<1>4. ASSUME NEW c \in Loads, NEW v \in Convs, Open(c, v) PROVE InRoom'
  <2>1. PICK o \in Seq(Events) :
           /\ o = out \/ (opened \in Convs /\ o = Append(out, Part(opened)))
           /\ out' = Append(o, Join(v)) /\ Join(v) \in Events
    BY <1>1, <1>4, OutAfterOpen
  <2>2. /\ DOMAIN o = 1..Len(o) /\ Len(o) \in Nat /\ DOMAIN out' = 1..Len(o) + 1
        /\ out'[Len(o) + 1] = Join(v) /\ \A k \in DOMAIN o : out'[k] = o[k]
    BY <2>1, LastAdded
  <2>3. opened' = v
    BY <1>4 DEF Open
  <2>4. Join(v) \in Elements(out')
    BY <2>2 DEF Elements
  <2>5. \A i \in DOMAIN out' : out'[i] = Part(v) => i < Len(o) + 1
    BY <2>2, EventsDiffer
  <2> QED  BY <2>2, <2>3, <2>4, <2>5 DEF InRoom, JoinPending
<1>5. ASSUME NEW m \in Messages, SendMessage(m) PROVE InRoom'
  <2>1. UNCHANGED <<joining, opened, connected, cut, rooms>>
    BY <1>5 DEF SendMessage, server, page, chatHistory
  <2>2. CASE out' = out
    BY <1>3, <2>1, <2>2
  <2>3. CASE out' = Append(out, Send(m))
    <3>1. Send(m) \in Events
      BY DEF Events
    <3>2. /\ DOMAIN out = 1..Len(out) /\ Len(out) \in Nat /\ DOMAIN out' = 1..Len(out) + 1
          /\ out'[Len(out) + 1] = Send(m) /\ \A k \in DOMAIN out : out'[k] = out[k]
      BY <1>2, <2>3, <3>1, LastAdded
    <3>3. Elements(out') = Elements(out) \cup {Send(m)}
      BY <1>2, <2>3, <3>1, ElementsOf
    <3>4. Part(opened) # Send(m)
      BY EventsDiffer
    <3>5. JoinPending(opened) => JoinPending(opened)'
      BY <2>1, <3>3 DEF JoinPending
    <3>6. ASSUME opened # Nil, NEW i \in DOMAIN out', out'[i] = Part(opened)
          PROVE  \E j \in DOMAIN out' : i < j /\ out'[j] = Join(opened)
      <4>1. i \in DOMAIN out /\ out[i] = Part(opened)
        BY <3>2, <3>4, <3>6
      <4> QED  BY <1>1, <3>2, <3>6, <4>1 DEF InRoom
    <3> QED  BY <1>1, <2>1, <3>5, <3>6 DEF InRoom
  <2> QED  BY <1>5, <2>2, <2>3 DEF SendMessage
<1>6. ASSUME Connect PROVE InRoom'
  <2>1. UNCHANGED <<out, joining, opened, cut, rooms>> /\ connected' = TRUE
    BY <1>6 DEF Connect, server, page, chatHistory
  <2> QED  BY <1>1, <2>1 DEF InRoom, JoinPending
<1>7. ASSUME Cut PROVE InRoom'
  BY <1>7, NoElements DEF Cut, InRoom
<1>8. ASSUME Serve PROVE InRoom'
  <2>1. out # <<>> /\ out' = Tail(out) /\ UNCHANGED <<opened, connected, cut>> /\ connected
    BY <1>8 DEF Serve, page, chatHistory
  <2>2. /\ Head(out) = out[1] /\ 1 \in DOMAIN out
        /\ \A i \in DOMAIN out' : i + 1 \in DOMAIN out /\ out'[i] = out[i + 1]
             /\ i \in Nat \ {0}
        /\ \A i \in DOMAIN out : i # 1 => i - 1 \in DOMAIN out' /\ out[i] = out'[i - 1]
        /\ DOMAIN out \subseteq Int
    <3>1. /\ Head(out) = out[1] /\ 1 \in DOMAIN out
          /\ \A i \in DOMAIN Tail(out) : i + 1 \in DOMAIN out /\ Tail(out)[i] = out[i + 1]
          /\ \A i \in DOMAIN out : i # 1
               => i - 1 \in DOMAIN Tail(out) /\ out[i] = Tail(out)[i - 1]
          /\ DOMAIN out = 1..Len(out) /\ DOMAIN Tail(out) = 1..Len(out) - 1
      BY <1>2, <2>1, HeadGone
    <3>2. Len(out) \in Nat
      BY <1>2
    <3> QED  BY <2>1, <3>1, <3>2
  <2>3. Elements(out) = Elements(out') \cup {Head(out)}
    BY <1>2, <2>1, ElementsOf
  <2>4. ASSUME opened # Nil, NEW i \in DOMAIN out', out'[i] = Part(opened)
        PROVE  \E j \in DOMAIN out' : i < j /\ out'[j] = Join(opened)
    <3>1. i + 1 \in DOMAIN out /\ out[i + 1] = Part(opened) /\ i \in Nat \ {0}
      BY <2>2, <2>4
    <3>2. PICK j \in DOMAIN out : i + 1 < j /\ out[j] = Join(opened)
      BY <1>1, <2>4, <3>1 DEF InRoom
    <3>3. j \in Int /\ j # 1
      BY <2>2, <2>4, <3>1, <3>2
    <3>4. j - 1 \in DOMAIN out' /\ out'[j - 1] = Join(opened) /\ i < j - 1
      BY <2>2, <3>1, <3>2, <3>3
    <3> QED  BY <3>4
  <2>5. ASSUME opened # Nil, ~cut PROVE (connected /\ opened \in rooms') \/ JoinPending(opened)'
    <3>1. opened \in Convs /\ ((connected /\ opened \in rooms) \/ JoinPending(opened))
      BY <1>1, <1>2, <2>5 DEF InRoom
    <3>2. ASSUME NEW v \in Convs, Head(out) = Join(v), joining' = [joining EXCEPT ![v] = @ + 1],
                 rooms' = rooms
          PROVE  (connected /\ opened \in rooms') \/ JoinPending(opened)'
      <4>1. CASE v = opened
        <5>1. joining'[opened] > 0
          BY <1>2, <3>1, <3>2, <4>1
        <5> QED  BY <2>1, <5>1 DEF JoinPending
      <4>2. CASE v # opened
        <5>1. joining'[opened] = joining[opened] /\ Join(v) # Join(opened)
          BY <1>2, <3>1, <3>2, <4>2, EventsDiffer
        <5> QED  BY <2>1, <2>3, <3>1, <3>2, <5>1 DEF JoinPending
      <4> QED  BY <4>1, <4>2
    <3>3. ASSUME NEW v \in Convs, Head(out) = Part(v), rooms' = rooms \ {v}, joining' = joining
          PROVE  (connected /\ opened \in rooms') \/ JoinPending(opened)'
      <4>1. CASE v = opened
        <5>1. PICK j \in DOMAIN out : 1 < j /\ out[j] = Join(opened)
          BY <1>1, <2>2, <2>5, <3>3, <4>1 DEF InRoom
        <5>2. j - 1 \in DOMAIN out' /\ out'[j - 1] = Join(opened)
          BY <2>2, <5>1
        <5>3. Join(opened) \in Elements(out')
          BY <5>2 DEF Elements
        <5> QED  BY <2>1, <5>3 DEF JoinPending
      <4>2. CASE v # opened
        <5>1. Part(v) # Join(opened)
          BY EventsDiffer
        <5> QED  BY <2>1, <2>3, <3>1, <3>3, <4>2, <5>1 DEF JoinPending
      <4> QED  BY <4>1, <4>2
    <3>4. ASSUME NEW m \in Messages, Head(out) = Send(m), rooms' = rooms, joining' = joining
          PROVE  (connected /\ opened \in rooms') \/ JoinPending(opened)'
      <4>1. Send(m) # Join(opened)
        BY EventsDiffer
      <4> QED  BY <2>1, <2>3, <3>1, <3>4, <4>1 DEF JoinPending
    <3> QED  BY <1>1, <1>8, <3>2, <3>3, <3>4, Served
  <2> QED  BY <2>1, <2>4, <2>5 DEF InRoom
<1>9. ASSUME NEW v \in Convs, Joined(v) PROVE InRoom'
  <2>1. /\ UNCHANGED <<out, opened, connected, cut>> /\ joining[v] > 0
        /\ joining' = [joining EXCEPT ![v] = @ - 1] /\ rooms' = rooms \cup {v}
    BY <1>9 DEF Joined, wire, page, chatHistory
  <2>2. connected
    BY <1>1, <1>2, <2>1 DEF Down
  <2>3. ASSUME opened # Nil, ~cut
        PROVE  (connected /\ opened \in rooms') \/ JoinPending(opened)'
    <3>1. opened \in Convs /\ (opened \in rooms \/ JoinPending(opened))
      BY <1>1, <1>2, <2>3 DEF InRoom
    <3>2. CASE v = opened
      BY <2>1, <2>2, <3>2
    <3>3. CASE v # opened
      <4>1. joining'[opened] = joining[opened]
        BY <1>2, <2>1, <3>1, <3>3
      <4> QED  BY <2>1, <2>2, <3>1, <4>1 DEF JoinPending
    <3> QED  BY <3>2, <3>3
  <2> QED  BY <1>1, <2>1, <2>3 DEF InRoom
<1>10. (\E c \in Loads : Select(c) \/ Mark(c) \/ Answer(c) \/ FetchFails(c))
       => UNCHANGED <<out, joining, opened, connected, cut, rooms>>
  BY DEF Select, Mark, Answer, FetchFails, server, wire, page, chatHistory
<1>11. (\E m \in Messages : Posted(m) \/ Stamp(m) \/ Insert(m) \/ Tell(m) \/ SendFails(m))
       => UNCHANGED <<out, joining, opened, connected, cut, rooms>>
  BY DEF Posted, Stamp, Insert, Tell, SendFails, server, wire, page
<1>12. (\E m \in Messages, v \in Convs : OtherSends(m, v)) \/ Receive
       => UNCHANGED <<out, joining, opened, connected, cut, rooms>>
  BY DEF OtherSends, Receive, server, wire, page, chatHistory
<1> QED
  BY <1>3, <1>4, <1>5, <1>6, <1>7, <1>8, <1>9, <1>10, <1>11, <1>12 DEF ChatNext

-----------------------------------------------------------------------------
(* What the page is not told of                                            *)

\* Only its INSERT stores a message.
LEMMA StoredBy ==
    ASSUME ChatNext, NEW m, m \in saved', m \notin saved
    PROVE  m \in Messages /\ Insert(m)
<1> USE DEF messageRows
<1>1. ASSUME NEW n \in Messages, Insert(n) PROVE m = n
  BY <1>1 DEF Insert
<1>2. (\E c \in Loads, v \in Convs : Open(c, v)) => saved' = saved
  BY DEF Open
<1>3. (\E c \in Loads : Select(c) \/ Mark(c) \/ Answer(c) \/ FetchFails(c)) => saved' = saved
  BY DEF Select, Mark, Answer, FetchFails
<1>4. (\E n \in Messages : SendMessage(n) \/ Posted(n) \/ Stamp(n) \/ Tell(n) \/ SendFails(n))
      => saved' = saved
  BY DEF SendMessage, Posted, Stamp, Tell, SendFails
<1>5. (\E n \in Messages, v \in Convs : OtherSends(n, v)) => saved' = saved
  BY DEF OtherSends
<1>6. Connect \/ Cut \/ Serve \/ Receive \/ (\E v \in Convs : Joined(v)) => saved' = saved
  BY DEF Connect, Cut, Serve, Receive, Joined
<1> QED  BY <1>1, <1>2, <1>3, <1>4, <1>5, <1>6 DEF ChatNext

\* A message that is stored and not on its way was so before, or has arrived, or has just been
\* told of, or is one the page may miss.
LEMMA Ends ==
    ASSUME MsgInv, ChatNext, NEW m \in Messages, m \in saved', ~UnderWay(m)'
    PROVE  \/ m \in saved /\ ~UnderWay(m)
           \/ Posted(m) \/ (Receive /\ Head(in) = m) \/ Tell(m) \/ m \in excused'
<1> DEFINE Before == m \in saved /\ ~UnderWay(m)
<1>1. ChatTypeOK /\ MessageRows
  BY DEF MsgInv
<1>2. /\ step \in [Messages -> {"unsent", "emitted", "asked", "stamped", "inserted", "answer",
                                "done", "lost"}]
      /\ in \in Seq(Messages)
  BY <1>1 DEF ChatTypeOK
<1>3. ~(step'[m] \in {"asked", "stamped", "inserted", "answer"}) /\ m \notin Elements(in')
  BY DEF UnderWay, InProgress
<1>4. m \in saved
  <2>1. ASSUME m \notin saved PROVE FALSE
    <3>1. Insert(m)
      BY <2>1, StoredBy
    <3> QED  BY <1>2, <1>3, <3>1 DEF Insert
  <2> QED  BY <2>1
<1>5. step[m] \in {"inserted", "answer", "done"}
  BY <1>1, <1>4 DEF MessageRows, Kept
<1>6. ASSUME step'[m] = step[m], in' = in PROVE Before
  BY <1>3, <1>4, <1>6 DEF UnderWay, InProgress
<1>7. ASSUME NEW n \in Messages, SendMessage(n) PROVE step'[m] = step[m] /\ in' = in
  BY <1>2, <1>5, <1>7 DEF SendMessage, Begin
<1>8. ASSUME NEW n \in Messages, NEW v \in Convs, OtherSends(n, v)
      PROVE  step'[m] = step[m] /\ in' = in
  BY <1>2, <1>5, <1>8 DEF OtherSends, Begin, wire
<1>9. ASSUME NEW n \in Messages, Posted(n)
      PROVE  Posted(m) \/ (step'[m] = step[m] /\ in' = in)
  BY <1>2, <1>9 DEF Posted, wire
<1>10. ASSUME NEW n \in Messages, Stamp(n) PROVE step'[m] = step[m] /\ in' = in
  BY <1>2, <1>5, <1>10 DEF Stamp, wire
<1>11. ASSUME NEW n \in Messages, Insert(n) PROVE step'[m] = step[m] /\ in' = in
  BY <1>2, <1>5, <1>11 DEF Insert, wire
<1>12. ASSUME NEW n \in Messages, Tell(n) PROVE Tell(m) \/ Before
  <2>1. ASSUME n # m PROVE Before
    <3>1. step'[m] = step[m] /\ (in' = in \/ in' = Append(in, n))
      BY <1>2, <1>12, <2>1 DEF Tell
    <3>2. Elements(Append(in, n)) = Elements(in) \cup {n}
      BY <1>2, ElementsOf
    <3>3. m \notin Elements(in)
      BY <1>3, <3>1, <3>2
    <3> QED  BY <1>3, <1>4, <3>1, <3>3 DEF UnderWay, InProgress
  <2> QED  BY <1>12, <2>1
<1>13. ASSUME NEW n \in Messages, SendFails(n)
       PROVE  m \in excused' \/ (step'[m] = step[m] /\ in' = in)
  <2>1. CASE n = m
    BY <1>4, <1>13, <2>1 DEF SendFails
  <2>2. CASE n # m
    BY <1>2, <1>13, <2>2 DEF SendFails, wire
  <2> QED  BY <2>1, <2>2
<1>14. ASSUME Cut PROVE m \in excused' \/ Before
  <2>1. /\ step' = [n \in Messages |-> IF step[n] = "emitted" THEN "lost" ELSE step[n]]
        /\ excused' = excused \cup Elements(in)
    BY <1>14 DEF Cut
  <2>2. step'[m] = step[m]
    BY <1>5, <2>1
  <2> QED  BY <1>3, <1>4, <2>1, <2>2 DEF UnderWay, InProgress
<1>15. ASSUME Serve PROVE step'[m] = step[m] /\ in' = in
  <2>1. out # <<>> /\ out \in Seq(Events) /\ in' = in
    BY <1>1, <1>15 DEF Serve, ChatTypeOK
  <2>2. ASSUME NEW n \in Messages, Head(out) = Send(n), step' = [step EXCEPT ![n] = "asked"]
        PROVE  step'[m] = step[m]
    <3>1. out[1] = Send(n) /\ 1 \in DOMAIN out
      BY <2>1, <2>2, HeadGone
    <3>2. step[n] = "emitted"
      BY <3>1 DEF MsgInv, Carried, Outward
    <3> QED  BY <1>2, <1>5, <2>2, <3>2
  <2> QED  BY <1>1, <1>15, <2>1, <2>2, Served
<1>16. ASSUME Receive PROVE Head(in) = m \/ Before
  <2>1. PICK h \in saved : /\ h = Head(in)
                           /\ \A n \in Messages : n # h => UnderWay(n)' = UnderWay(n)
    BY <1>16, Received
  <2> QED  BY <1>4, <2>1
<1>17. (\E c \in Loads, v \in Convs : Open(c, v)) => step' = step /\ in' = in
  BY DEF Open, messageRows
<1>18. (\E c \in Loads : Select(c) \/ Mark(c) \/ Answer(c) \/ FetchFails(c))
       => step' = step /\ in' = in
  BY DEF Select, Mark, Answer, FetchFails, messageRows, wire
<1>19. Connect \/ (\E v \in Convs : Joined(v)) => step' = step /\ in' = in
  BY DEF Connect, Joined, messageRows, wire
<1> HIDE DEF Before
<1>20. Before \/ Posted(m) \/ (Receive /\ Head(in) = m) \/ Tell(m) \/ m \in excused'
  BY <1>6, <1>7, <1>8, <1>9, <1>10, <1>11, <1>12, <1>13, <1>14, <1>15, <1>16, <1>17, <1>18,
     <1>19 DEF ChatNext
<1> QED  BY <1>20 DEF Before

\* What a message that has just been told of lacks when it is not on its way: the page may miss
\* it, as it is in the room of the open conversation or joins it.
LEMMA ToldOf ==
    ASSUME MsgInv, NEW m \in Messages, Tell(m), ~UnderWay(m)', opened # Nil, conv[m] = opened
    PROVE  m \in excused'
<1>1. ChatTypeOK /\ InRoom
  BY DEF MsgInv
<1>2. step \in [Messages -> {"unsent", "emitted", "asked", "stamped", "inserted", "answer",
                             "done", "lost"}]
      /\ in \in Seq(Messages)
  BY <1>1 DEF ChatTypeOK
<1>3. PICK broadcast \in Broadcasts(m) :
         \/ broadcast /\ connected /\ conv[m] \in rooms /\ in' = Append(in, m)
         \/ /\ ~(broadcast /\ connected /\ conv[m] \in rooms)
            /\ (~broadcast \/ cut \/ JoinPending(opened)) => excused' = excused \cup {m}
  BY Zenon DEF Tell
<1>4. CASE in' = Append(in, m)
  <2>1. Elements(Append(in, m)) = Elements(in) \cup {m}
    BY <1>2, ElementsOf
  <2> QED  BY <1>4, <2>1 DEF UnderWay
<1>5. CASE in' # Append(in, m)
  <2>1. ~cut => (connected /\ opened \in rooms) \/ JoinPending(opened)
    BY <1>1 DEF InRoom
  <2>2. ~broadcast \/ cut \/ JoinPending(opened)
    BY Zenon, <1>3, <1>5, <2>1
  <2>3. excused' = excused \cup {m}
    BY Zenon, <1>3, <1>5, <2>2
  <2> QED  BY <2>3
<1> QED  BY <1>4, <1>5

LEMMA CompleteStep == ASSUME MessagingAssumption, MsgInv, ChatNext PROVE Complete'
<1>1. ChatTypeOK /\ ChatTypeOK' /\ Complete /\ HeldByPage /\ OneLoad
  BY MsgTypedStep DEF MsgInv
<1>2. /\ at \in [Loads -> {"idle", "select", "mark", "answer"}] /\ shown \in Seq(Messages)
      /\ of \in [Loads -> Convs \cup {Nil}] /\ got \in [Loads -> Seq(Messages)]
      /\ saved' \subseteq Messages /\ blurred \in BOOLEAN
  BY <1>1 DEF ChatTypeOK
<1>3. excused \subseteq excused'
  BY RecordGrows
<1> SUFFICES ASSUME opened' # Nil, ~blurred', NEW m \in saved', conv'[m] = opened',
                    ~UnderWay(m)', m \notin excused'
             PROVE  Brought(m)'
  BY DEF Complete
<1>4. m \in Messages
  BY <1>2
<1> DEFINE Before == m \in saved /\ ~UnderWay(m)
\* A step that leaves the page as it is.
<1>5. ASSUME UNCHANGED <<shown, opened, blurred, at, got>>, Before PROVE Brought(m)'
  <2>1. Brought(m)
    BY <1>1, <1>3, <1>5, RowsStay DEF Complete
  <2> QED  BY <1>5, <2>1 DEF Brought, Loading
<1>6. ASSUME NEW c \in Loads, NEW v \in Convs, Open(c, v) PROVE Brought(m)'
  <2>1. /\ at' = [at EXCEPT ![c] = "select"] /\ UNCHANGED got
        /\ \A d \in Loads : at[d] = "idle"
    BY <1>6 DEF Open
  <2>2. at'[c] = "select" /\ \A d \in Loads : at'[d] \notin {"mark", "answer"}
    BY <1>2, <2>1
  <2> QED  BY <2>2 DEF Brought, Loading
<1>7. ASSUME NEW c \in Loads, Select(c) PROVE Brought(m)'
  <2>1. PICK s \in Pages(of[c]) : /\ got' = [got EXCEPT ![c] = s]
                                  /\ excused' = excused \cup (Of(of[c]) \ Elements(s))
    BY <1>7 DEF Select
  <2>2. /\ at[c] = "select" /\ at' = [at EXCEPT ![c] = "mark"]
        /\ UNCHANGED <<saved, conv, opened, blurred>>
    BY <1>7 DEF Select, messageRows, page
  <2>3. of[c] = opened /\ \A d \in Loads : at[d] # "idle" => d = c
    BY <1>1, <2>2 DEF OneLoad
  <2>4. m \in Of(of[c])
    BY <2>2, <2>3 DEF Of
  <2>5. m \in Elements(s)
    BY <2>1, <2>4
  <2>6. /\ at'[c] = "mark" /\ got'[c] = s
        /\ \A d \in Loads : at'[d] \in {"mark", "answer"} => d = c
    BY <1>2, <2>1, <2>2, <2>3
  <2> QED  BY <2>5, <2>6 DEF Brought, Loading
<1>8. ASSUME NEW c \in Loads, Mark(c), Before PROVE Brought(m)'
  <2>1. /\ at[c] = "mark" /\ at' = [at EXCEPT ![c] = "answer"]
        /\ UNCHANGED <<saved, conv, opened, blurred, got, shown>>
    BY <1>8 DEF Mark, messageRows, page, chatHistory
  <2>2. Brought(m)
    BY <1>1, <1>3, <1>8, <2>1 DEF Complete
  <2>3. /\ at'[c] = "answer"
        /\ \A d \in Loads : at'[d] \in {"mark", "answer"} => at[d] \in {"mark", "answer"}
    BY <1>2, <2>1
  <2> QED  BY <2>1, <2>2, <2>3 DEF Brought, Loading
<1>9. ASSUME NEW c \in Loads, Answer(c), Before PROVE Brought(m)'
  <2>1. /\ at[c] = "answer" /\ at' = [at EXCEPT ![c] = "idle"] /\ shown' = got[c]
        /\ UNCHANGED <<saved, conv, opened, blurred>>
    BY <1>9 DEF Answer, EndLoad, messageRows
  <2>2. Brought(m)
    BY <1>1, <1>3, <1>9, <2>1 DEF Complete
  <2>3. m \in Elements(shown')
    BY <2>1, <2>2 DEF Brought
  <2>4. \A d \in Loads : at'[d] = "idle"
    <3>1. \A d \in Loads : at[d] # "idle" => d = c
      BY <1>1, <2>1 DEF OneLoad
    <3> QED  BY <1>2, <2>1, <3>1
  <2> QED  BY <2>3, <2>4 DEF Brought
<1>10. ASSUME NEW c \in Loads, FetchFails(c) PROVE Brought(m)'
  BY <1>10 DEF FetchFails
\* What is shown besides: it was brought before, or is what comes.
<1>11. ASSUME NEW h \in Messages, ShowAlso(h), UNCHANGED <<opened, blurred, at, got>>,
              Before \/ m = h
       PROVE  Brought(m)'
  <2>1. /\ shown' = Append(shown, h)
        /\ excused' = IF Overwritten(h) THEN excused \cup {h} ELSE excused
    BY <1>11 DEF ShowAlso
  <2>2. Elements(Append(shown, h)) = Elements(shown) \cup {h}
    BY <1>2, ElementsOf
  <2>3. CASE m = h
    <3>1. ~Overwritten(h)
      BY <2>1, <2>3
    <3>2. \A c \in Loads : at[c] \in {"mark", "answer"} => m \in Elements(got[c])
      BY <2>3, <3>1 DEF Overwritten
    <3> QED  BY <1>11, <2>1, <2>2, <2>3, <3>2 DEF Brought
  <2>4. CASE Before
    <3>1. Brought(m)
      BY <1>1, <1>3, <1>11, <2>4, RowsStay DEF Complete
    <3> QED  BY <1>11, <2>1, <2>2, <3>1 DEF Brought, Loading
  <2> QED  BY <1>11, <2>3, <2>4
<1>12. ASSUME NEW n \in Messages, Posted(n), Before \/ m = n PROVE Brought(m)'
  <2>1. ShowAlso(n) /\ UNCHANGED <<opened, blurred, at, got>>
    BY <1>12 DEF Posted, loads
  <2> QED  BY <1>11, <1>12, <2>1
<1>13. ASSUME Receive, Before \/ m = Head(in) PROVE Brought(m)'
  <2>1. PICK h \in saved : h = Head(in)
    BY <1>13, Received
  <2>2. UNCHANGED <<conv, opened, blurred, at, got, saved>> /\ h \in Messages
    BY <1>1, <1>13, <2>1 DEF Receive, loads, messageRows, ChatTypeOK
  <2>3. CASE conv[h] = opened
    <3>1. ShowAlso(h)
      BY <1>13, <2>1, <2>3 DEF Receive
    <3> QED  BY <1>11, <1>13, <2>1, <2>2, <3>1
  <2>4. CASE conv[h] # opened
    <3>1. UNCHANGED shown /\ m # h
      BY <1>13, <2>1, <2>2, <2>4 DEF Receive
    <3> QED  BY <1>5, <1>13, <2>1, <2>2, <3>1
  <2> QED  BY <2>3, <2>4
<1>14. ~Tell(m)
  <2>1. ASSUME Tell(m) PROVE FALSE
    <3>1. opened' = opened /\ conv' = conv
      BY <2>1 DEF Tell, page
    <3> QED  BY <1>4, <2>1, <3>1, ToldOf
  <2> QED  BY <2>1
<1> HIDE DEF Before
<1>15. Before \/ Posted(m) \/ (Receive /\ m = Head(in))
  BY <1>4, <1>14, Ends DEF Before
<1>16. CASE Posted(m)
  BY <1>4, <1>12, <1>16
<1>17. CASE Receive /\ m = Head(in)
  BY <1>13, <1>17
<1>18. CASE Before
  <2>1. (\E n \in Messages : SendMessage(n) \/ Stamp(n) \/ Insert(n) \/ Tell(n) \/ SendFails(n))
        => UNCHANGED <<shown, opened, blurred, at, got>>
    BY DEF SendMessage, Stamp, Insert, Tell, SendFails, page, loads, chatHistory
  <2>2. (\E n \in Messages, v \in Convs : OtherSends(n, v))
        => UNCHANGED <<shown, opened, blurred, at, got>>
    BY DEF OtherSends, page, loads, chatHistory
  <2>3. Connect \/ Cut \/ Serve \/ (\E v \in Convs : Joined(v))
        => UNCHANGED <<shown, opened, blurred, at, got>>
    BY DEF Connect, Cut, Serve, Joined, page, loads, chatHistory
  <2> QED
    BY <1>5, <1>6, <1>7, <1>8, <1>9, <1>10, <1>12, <1>13, <1>18, <2>1, <2>2, <2>3 DEF ChatNext
<1> QED  BY <1>15, <1>16, <1>17, <1>18

-----------------------------------------------------------------------------
(* What counts as read                                                     *)

\* A load that is to mark has just read, or was to mark before.
LEMMA MarkStays ==
    ASSUME ChatTypeOK, ChatNext, NEW c \in Loads, at'[c] = "mark"
    PROVE  Select(c) \/ (at[c] = "mark" /\ got'[c] = got[c] /\ of'[c] = of[c])
<1> DEFINE Stays == at[c] = "mark" /\ got'[c] = got[c] /\ of'[c] = of[c]
<1>1. /\ at \in [Loads -> {"idle", "select", "mark", "answer"}]
      /\ of \in [Loads -> Convs \cup {Nil}] /\ got \in [Loads -> Seq(Messages)]
  BY DEF ChatTypeOK
<1>2. ASSUME UNCHANGED loads PROVE Stays
  BY <1>2 DEF loads
<1>3. ASSUME NEW d \in Loads, NEW v \in Convs, Open(d, v) PROVE Stays
  BY <1>1, <1>3 DEF Open
<1>4. ASSUME NEW d \in Loads, Select(d) PROVE Select(c) \/ Stays
  <2>1. PICK s \in Pages(of[d]) : got' = [got EXCEPT ![d] = s]
    BY <1>4 DEF Select
  <2>2. at' = [at EXCEPT ![d] = "mark"] /\ of' = of
    BY <1>4 DEF Select
  <2>3. d # c => Stays
    BY <1>1, <2>1, <2>2
  <2> HIDE DEF Stays
  <2> QED  BY <1>4, <2>3
<1>5. ASSUME NEW d \in Loads, Mark(d) PROVE Stays
  BY <1>1, <1>5 DEF Mark
<1>6. ASSUME NEW d \in Loads, Answer(d) PROVE Stays
  BY <1>1, <1>6 DEF Answer, EndLoad
<1>7. ASSUME NEW d \in Loads, FetchFails(d) PROVE Stays
  BY <1>1, <1>7 DEF FetchFails, EndLoad
<1>8. (\E n \in Messages : \/ SendMessage(n) \/ Posted(n)
                           \/ Stamp(n) \/ Insert(n) \/ Tell(n) \/ SendFails(n))
      => UNCHANGED loads
  BY DEF SendMessage, Posted, Stamp, Insert, Tell, SendFails, loads
<1>9. (\E n \in Messages, v \in Convs : OtherSends(n, v)) => UNCHANGED loads
  BY DEF OtherSends
<1>10. Connect \/ Cut \/ Serve \/ Receive \/ (\E v \in Convs : Joined(v)) => UNCHANGED loads
  BY DEF Connect, Cut, Serve, Receive, Joined
<1> HIDE DEF Stays
<1>11. Select(c) \/ Stays
  BY <1>2, <1>3, <1>4, <1>5, <1>6, <1>7, <1>8, <1>9, <1>10 DEF ChatNext
<1> QED  BY <1>11 DEF Stays

\* What a load holds that others sent is settled when the load ends.
LEMMA GotGoes ==
    ASSUME MsgInv, ChatNext, NEW c \in Loads, NEW m \in Elements(got[c]), m \in Messages, ~mine[m]
    PROVE  m \in Elements(got'[c]) \/ m \in settled'
<1>1. ChatTypeOK /\ HeldByPage
  BY DEF MsgInv
<1>2. /\ at \in [Loads -> {"idle", "select", "mark", "answer"}]
      /\ got \in [Loads -> Seq(Messages)]
  BY <1>1 DEF ChatTypeOK
<1>3. at[c] \notin {"idle", "select"}
  BY <1>1, NoElements DEF HeldByPage
<1>4. ASSUME NEW d \in Loads, NEW v \in Convs, Open(d, v) PROVE got' = got
  BY <1>4 DEF Open
<1>5. ASSUME NEW d \in Loads, Select(d) PROVE got'[c] = got[c]
  <2>1. PICK s \in Pages(of[d]) : got' = [got EXCEPT ![d] = s]
    BY <1>5 DEF Select
  <2>2. d # c
    BY <1>3, <1>5 DEF Select
  <2> QED  BY <1>2, <2>1, <2>2
<1>6. ASSUME NEW d \in Loads, Answer(d) \/ FetchFails(d)
      PROVE  got'[c] = got[c] \/ m \in settled'
  <2>1. got' = [got EXCEPT ![d] = <<>>] /\ settled' = settled \cup Foreign(Elements(got[d]))
    BY <1>6 DEF Answer, FetchFails, EndLoad
  <2> QED  BY <1>2, <2>1 DEF Foreign
<1>7. (\E d \in Loads : Mark(d)) => got' = got
  BY DEF Mark
<1>8. (\E n \in Messages : \/ SendMessage(n) \/ Posted(n)
                           \/ Stamp(n) \/ Insert(n) \/ Tell(n) \/ SendFails(n))
      => got' = got
  BY DEF SendMessage, Posted, Stamp, Insert, Tell, SendFails, loads
<1>9. (\E n \in Messages, v \in Convs : OtherSends(n, v)) => got' = got
  BY DEF OtherSends, loads
<1>10. Connect \/ Cut \/ Serve \/ Receive \/ (\E v \in Convs : Joined(v)) => got' = got
  BY DEF Connect, Cut, Serve, Receive, Joined, loads
<1> QED  BY <1>4, <1>5, <1>6, <1>7, <1>8, <1>9, <1>10 DEF ChatNext

\* Only the UPDATE of a load makes messages read.
LEMMA ReadBy ==
    ASSUME ChatNext, NEW m, m \in read', m \notin read
    PROVE  \E c \in Loads : Mark(c) /\ m \in Unread(of[c])
<1>1. ASSUME NEW c \in Loads, Mark(c) PROVE m \in Unread(of[c])
  BY <1>1 DEF Mark
<1>2. (\E c \in Loads, v \in Convs : Open(c, v)) => read' = read
  BY DEF Open
<1>3. (\E c \in Loads : Select(c) \/ Answer(c) \/ FetchFails(c)) => read' = read
  BY DEF Select, Answer, FetchFails
<1>4. (\E n \in Messages : \/ SendMessage(n) \/ Posted(n)
                           \/ Stamp(n) \/ Insert(n) \/ Tell(n) \/ SendFails(n))
      => read' = read
  BY DEF SendMessage, Posted, Stamp, Insert, Tell, SendFails
<1>5. (\E n \in Messages, v \in Convs : OtherSends(n, v)) => read' = read
  BY DEF OtherSends
<1>6. Connect \/ Cut \/ Serve \/ Receive \/ (\E v \in Convs : Joined(v)) => read' = read
  BY DEF Connect, Cut, Serve, Receive, Joined
<1> QED  BY <1>1, <1>2, <1>3, <1>4, <1>5, <1>6 DEF ChatNext

LEMMA SeenStep == ASSUME MsgInv, ChatNext PROVE Seen'
<1>1. ChatTypeOK /\ Seen /\ MessageRows
  BY DEF MsgInv
<1>2. /\ at \in [Loads -> {"idle", "select", "mark", "answer"}]
      /\ got \in [Loads -> Seq(Messages)] /\ of \in [Loads -> Convs \cup {Nil}]
      /\ saved \subseteq Messages
  BY <1>1 DEF ChatTypeOK
<1>3. settled \subseteq settled' /\ \A m \in saved : conv'[m] = conv[m] /\ mine'[m] = mine[m]
  BY RecordGrows, RowsStay
<1>4. ASSUME NEW c \in Loads, at'[c] = "mark",
             NEW m \in saved', conv'[m] = of'[c], ~mine'[m]
      PROVE  m \in settled' \cup Elements(got'[c])
  <2>1. CASE Select(c)
    <3>1. PICK s \in Pages(of[c]) : /\ got' = [got EXCEPT ![c] = s]
                                    /\ settled' = settled \cup Foreign(Of(of[c]) \ Elements(s))
      BY <2>1 DEF Select
    <3>2. UNCHANGED <<saved, conv, mine, of>>
      BY <2>1 DEF Select, messageRows
    <3>3. m \in Of(of[c]) /\ ~mine[m]
      BY <1>4, <3>2 DEF Of
    <3> QED  BY <1>2, <3>1, <3>3 DEF Foreign
  <2>2. CASE at[c] = "mark" /\ got'[c] = got[c] /\ of'[c] = of[c]
    <3>1. CASE m \in saved
      <4>1. m \in Unread(of[c])
        BY <1>3, <1>4, <2>2, <3>1 DEF Unread
      <4> QED  BY <1>1, <1>3, <2>2, <4>1 DEF Seen
    <3>2. CASE m \notin saved
      <4>1. Insert(m)
        BY <1>4, <3>2, StoredBy
      <4>2. conv[m] = of[c] /\ ~mine[m]
        BY <1>4, <2>2, <4>1 DEF Insert
      <4>3. settled' = settled \cup Foreign({m})
        BY <2>2, <4>1, <4>2 DEF Insert
      <4> QED  BY <4>2, <4>3 DEF Foreign
    <3> QED  BY <3>1, <3>2
  <2> QED  BY <1>1, <1>4, <2>1, <2>2, MarkStays
<1>5. ASSUME NEW m \in read'
      PROVE  m \in settled' \/ \E c \in Loads : m \in Elements(got'[c])
  <2>1. CASE m \in read
    <3>1. m \in Messages /\ ~mine[m]
      BY <1>1, <1>2, <2>1 DEF MessageRows, Foreign
    <3>2. m \in settled \/ \E c \in Loads : m \in Elements(got[c])
      BY <1>1, <2>1 DEF Seen, ReadWasShown
    <3> QED  BY <1>3, <3>1, <3>2, GotGoes
  <2>2. CASE m \notin read
    <3>1. PICK c \in Loads : Mark(c) /\ m \in Unread(of[c])
      BY <1>5, <2>2, ReadBy
    <3>2. at[c] = "mark" /\ UNCHANGED <<got, settled>>
      BY <3>1 DEF Mark, chatHistory
    <3>3. m \in settled \cup Elements(got[c])
      BY <1>1, <3>1, <3>2 DEF Seen
    <3> QED  BY <3>2, <3>3
  <2> QED  BY <2>1, <2>2
<1>6. \A c \in Loads : at'[c] = "mark"
        => \A m \in Unread(of[c])' : m \in settled' \cup Elements(got'[c])
  BY <1>4 DEF Unread
<1> QED  BY <1>5, <1>6 DEF Seen, ReadWasShown

-----------------------------------------------------------------------------
(* The theorems                                                            *)

LEMMA MsgStep == MessagingAssumption /\ MsgInv /\ [ChatNext]_chatVars => MsgInv'
<1> SUFFICES ASSUME MessagingAssumption, MsgInv, [ChatNext]_chatVars PROVE MsgInv'
  OBVIOUS
<1>1. CASE ChatNext
  <2>1. ChatTypeOK' /\ MessageRows' /\ Carried' /\ JoinsCounted' /\ HeldByPage'
    BY <1>1, MsgTypedStep, MessageRowsStep, CarriedStep, JoinsStep, HeldByPageStep
  <2>2. ShownOnce' /\ OnceMore' /\ ShownInOrder' /\ Younger'
    BY <1>1, OnceStep, InOrderStep, YoungerStep
  <2>3. ShownBelongs' /\ OneLoad' /\ InRoom' /\ Complete' /\ Seen'
    BY <1>1, BelongsStep, OneLoadStep, InRoomStep, CompleteStep, SeenStep
  <2> QED  BY <2>1, <2>2, <2>3 DEF MsgInv
<1>2. CASE UNCHANGED chatVars
  BY <1>2 DEF MsgInv, ChatTypeOK, MessageRows, Carried, Inward, Outward, Down, JoinsCounted,
     Places, HeldByPage, ShownOnce, OnceMore, ShownInOrder, Younger, ShownBelongs, OneLoad,
     InRoom, Complete, Brought, Seen, ReadWasShown, Unread, UnderWay, InProgress, Foreign,
     Loading, JoinPending, Elements, chatVars, messageRows, server, wire, page, loads,
     chatHistory
<1> QED  BY <1>1, <1>2

LEMMA MsgInvHolds == ChatSpec => []MsgInv
<1>1. MessagingAssumption
  BY MessagingAssumption
<1>2. ChatInit => MsgInv
  BY <1>1, MsgInitInv
<1> QED  BY <1>1, <1>2, MsgStep, PTL DEF ChatSpec

\* The page misses no message of the conversation it shows, up to the cases NothingMissed names:
\* whichever of a load and the room brings it, and however openings, events, answers and cuts
\* fall.
THEOREM PageIsComplete == ChatSpec => []NothingMissed
<1>1. ASSUME MsgInv PROVE NothingMissed
  <2>1. ASSUME opened # Nil, ~Loading, ~blurred,
               NEW m \in saved, conv[m] = opened, ~UnderWay(m)
        PROVE  m \in Elements(shown) \cup excused
    BY <1>1, <2>1 DEF MsgInv, Complete, Brought
  <2> QED  BY <2>1 DEF NothingMissed
<1> QED  BY <1>1, MsgInvHolds, PTL

\* Each message is shown once, in the order of created_at and under the name of its conversation,
\* up to the races ShownFaithfully names.
THEOREM PageIsFaithful == ChatSpec => []ShownFaithfully
<1>1. MsgInv => ShownFaithfully
  BY DEF MsgInv, ShownFaithfully
<1> QED  BY <1>1, MsgInvHolds, PTL

\* A message counts as read only once the page has shown it, up to the cases ReadWasShown names.
THEOREM ReadIsShown == ChatSpec => []ReadWasShown
<1>1. MsgInv => ReadWasShown
  BY DEF MsgInv, Seen
<1> QED  BY <1>1, MsgInvHolds, PTL

-----------------------------------------------------------------------------
(* Notifications: what is kept                                             *)

\* The members of the conversation a handler has created so far, by the statement it is at.
MembersOf(h) ==
    /\ stage[h] \in {"idle", "find", "conversation"} => members[h] = Nothing
    /\ stage[h] \in {"find", "conversation", "member1", "member2"} => caller[h] \in Users
    /\ stage[h] = "member1" => members[h] = <<>>
    /\ stage[h] = "member2" => members[h] = <<caller[h]>>
    /\ stage[h] \in {"note", "emit", "done"} =>
          members[h] = Nothing \/ Elements(members[h]) = Users

\* Unless two looked together, who creates a conversation does so alone, and those who
\* created one before him failed.
CreatesAlone ==
    ~sideBySide =>
        \A g, h \in Handlers : g # h /\ Creating(h) =>
            ~Creating(g) /\ (members[g] # Nothing => stage[g] = "failed")

Conversations == /\ \A h \in Handlers : MembersOf(h)
                 /\ CreatesAlone /\ OneConversation

\* The rows, the notifications on their way to the page, those of a list, and the calls the
\* server has answered and the page not heard.
Noted    == {h \in Handlers : note[h] # "none"}
Way      == {h \in Handlers : OnItsWay(h)}
Ids(s)   == {s[i].id : i \in DOMAIN s}
Answered == {c \in Clicks : click[c] = "answered"}

\* A push is under way once, of a row that is stored, and what the page knows of is stored.
Pushes ==
    /\ \A h \in Handlers : note[h] # "none" => stage[h] \in {"emit", "done", "failed"}
    /\ \A h \in Handlers : stage[h] = "emit" => note[h] # "none"
    /\ \A i \in DOMAIN pushes : pushes[i] \in Noted /\ stage[pushes[i]] = "done"
    /\ \A i, j \in DOMAIN pushes : pushes[i] = pushes[j] => i = j
    /\ ~online => pushes = <<>>
    /\ Ids(list) \cup Ids(gotList) \subseteq Noted
    /\ \A c \in Clicks : /\ target[c] # Nothing => target[c] \in Noted
                         /\ click[c] # "idle" => Noted # {}
    /\ count + gotCount > 0 => Noted # {}

\* The rows by age are rows, each once.
Stored ==
    /\ newest \in Seq(Handlers)
    /\ \A i \in DOMAIN newest : newest[i] \in Noted
    /\ \A i, j \in DOMAIN newest : newest[i] = newest[j] => i = j

\* The load lists a row once, and a row that is listed while it is on its way was read by the
\* load.
Listing ==
    /\ \A i, j \in DOMAIN gotList : gotList[i].id = gotList[j].id => i = j
    /\ Way \cap (Ids(list) \cup Ids(gotList)) \subseteq doubled
    /\ ListedOnce

\* The count the page shows, or is about to.
Shown == IF load = "set" THEN gotCount ELSE count

\* Unless they went apart, the count is ahead of the unread rows that have come by the calls
\* that have marked a row, and nothing unread has come while one has marked them all.
Counting ==
    /\ IsFiniteSet(Answered)
    /\ ~drifted =>
        /\ \A h \in Way : note[h] = "unread"
        /\ \A c, d \in Answered : target[c] = Nothing => c = d
        /\ \A c \in Answered : target[c] = Nothing => UnreadNotes \subseteq Way
        /\ load \in {"set", "idle"} /\ (\A c \in Answered : target[c] # Nothing)
              => \/ Shown = Cardinality(UnreadNotes \ Way) + Cardinality(Answered)
                 \/ Shown = 0 /\ UnreadNotes \subseteq Way

-----------------------------------------------------------------------------
(* Types                                                                   *)

Steps == {"idle", "find", "conversation", "member1", "member2", "note", "emit", "done",
          "failed"}

\* The types of what the server keeps, of what the socket carries and the page loads, and of
\* what the page keeps.
ServerTypes ==
    /\ stage \in [Handlers -> Steps]
    /\ caller \in [Handlers -> Users \cup {Nothing}]
    /\ members \in [Handlers -> {Nothing} \cup Seq(Users)]
    /\ note \in [Handlers -> {"none", "unread", "read"}]

SocketTypes ==
    /\ pushes \in Seq(Handlers) /\ online \in BOOLEAN /\ drops \in 0..MaxDrops
    /\ load \in {"list", "count", "set", "idle"} /\ gotCount \in 0..Cardinality(Handlers)
    /\ gotList \in Seq([id : Handlers, read : BOOLEAN])

PageTypes ==
    /\ list \in Seq([id : Handlers, read : BOOLEAN])
    /\ count \in Nat /\ text \in BOOLEAN
    /\ click \in [Clicks -> {"idle", "sent", "answered"}]
    /\ target \in [Clicks -> Handlers \cup {Nothing}]
    /\ sideBySide \in BOOLEAN /\ drifted \in BOOLEAN
    /\ missed \cup doubled \subseteq Handlers

LEMMA Types ==
    NoteTypeOK <=> ServerTypes /\ SocketTypes /\ PageTypes /\ newest \in Seq(Handlers)
BY DEF NoteTypeOK, ServerTypes, SocketTypes, PageTypes, Steps

\* Sets of handlers are finite, and no larger than all of them.
LEMMA FewHandlers ==
    ASSUME NEW S \in SUBSET Handlers
    PROVE  /\ IsFiniteSet(S) /\ Cardinality(S) \in 0..Cardinality(Handlers)
<1>1. IsFiniteSet(S) /\ Cardinality(S) <= Cardinality(Handlers)
  BY NotificationsAssumption, FS_Subset
<1>2. Cardinality(S) \in Nat /\ Cardinality(Handlers) \in Nat
  BY <1>1, NotificationsAssumption, FS_CardinalityType
<1> QED  BY <1>1, <1>2

\* The rows that are read are rows, each once.
LEMMA RowsOnce ==
    ASSUME Stored
    PROVE  /\ Rows \in Seq(Handlers)
           /\ \A i \in DOMAIN Rows : Rows[i] \in Noted
           /\ \A i, j \in DOMAIN Rows : Rows[i] = Rows[j] => i = j
<1> DEFINE n == IF Len(newest) < ListLimit THEN Len(newest) ELSE ListLimit
<1>1. /\ newest \in Seq(Handlers) /\ Len(newest) \in Nat /\ DOMAIN newest = 1..Len(newest)
      /\ \A i \in 1..Len(newest) : newest[i] \in Handlers
  BY LenProperties, ElementOfSeq DEF Stored
<1>2. n \in 0..Len(newest)
  BY <1>1, NotificationsAssumption
<1>3. Rows = SubSeq(newest, 1, n)
  BY DEF Rows, FirstOf
<1> HIDE DEF n
<1>4. /\ Rows \in Seq(Handlers) /\ Len(Rows) = IF 1 <= n THEN n - 1 + 1 ELSE 0
      /\ \A i \in 1..n - 1 + 1 : Rows[i] = newest[1 + i - 1]
  <2>1. \A i \in 1..n : newest[i] \in Handlers
    BY <1>1, <1>2
  <2> QED  BY <1>2, <1>3, <2>1, SubSeqProperties
<1>5. DOMAIN Rows = 1..n /\ \A i \in 1..n : i \in DOMAIN newest /\ Rows[i] = newest[i]
  <2>1. DOMAIN Rows = 1..Len(Rows) /\ Len(Rows) = n
    BY <1>2, <1>4, LenProperties
  <2> QED  BY <1>1, <1>2, <1>4, <2>1
<1> QED  BY <1>4, <1>5 DEF Stored

\* What EXCEPT writes for one handler leaves the others alone.
LEMMA GotoOne ==
    ASSUME ServerTypes, NEW h \in Handlers, NEW l, Proceed(h, l)
    PROVE  stage'[h] = l /\ \A g \in Handlers \ {h} : stage'[g] = stage[g]
BY DEF ServerTypes, Proceed

-----------------------------------------------------------------------------
(* The conversation of two users                                           *)

\* What a handler of another does leaves what it has created.
LEMMA MembersKept ==
    ASSUME NEW h \in Handlers, MembersOf(h), stage'[h] = stage[h], caller'[h] = caller[h],
           members'[h] = members[h]
    PROVE  MembersOf(h)'
BY DEF MembersOf

\* A step that creates nothing.
LEMMA ConversationsKept ==
    ASSUME Conversations, UNCHANGED <<members, sideBySide>>,
           \A g \in Handlers : /\ MembersOf(g)' /\ (Creating(g)' => Creating(g))
                               /\ stage[g] = "failed" => stage'[g] = "failed"
    PROVE  Conversations'
BY DEF Conversations, CreatesAlone, OneConversation

LEMMA ConversationsStep ==
    ServerTypes /\ Conversations /\ [NoteNext]_noteVars => Conversations'
<1> SUFFICES ASSUME ServerTypes, Conversations, [NoteNext]_noteVars PROVE Conversations'
  OBVIOUS
<1>0. \A g \in Handlers : MembersOf(g)
  BY DEF Conversations
<1>1. ASSUME NEW h \in Handlers, NEW u \in Callers[h], Book(h, u) PROVE Conversations'
  <2>0. u \in Users
    BY NotificationsAssumption
  <2>1. /\ stage[h] = "idle" /\ stage'[h] = "find" /\ caller'[h] = u
        /\ \A g \in Handlers \ {h} : stage'[g] = stage[g] /\ caller'[g] = caller[g]
        /\ UNCHANGED <<members, sideBySide>>
    BY <1>1, GotoOne DEF Book, ServerTypes, noteHistory
  <2>2. MembersOf(h)'
    BY <1>0, <2>0, <2>1 DEF MembersOf
  <2>3. \A g \in Handlers : MembersOf(g)'
    BY <1>0, <2>1, <2>2, MembersKept
  <2>4. \A g \in Handlers : /\ Creating(g)' => Creating(g)
                            /\ stage[g] = "failed" => stage'[g] = "failed"
    BY <2>1 DEF Creating
  <2> QED  BY <2>1, <2>3, <2>4, ConversationsKept
<1>2. ASSUME NEW h \in Handlers, Notify(h) PROVE Conversations'
  <2>1. /\ stage[h] = "idle" /\ stage'[h] = "note"
        /\ \A g \in Handlers \ {h} : stage'[g] = stage[g]
        /\ UNCHANGED <<caller, members, sideBySide>>
    BY <1>2, GotoOne DEF Notify, noteHistory
  <2>2. MembersOf(h)'
    BY <1>0, <2>1 DEF MembersOf
  <2>3. \A g \in Handlers : MembersOf(g)'
    BY <1>0, <2>1, <2>2, MembersKept
  <2>4. \A g \in Handlers : /\ Creating(g)' => Creating(g)
                            /\ stage[g] = "failed" => stage'[g] = "failed"
    BY <2>1 DEF Creating
  <2> QED  BY <2>1, <2>3, <2>4, ConversationsKept
<1>3. ASSUME NEW h \in Handlers, Find(h) PROVE Conversations'
  <2>1. CASE Between(caller[h]) # {}
    <3>1. /\ stage[h] = "find" /\ stage'[h] = "note"
          /\ \A g \in Handlers \ {h} : stage'[g] = stage[g] /\ caller'[g] = caller[g]
          /\ UNCHANGED <<members, sideBySide>>
      BY <1>3, <2>1, GotoOne DEF Find, ServerTypes
    <3>2. MembersOf(h)'
      BY <1>0, <3>1 DEF MembersOf
    <3>3. \A g \in Handlers : MembersOf(g)'
      BY <1>0, <3>1, <3>2, MembersKept
    <3>4. \A g \in Handlers : /\ Creating(g)' => Creating(g)
                              /\ stage[g] = "failed" => stage'[g] = "failed"
      BY <3>1 DEF Creating
    <3> QED  BY <3>1, <3>3, <3>4, ConversationsKept
  <2>2. CASE Between(caller[h]) = {}
    <3>1. /\ stage[h] = "find" /\ stage'[h] = "conversation"
          /\ \A g \in Handlers \ {h} : stage'[g] = stage[g]
          /\ UNCHANGED <<caller, members>>
          /\ sideBySide' = (sideBySide \/ \E g \in Handlers : Creating(g))
      BY <1>3, <2>2, GotoOne DEF Find
    <3>2. MembersOf(h)'
      BY <1>0, <3>1 DEF MembersOf
    <3>3. \A g \in Handlers : MembersOf(g)'
      BY <1>0, <3>1, <3>2, MembersKept
    <3>4. \A g \in Handlers : members[g] # Nothing => Elements(members[g]) # Users
      BY <2>2 DEF Between
    <3>5. ASSUME ~sideBySide', NEW g \in Handlers, g # h
          PROVE  ~Creating(g) /\ (members[g] # Nothing => stage[g] = "failed")
      <4>1. ~Creating(g)
        BY <3>1, <3>5
      <4>2. stage[g] \in {"note", "emit", "done"} => members[g] = Nothing
        BY <1>0, <3>4 DEF MembersOf
      <4>3. stage[g] \in {"idle", "find"} => members[g] = Nothing
        BY <1>0 DEF MembersOf
      <4> QED  BY <4>1, <4>2, <4>3 DEF ServerTypes, Steps, Creating
    <3>6. CreatesAlone'
      <4> SUFFICES ASSUME ~sideBySide', NEW f \in Handlers, NEW g \in Handlers, f # g,
                          Creating(g)'
                   PROVE  ~Creating(f)' /\ (members'[f] # Nothing => stage'[f] = "failed")
        BY DEF CreatesAlone
      <4>1. g = h
        BY <3>1, <3>5 DEF Creating
      <4> QED  BY <3>1, <3>5, <4>1 DEF Creating
    <3>7. OneConversation'
      <4> SUFFICES ASSUME NEW f \in Handlers, NEW g \in Handlers, f # g,
                          members[f] # Nothing, members[g] # Nothing, ~sideBySide'
                   PROVE  stage'[f] = "failed" \/ stage'[g] = "failed"
        BY <3>1 DEF OneConversation
      <4> QED  BY <1>0, <3>1, <3>5 DEF MembersOf
    <3> QED  BY <3>3, <3>6, <3>7 DEF Conversations
  <2> QED  BY <2>1, <2>2
<1>4. ASSUME NEW h \in Handlers, Create(h) PROVE Conversations'
  <2>1. /\ \A g \in Handlers \ {h} :
              stage'[g] = stage[g] /\ caller'[g] = caller[g] /\ members'[g] = members[g]
        /\ sideBySide' = sideBySide /\ stage[h] \in {"conversation", "member1", "member2"}
        /\ stage'[h] \in {"member1", "member2", "note"}
    BY <1>4, GotoOne DEF Create, ServerTypes, noteHistory, Creating
  <2>2. MembersOf(h)'
    <3>1. PICK u \in Users : u = caller[h]
      BY <1>0, <2>1 DEF MembersOf
    <3>2. CASE stage[h] = "conversation"
      <4>1. stage'[h] = "member1" /\ members'[h] = <<>> /\ caller'[h] = u
        BY <1>4, <3>1, <3>2, GotoOne DEF Create, ServerTypes
      <4> QED  BY <4>1 DEF MembersOf
    <3>3. CASE stage[h] = "member1"
      <4>1. stage'[h] = "member2" /\ members'[h] = <<u>> /\ caller'[h] = u
        BY <1>4, <3>1, <3>3, GotoOne DEF Create, ServerTypes
      <4> QED  BY <4>1 DEF MembersOf
    <3>4. CASE stage[h] = "member2"
      <4>1. stage'[h] = "note" /\ members'[h] = <<u>> \o <<Other(u)>>
        BY <1>0, <1>4, <3>1, <3>4, GotoOne DEF Create, ServerTypes, MembersOf
      <4>2. Other(u) \in Users /\ {u, Other(u)} = Users
        BY DEF Other, Users
      <4>3. Elements(<<u>> \o <<Other(u)>>) = {u, Other(u)}
        <5> DEFINE v == Other(u)
        <5> HIDE DEF v
        <5>1. DOMAIN (<<u>> \o <<v>>) = 1..2 /\ (<<u>> \o <<v>>)[1] = u
              /\ (<<u>> \o <<v>>)[2] = v
          <6>1. v \in Users
            BY <4>2 DEF v
          <6>2. <<v>> \in Seq(Users) /\ Len(<<v>>) = 1 /\ <<v>>[1] = v
            BY <6>1
          <6> HIDE DEF v
          <6> QED  BY <6>2, FirstAdded
        <5>2. Elements(<<u>> \o <<v>>) = {u, v}
          BY <5>1 DEF Elements
        <5> QED  BY <5>2 DEF v
      <4> QED  BY <4>1, <4>2, <4>3 DEF MembersOf
    <3> QED  BY <2>1, <3>2, <3>3, <3>4
  <2>3. \A g \in Handlers : MembersOf(g)'
    BY <1>0, <2>1, <2>2, MembersKept
  <2>4. Creating(h) /\ \A g \in Handlers : Creating(g)' => Creating(g)
    BY <2>1 DEF Creating
  <2>5. ASSUME ~sideBySide, NEW g \in Handlers, g # h
        PROVE  ~Creating(g) /\ (members[g] # Nothing => stage[g] = "failed")
    BY <2>4, <2>5 DEF Conversations, CreatesAlone
  <2>6. CreatesAlone'
    <3> SUFFICES ASSUME ~sideBySide', NEW f \in Handlers, NEW g \in Handlers, f # g,
                        Creating(g)'
                 PROVE  ~Creating(f)' /\ (members'[f] # Nothing => stage'[f] = "failed")
      BY DEF CreatesAlone
    <3>1. g = h
      BY <2>1, <2>4, <2>5
    <3> QED  BY <2>1, <2>4, <2>5, <3>1
  <2>7. OneConversation'
    <3> SUFFICES ASSUME NEW f \in Handlers, NEW g \in Handlers, f # g,
                        members'[f] # Nothing, members'[g] # Nothing, ~sideBySide
                 PROVE  stage'[f] = "failed" \/ stage'[g] = "failed"
      BY <2>1 DEF OneConversation
    <3> QED  BY <2>1, <2>5
  <2> QED  BY <2>3, <2>6, <2>7 DEF Conversations
<1>5. ASSUME NEW h \in Handlers, Store(h) \/ Emit(h) \/ Fail(h) PROVE Conversations'
  <2>1. /\ \A g \in Handlers \ {h} : stage'[g] = stage[g] /\ caller'[g] = caller[g]
        /\ UNCHANGED <<members, sideBySide>>
        /\ \/ stage'[h] = "failed" /\ stage[h] # "failed"
           \/ stage[h] = "note" /\ stage'[h] = "emit"
           \/ stage[h] = "emit" /\ stage'[h] = "done"
    <3>1. CASE Store(h)
      BY <3>1, GotoOne DEF Store, noteHistory
    <3>2. CASE Emit(h)
      BY <3>2, GotoOne DEF Emit
    <3>3. CASE Fail(h)
      BY <3>3, GotoOne DEF Fail, ServerTypes
    <3> QED  BY <1>5, <3>1, <3>2, <3>3
  <2>2. MembersOf(h)'
    BY <1>0, <2>1 DEF MembersOf
  <2>3. \A g \in Handlers : MembersOf(g)'
    BY <1>0, <2>1, <2>2, MembersKept
  <2>4. \A g \in Handlers : /\ Creating(g)' => Creating(g)
                            /\ stage[g] = "failed" => stage'[g] = "failed"
    BY <2>1 DEF Creating
  <2> QED  BY <2>1, <2>3, <2>4, ConversationsKept
<1>6. ASSUME UNCHANGED <<stage, caller, members, sideBySide>> PROVE Conversations'
  BY <1>0, <1>6, MembersKept, ConversationsKept DEF Creating
<1>7. CASE \/ Disconnect \/ Reconnect \/ ReceivePush
           \/ ReadList \/ ReadCount \/ SetBoth \/ LoadBreaks
  BY <1>6, <1>7 DEF Disconnect, Reconnect, ReceivePush, ReadList, ReadCount, SetBoth,
     LoadBreaks, handling, noteHistory
<1>8. ASSUME NEW c \in Clicks,
             \/ \E h \in Handlers : ClickNote(c, h)
             \/ ClickAll(c) \/ MarkRead(c) \/ Marked(c) \/ MarkFails(c)
      PROVE  Conversations'
  BY <1>6, <1>8 DEF ClickNote, ClickAll, BeginClick, MarkRead, Marked, MarkFails, handling,
     noteHistory
<1>9. CASE UNCHANGED noteVars
  BY <1>6, <1>9 DEF noteVars, handling, noteHistory
<1> QED
  BY <1>1, <1>2, <1>3, <1>4, <1>5, <1>7, <1>8, <1>9 DEF NoteNext

\* Every step keeps the types.
LEMMA ServerTypedStep == ServerTypes /\ Conversations /\ [NoteNext]_noteVars => ServerTypes'
<1> SUFFICES ASSUME ServerTypes, Conversations, [NoteNext]_noteVars PROVE ServerTypes'
  OBVIOUS
<1> USE DEF Proceed, Steps
<1>1. ASSUME NEW h \in Handlers,
             (\E u \in Callers[h] : Book(h, u)) \/ Notify(h) \/ Find(h)
      PROVE  ServerTypes'
  BY <1>1, NotificationsAssumption DEF Book, Notify, Find, ServerTypes
<1>2. ASSUME NEW h \in Handlers, Create(h) PROVE ServerTypes'
  <2>1. PICK u \in Users : u = caller[h]
    BY <1>2 DEF Create, Creating, Conversations, MembersOf
  <2>2. note' = note /\ stage' \in [Handlers -> Steps]
        /\ caller' \in [Handlers -> Users \cup {Nothing}]
    BY <1>2 DEF Create, Creating, ServerTypes
  <2>3. members' \in [Handlers -> {Nothing} \cup Seq(Users)]
    <3>1. CASE stage[h] = "conversation"
      <4>1. members' = [members EXCEPT ![h] = <<>>] /\ <<>> \in Seq(Users)
        BY <1>2, <3>1 DEF Create
      <4> QED  BY <4>1 DEF ServerTypes
    <3>2. CASE stage[h] = "member1"
      <4>1. members' = [members EXCEPT ![h] = <<u>>] /\ <<u>> \in Seq(Users)
        BY <1>2, <2>1, <3>2 DEF Create
      <4> QED  BY <4>1 DEF ServerTypes
    <3>3. CASE stage[h] = "member2"
      <4>1. PICK v \in Users : v = Other(u)
        BY DEF Other, Users
      <4>2. members[h] = <<u>>
        BY <2>1, <3>3 DEF Conversations, MembersOf
      <4>3. members' = [members EXCEPT ![h] = <<u>> \o <<v>>]
        BY <1>2, <2>1, <3>3, <4>1, <4>2 DEF Create
      <4>4. <<u>> \o <<v>> \in Seq(Users)
        OBVIOUS
      <4> HIDE DEF Proceed
      <4> QED  BY <4>3, <4>4 DEF ServerTypes
    <3> QED  BY <1>2, <3>1, <3>2, <3>3 DEF Create, Creating
  <2> QED  BY <2>2, <2>3 DEF ServerTypes
<1>3. ASSUME NEW h \in Handlers, Store(h) \/ Emit(h) \/ Fail(h) PROVE ServerTypes'
  BY <1>3 DEF Store, Emit, Fail, ServerTypes
<1>4. ASSUME UNCHANGED handling PROVE ServerTypes'
  BY <1>4 DEF handling, ServerTypes
<1>5. CASE \/ Disconnect \/ Reconnect \/ ReceivePush
           \/ ReadList \/ ReadCount \/ SetBoth \/ LoadBreaks
  BY <1>4, <1>5 DEF Disconnect, Reconnect, ReceivePush, ReadList, ReadCount, SetBoth, LoadBreaks
<1>6. ASSUME NEW c \in Clicks, MarkRead(c) PROVE ServerTypes'
  <2>1. UNCHANGED <<stage, caller, members>>
    BY <1>6 DEF MarkRead
  <2>2. note' \in [Handlers -> {"none", "unread", "read"}]
    <3>1. CASE target[c] = Nothing
      BY <1>6, <3>1 DEF MarkRead, ServerTypes
    <3>2. CASE target[c] # Nothing
      <4>1. note' = [note EXCEPT ![target[c]] = "read"]
        BY <1>6, <3>2 DEF MarkRead
      <4> QED  BY <4>1 DEF ServerTypes
    <3> QED  BY <3>1, <3>2
  <2> QED  BY <2>1, <2>2 DEF ServerTypes
<1>7. ASSUME NEW c \in Clicks,
             \/ \E h \in Handlers : ClickNote(c, h)
             \/ ClickAll(c) \/ Marked(c) \/ MarkFails(c)
      PROVE  ServerTypes'
  BY <1>4, <1>7 DEF ClickNote, ClickAll, BeginClick, Marked, MarkFails
<1>8. CASE UNCHANGED noteVars
  BY <1>4, <1>8 DEF noteVars
<1> QED  BY <1>1, <1>2, <1>3, <1>5, <1>6, <1>7, <1>8 DEF NoteNext

\* An entry of the list is a row and whether it is read.
LEMMA Entries ==
    \A h \in Handlers, r \in BOOLEAN :
        Entry(h, r) \in [id : Handlers, read : BOOLEAN] /\ Entry(h, r).id = h
BY DEF Entry

\* What ReadList keeps has an entry for each row it read.
LEMMA RowsListed ==
    ASSUME Stored, NEW s, s = Rows, NEW g,
           g = [i \in DOMAIN s |-> Entry(s[i], note[s[i]] = "read")]
    PROVE  /\ g \in Seq([id : Handlers, read : BOOLEAN]) /\ DOMAIN g = DOMAIN s
           /\ \A i \in DOMAIN s : g[i].id = s[i]
<1>1. s \in Seq(Handlers)
  BY RowsOnce
<1>2. Len(s) \in Nat /\ DOMAIN s = 1..Len(s) /\ \A i \in 1..Len(s) : s[i] \in Handlers
  BY <1>1
<1>3. \A i \in 1..Len(s) :
          g[i] \in [id : Handlers, read : BOOLEAN] /\ g[i].id = s[i]
  BY <1>2, Entries
<1>4. g \in [1..Len(s) -> [id : Handlers, read : BOOLEAN]] /\ DOMAIN g = 1..Len(s)
  BY <1>2, <1>3
<1>5. g \in Seq([id : Handlers, read : BOOLEAN])
  BY <1>2, <1>4
<1> QED  BY <1>2, <1>3, <1>4, <1>5

\* The calls that end change the entries' marks alone.
LEMMA ListMarked ==
    ASSUME PageTypes, NEW c, Marked(c)
    PROVE  /\ list' \in Seq([id : Handlers, read : BOOLEAN]) /\ DOMAIN list' = DOMAIN list
           /\ \A i \in DOMAIN list : list'[i].id = list[i].id
<1>1. list \in Seq([id : Handlers, read : BOOLEAN])
  BY DEF PageTypes
<1>2. /\ Len(list) \in Nat /\ DOMAIN list = 1..Len(list)
      /\ \A i \in 1..Len(list) : list[i] \in [id : Handlers, read : BOOLEAN]
  BY <1>1, LenProperties, ElementOfSeq
<1>3. list' = [i \in DOMAIN list |-> IF target[c] \in {Nothing, list[i].id}
                                     THEN Entry(list[i].id, TRUE) ELSE list[i]]
  BY DEF Marked
<1>4. \A i \in 1..Len(list) : list'[i] \in [id : Handlers, read : BOOLEAN]
                              /\ list'[i].id = list[i].id
  BY <1>2, <1>3, Entries
<1>5. list' \in [1..Len(list) -> [id : Handlers, read : BOOLEAN]]
      /\ DOMAIN list' = 1..Len(list)
  BY <1>2, <1>3, <1>4
<1>6. list' \in Seq([id : Handlers, read : BOOLEAN])
  <2> DEFINE E == [id : Handlers, read : BOOLEAN]
             n == Len(list)
  <2>1. n \in Nat /\ list' \in [1..n -> E]
    BY <1>2, <1>5
  <2> HIDE DEF E, n
  <2>2. list' \in Seq(E)
    BY <2>1
  <2> QED  BY <2>2 DEF E
<1> QED  BY <1>2, <1>4, <1>5, <1>6

LEMMA SocketTypedStep ==
    ServerTypes /\ SocketTypes /\ Stored /\ [NoteNext]_noteVars => SocketTypes'
<1> SUFFICES ASSUME ServerTypes, SocketTypes, Stored, [NoteNext]_noteVars PROVE SocketTypes'
  OBVIOUS
<1>0. <<>> \in Seq(Handlers) /\ <<>> \in Seq([id : Handlers, read : BOOLEAN])
      /\ 0 \in 0..Cardinality(Handlers)
  <2>1. Cardinality(Handlers) \in Nat
    BY NotificationsAssumption, FS_CardinalityType
  <2> QED  BY <2>1
<1>1. ASSUME UNCHANGED <<pushes, online, drops, loading>> PROVE SocketTypes'
  BY <1>1 DEF SocketTypes, loading
<1>2. ASSUME NEW h \in Handlers,
             (\E u \in Callers[h] : Book(h, u)) \/ Notify(h) \/ Find(h) \/ Create(h)
             \/ Store(h) \/ Fail(h)
      PROVE  SocketTypes'
  BY <1>1, <1>2 DEF Book, Notify, Find, Create, Store, Fail, socket
<1>3. ASSUME NEW h \in Handlers, Emit(h) PROVE SocketTypes'
  <2>1. pushes' = pushes \/ pushes' = Append(pushes, h)
    BY <1>3 DEF Emit
  <2>2. pushes' \in Seq(Handlers)
    BY <2>1, LastAdded DEF SocketTypes
  <2>3. UNCHANGED <<online, drops, loading>>
    BY <1>3 DEF Emit
  <2> QED  BY <2>2, <2>3 DEF SocketTypes, loading
<1>4. CASE Disconnect \/ Reconnect
  <2>1. pushes' \in Seq(Handlers) /\ online' \in BOOLEAN /\ UNCHANGED loading
    BY <1>0, <1>4 DEF Disconnect, Reconnect, SocketTypes
  <2>2. drops' \in 0..MaxDrops
    BY <1>4, NotificationsAssumption DEF Disconnect, Reconnect, SocketTypes
  <2> QED  BY <2>1, <2>2 DEF SocketTypes, loading
<1>5. CASE ReceivePush
  <2>1. pushes' \in Seq(Handlers)
    BY <1>5, HeadGone DEF ReceivePush, SocketTypes
  <2> QED  BY <1>5, <2>1 DEF ReceivePush, SocketTypes, loading
<1>6. CASE ReadList
  <2>1. PICK s : s = Rows /\ gotList' = [i \in DOMAIN s |-> Entry(s[i], note[s[i]] = "read")]
    BY <1>6 DEF ReadList
  <2>2. gotList' \in Seq([id : Handlers, read : BOOLEAN])
    BY <2>1, RowsListed
  <2> QED  BY <1>6, <2>2 DEF ReadList, SocketTypes, socket
<1>7. CASE ReadCount
  <2>1. Cardinality(UnreadNotes) \in 0..Cardinality(Handlers)
    BY FewHandlers DEF UnreadNotes
  <2> QED  BY <1>7, <2>1 DEF ReadCount, SocketTypes, socket
<1>8. CASE SetBoth \/ LoadBreaks
  BY <1>0, <1>8 DEF SetBoth, LoadBreaks, SocketTypes, socket
<1>9. ASSUME NEW c \in Clicks,
             \/ \E h \in Handlers : ClickNote(c, h)
             \/ ClickAll(c) \/ MarkRead(c) \/ Marked(c) \/ MarkFails(c)
      PROVE  SocketTypes'
  BY <1>1, <1>9 DEF ClickNote, ClickAll, BeginClick, MarkRead, Marked, MarkFails, socket
<1>10. CASE UNCHANGED noteVars
  BY <1>1, <1>10 DEF noteVars, socket
<1> QED
  BY <1>2, <1>3, <1>4, <1>5, <1>6, <1>7, <1>8, <1>9, <1>10 DEF NoteNext

LEMMA BellPageTyped ==
    ServerTypes /\ SocketTypes /\ PageTypes /\ [NoteNext]_noteVars => PageTypes'
<1> SUFFICES ASSUME ServerTypes, SocketTypes, PageTypes, [NoteNext]_noteVars PROVE PageTypes'
  OBVIOUS
<1> USE DEF PageTypes, noteHistory, calls
<1>1. ASSUME NEW h \in Handlers,
             (\E u \in Callers[h] : Book(h, u)) \/ Notify(h) \/ Find(h) \/ Create(h) \/ Store(h)
      PROVE  PageTypes'
  BY <1>1 DEF Book, Notify, Find, Create, Store
<1>2. ASSUME NEW h \in Handlers, Emit(h) \/ Fail(h) PROVE PageTypes'
  BY <1>2 DEF Emit, Fail
<1>3. CASE Disconnect
  <2>1. Elements(pushes) \subseteq Handlers
    BY DEF SocketTypes, Elements
  <2> QED  BY <1>3, <2>1 DEF Disconnect
<1>4. CASE Reconnect
  BY <1>4 DEF Reconnect
<1>5. CASE ReceivePush
  <2>1. Head(pushes) \in Handlers
    BY <1>5, HeadGone DEF ReceivePush, SocketTypes
  <2>2. list' \in Seq([id : Handlers, read : BOOLEAN])
    <3>1. list' = <<Entry(Head(pushes), FALSE)>> \o list
      BY <1>5 DEF ReceivePush
    <3>2. Entry(Head(pushes), FALSE) \in [id : Handlers, read : BOOLEAN]
      BY <2>1, Entries
    <3> QED  BY <3>1, <3>2, FirstAdded
  <2>3. count' \in Nat /\ text' = text
    BY <1>5 DEF ReceivePush, OneOn
  <2>4. UNCHANGED <<calls, sideBySide, doubled>> /\ missed' \subseteq Handlers
    BY <1>5, <2>1 DEF ReceivePush
  <2>5. drifted' \in BOOLEAN
    BY <1>5 DEF ReceivePush
  <2> QED  BY <2>2, <2>3, <2>4, <2>5
<1>6. CASE ReadList \/ ReadCount
  BY <1>6 DEF ReadList, ReadCount
<1>7. CASE SetBoth
  <2>1. gotCount \in Nat
    <3>1. Cardinality(Handlers) \in Nat
      BY NotificationsAssumption, FS_CardinalityType
    <3> QED  BY <3>1 DEF SocketTypes
  <2> QED  BY <1>7, <2>1, NotificationsAssumption DEF SetBoth, SocketTypes
<1>8. CASE LoadBreaks
  BY <1>8 DEF LoadBreaks
<1>9. ASSUME NEW c \in Clicks, (\E h \in Handlers : ClickNote(c, h)) \/ ClickAll(c)
      PROVE  PageTypes'
  BY <1>9 DEF ClickNote, ClickAll, BeginClick
<1>10. ASSUME NEW c \in Clicks, MarkRead(c) PROVE PageTypes'
  BY <1>10 DEF MarkRead
<1>11. ASSUME NEW c \in Clicks, Marked(c) PROVE PageTypes'
  <2>1. list' \in Seq([id : Handlers, read : BOOLEAN])
    BY <1>11, ListMarked
  <2>2. count' \in Nat
    BY <1>11 DEF Marked, OneOff
  <2> QED  BY <1>11, <2>1, <2>2 DEF Marked, EndClick
<1>12. ASSUME NEW c \in Clicks, MarkFails(c) PROVE PageTypes'
  BY <1>12 DEF MarkFails, EndClick
<1>13. CASE UNCHANGED noteVars
  BY <1>13 DEF noteVars
<1> QED
  BY <1>1, <1>2, <1>3, <1>4, <1>5, <1>6, <1>7, <1>8, <1>9, <1>10, <1>11, <1>12,
     <1>13 DEF NoteNext

-----------------------------------------------------------------------------
(* The list and the count                                                  *)

Bell == Pushes /\ Listing /\ Counting

\* The state before and after, of a step that neither stores, tells nor marks anything.
LEMMA BellKept ==
    ASSUME ServerTypes, Bell,
           UNCHANGED <<note, pushes, online, loading, list, count, calls, doubled, drifted>>,
           \A g \in Handlers : \/ stage'[g] = stage[g]
                               \/ note[g] = "none" /\ stage'[g] # "emit"
    PROVE  Bell'
<1>1. \A g \in Handlers : OnItsWay(g)' <=> OnItsWay(g)
  BY DEF Bell, Pushes, OnItsWay, Elements, Noted
<1>2. Way' = Way /\ UnreadNotes' = UnreadNotes /\ Noted' = Noted /\ Answered' = Answered
  BY <1>1 DEF Way, UnreadNotes, Noted, Answered, calls
<1>3. Ids(list)' = Ids(list) /\ Ids(gotList)' = Ids(gotList)
  BY DEF Ids, loading
<1>4. Pushes'
  <2>1. \A h \in Handlers : note'[h] # "none" => stage'[h] \in {"emit", "done", "failed"}
    BY DEF Bell, Pushes
  <2>2. \A h \in Handlers : stage'[h] = "emit" => note'[h] # "none"
    BY DEF Bell, Pushes
  <2>3. \A i \in DOMAIN pushes : pushes[i] \in Noted /\ stage'[pushes[i]] = "done"
    BY DEF Bell, Pushes, Noted
  <2> QED  BY <1>2, <1>3, <2>1, <2>2, <2>3 DEF Bell, Pushes, loading, calls
<1>5. Listing'
  BY <1>2, <1>3 DEF Bell, Listing, ListedOnce, loading
<1>6. Counting'
  BY <1>2 DEF Bell, Counting, Shown, loading, calls
<1> QED  BY <1>4, <1>5, <1>6 DEF Bell

\* A row is stored and its push is to be sent.
LEMMA BellStore ==
    ASSUME ServerTypes, Bell, NEW h \in Handlers, Store(h)
    PROVE  Bell'
<1>1. /\ stage[h] = "note" /\ stage'[h] = "emit" /\ note'[h] = "unread"
      /\ \A g \in Handlers \ {h} : stage'[g] = stage[g] /\ note'[g] = note[g]
      /\ UNCHANGED <<pushes, online, loading, list, count, calls, doubled, drifted>>
  BY GotoOne DEF Store, ServerTypes, socket, noteHistory
<1>2. note[h] = "none" /\ h \notin Elements(pushes)
  BY <1>1 DEF Bell, Pushes, Elements
<1>3. /\ Noted' = Noted \cup {h} /\ Way' = Way \cup {h} /\ UnreadNotes' = UnreadNotes \cup {h}
      /\ Answered' = Answered /\ h \notin Noted /\ h \notin UnreadNotes
  BY <1>1, <1>2 DEF Noted, Way, UnreadNotes, Answered, OnItsWay, Elements, calls
<1>4. Ids(list)' = Ids(list) /\ Ids(gotList)' = Ids(gotList)
      /\ h \notin Ids(list) /\ h \notin Ids(gotList)
  BY <1>1, <1>3 DEF Ids, loading, Bell, Pushes
<1>5. Pushes'
  <2>1. \A g \in Handlers : /\ note'[g] # "none" => stage'[g] \in {"emit", "done", "failed"}
                            /\ stage'[g] = "emit" => note'[g] # "none"
    BY <1>1 DEF Bell, Pushes
  <2>2. \A i \in DOMAIN pushes : pushes[i] \in Noted /\ pushes[i] # h
          /\ stage'[pushes[i]] = "done"
    BY <1>1, <1>2 DEF Bell, Pushes, Noted, Elements
  <2> QED  BY <1>1, <1>3, <1>4, <2>1, <2>2 DEF Bell, Pushes, loading, calls
<1>6. Listing'
  BY <1>1, <1>3, <1>4 DEF Bell, Listing, ListedOnce, loading
<1>7. Counting'
  <2>1. UnreadNotes' \ Way' = UnreadNotes \ Way
    BY <1>3
  <2>2. ~drifted => \A g \in Way' : note'[g] = "unread"
    BY <1>1, <1>3 DEF Bell, Counting, Way
  <2>3. UnreadNotes \subseteq Way => UnreadNotes' \subseteq Way'
    BY <1>3
  <2> QED  BY <1>1, <1>3, <2>1, <2>2, <2>3 DEF Bell, Counting, Shown, loading, calls
<1> QED  BY <1>5, <1>6, <1>7 DEF Bell

\* A push that is sent is on its way still; one that is not parts the count and the rows.
LEMMA BellEmit ==
    ASSUME ServerTypes, SocketTypes, Bell, NEW h \in Handlers, Emit(h)
    PROVE  Bell'
<1>1. /\ stage[h] = "emit" /\ stage'[h] = "done"
      /\ \A g \in Handlers \ {h} : stage'[g] = stage[g]
      /\ UNCHANGED <<note, online, loading, list, count, calls, doubled>>
  BY GotoOne DEF Emit
<1>2. h \in Noted /\ h \notin Elements(pushes)
  BY <1>1 DEF Bell, Pushes, Elements, Noted
<1>3. Noted' = Noted /\ UnreadNotes' = UnreadNotes /\ Answered' = Answered
  BY <1>1 DEF Noted, UnreadNotes, Answered, calls
<1>4. Ids(list)' = Ids(list) /\ Ids(gotList)' = Ids(gotList)
  BY <1>1 DEF Ids, loading
<1>5. \A g \in Handlers : /\ note'[g] # "none" => stage'[g] \in {"emit", "done", "failed"}
                          /\ stage'[g] = "emit" => note'[g] # "none"
  BY <1>1 DEF Bell, Pushes
<1>6. CASE online
  <2>1. pushes' = Append(pushes, h) /\ UNCHANGED drifted
    BY <1>6 DEF Emit
  <2>2. /\ DOMAIN pushes = 1..Len(pushes) /\ Len(pushes) \in Nat
        /\ DOMAIN pushes' = 1..Len(pushes) + 1
        /\ pushes'[Len(pushes) + 1] = h /\ \A i \in DOMAIN pushes : pushes'[i] = pushes[i]
    BY <2>1, LastAdded DEF SocketTypes
  <2>3. Elements(pushes)' = Elements(pushes) \cup {h}
    BY <2>2 DEF Elements
  <2>4. Way' = Way
    BY <1>1, <2>3 DEF Way, OnItsWay
  <2>5. \A i \in DOMAIN pushes' : pushes'[i] \in Noted' /\ stage'[pushes'[i]] = "done"
    <3> SUFFICES ASSUME NEW i \in DOMAIN pushes'
                 PROVE  pushes'[i] \in Noted /\ stage'[pushes'[i]] = "done"
      BY <1>3
    <3>1. CASE i = Len(pushes) + 1
      BY <1>1, <1>2, <2>2, <3>1
    <3>2. CASE i \in DOMAIN pushes
      <4>1. pushes[i] \in Noted /\ stage[pushes[i]] = "done"
        BY <3>2 DEF Bell, Pushes
      <4> QED  BY <1>1, <2>2, <3>2, <4>1 DEF Noted
    <3> QED  BY <2>2, <3>1, <3>2
  <2>6. \A i, j \in DOMAIN pushes' : pushes'[i] = pushes'[j] => i = j
    <3>1. \A i \in DOMAIN pushes : pushes[i] # h
      BY <1>2 DEF Elements
    <3>2. \A i, j \in DOMAIN pushes : pushes[i] = pushes[j] => i = j
      BY DEF Bell, Pushes
    <3> QED  BY <2>2, <3>1, <3>2
  <2>7. Pushes'
    BY <1>1, <1>3, <1>4, <1>5, <1>6, <2>5, <2>6 DEF Bell, Pushes, loading, calls
  <2>8. Listing'
    BY <1>1, <1>4, <2>4 DEF Bell, Listing, ListedOnce, loading
  <2>9. Counting'
    BY <1>1, <1>3, <2>1, <2>4 DEF Bell, Counting, Shown, loading, calls
  <2> QED  BY <2>7, <2>8, <2>9 DEF Bell
<1>7. CASE ~online
  <2>1. drifted' /\ UNCHANGED pushes
    BY <1>7 DEF Emit
  <2>2. Way' \subseteq Way
    BY <1>1, <2>1 DEF Way, OnItsWay, Elements
  <2>3. pushes = <<>>
    BY <1>7 DEF Bell, Pushes
  <2>4. Pushes'
    BY <1>1, <1>3, <1>4, <1>5, <2>1, <2>3 DEF Bell, Pushes, loading, calls
  <2>5. Listing'
    BY <1>1, <1>4, <2>2 DEF Bell, Listing, ListedOnce, loading
  <2>6. Counting'
    BY <1>3, <2>1 DEF Bell, Counting
  <2> QED  BY <2>4, <2>5, <2>6 DEF Bell
<1> QED  BY <1>6, <1>7

\* A step after which the count is not promised to be right, and nothing more is on its way.
LEMMA BellDrifts ==
    ASSUME Bell, drifted', Pushes', UNCHANGED <<list, gotList, doubled, click>>,
           Way' \subseteq Way
    PROVE  Bell'
<1>1. Answered' = Answered
  BY DEF Answered
<1>2. Ids(list)' = Ids(list) /\ Ids(gotList)' = Ids(gotList)
  BY DEF Ids
<1>3. Listing'
  BY <1>2 DEF Bell, Listing, ListedOnce
<1> QED  BY <1>1, <1>3 DEF Bell, Counting

LEMMA BellFail ==
    ASSUME ServerTypes, PageTypes, Bell, NEW h \in Handlers, Fail(h)
    PROVE  Bell'
<1>1. /\ stage[h] \notin {"idle", "done", "failed"} /\ stage'[h] = "failed"
      /\ \A g \in Handlers \ {h} : stage'[g] = stage[g]
      /\ UNCHANGED <<note, pushes, online, loading, list, count, calls, doubled>>
      /\ drifted' = (drifted \/ stage[h] = "emit")
  BY GotoOne DEF Fail, socket
<1>2. CASE stage[h] = "emit"
  <2>1. Way' \subseteq Way
    BY <1>1 DEF Way, OnItsWay, Elements
  <2>2. Noted' = Noted /\ Ids(list)' = Ids(list) /\ Ids(gotList)' = Ids(gotList)
    BY <1>1 DEF Noted, Ids, loading
  <2>3. \A g \in Handlers : /\ note'[g] # "none" => stage'[g] \in {"emit", "done", "failed"}
                            /\ stage'[g] = "emit" => note'[g] # "none"
    BY <1>1 DEF Bell, Pushes
  <2>4. \A i \in DOMAIN pushes : pushes[i] \in Noted /\ stage'[pushes[i]] = "done"
    BY <1>1 DEF Bell, Pushes, Noted
  <2>5. Pushes'
    BY <1>1, <2>2, <2>3, <2>4 DEF Bell, Pushes, loading, calls
  <2> QED  BY <1>1, <1>2, <2>1, <2>5, BellDrifts DEF loading, calls
<1>3. CASE stage[h] # "emit"
  <2>1. drifted' = drifted /\ note[h] = "none"
    BY <1>1, <1>3 DEF Bell, Pushes, PageTypes
  <2> QED  BY <1>1, <2>1, BellKept
<1> QED  BY <1>2, <1>3

LEMMA BellCut ==
    ASSUME ServerTypes, SocketTypes, PageTypes, Bell, Disconnect
    PROVE  Bell'
<1>1. pushes' = <<>> /\ UNCHANGED <<stage, note, loading, list, count, calls, doubled>>
      /\ drifted' = (drifted \/ pushes # <<>>)
  BY DEF Disconnect, handling
<1>2. Way' \subseteq Way /\ (pushes = <<>> => Way' = Way)
  BY <1>1 DEF Way, OnItsWay, Elements
<1>3. Noted' = Noted /\ Ids(list)' = Ids(list) /\ Ids(gotList)' = Ids(gotList)
  BY <1>1 DEF Noted, Ids, loading
<1>4. Pushes'
  BY <1>1, <1>3 DEF Bell, Pushes, loading, calls
<1>5. CASE pushes # <<>>
  BY <1>1, <1>2, <1>4, <1>5, BellDrifts DEF loading, calls
<1>6. CASE pushes = <<>>
  <2>1. Way' = Way /\ drifted' = drifted /\ UnreadNotes' = UnreadNotes /\ Answered' = Answered
    BY <1>1, <1>2, <1>6 DEF PageTypes, UnreadNotes, Answered, calls
  <2>2. Listing'
    BY <1>1, <1>3, <2>1 DEF Bell, Listing, ListedOnce, loading
  <2>3. Counting'
    BY <1>1, <2>1 DEF Bell, Counting, Shown, loading, calls
  <2> QED  BY <1>4, <2>2, <2>3 DEF Bell
<1> QED  BY <1>5, <1>6

\* The page receives a push: the row that was on its way is listed and counted.
LEMMA BellReceive ==
    ASSUME ServerTypes, SocketTypes, PageTypes, Bell, ReceivePush
    PROVE  Bell'
<1>1. PICK h \in Handlers : h = Head(pushes)
  BY HeadGone DEF ReceivePush, SocketTypes
<1>2. /\ pushes # <<>> /\ pushes' = Tail(pushes) /\ online /\ online' = online
      /\ list' = <<Entry(h, FALSE)>> \o list /\ count' = OneOn(count)
      /\ drifted' = (drifted \/ text \/ load = "set" \/ \E c \in Clicks : click[c] = "answered")
      /\ UNCHANGED <<stage, note, loading, calls, doubled>>
  BY <1>1 DEF ReceivePush, handling
<1>3. /\ 1 \in DOMAIN pushes /\ pushes[1] = h
      /\ \A i \in DOMAIN pushes' : i + 1 \in DOMAIN pushes /\ pushes'[i] = pushes[i + 1]
      /\ \A i \in DOMAIN pushes : i # 1
           => i - 1 \in DOMAIN pushes' /\ pushes[i] = pushes'[i - 1]
      /\ DOMAIN pushes = 1..Len(pushes) /\ DOMAIN pushes' = 1..Len(pushes) - 1
      /\ Len(pushes) \in Nat
  BY <1>1, <1>2, HeadGone DEF SocketTypes
<1>4. \A i, j \in DOMAIN pushes : pushes[i] = pushes[j] => i = j
  BY DEF Bell, Pushes
<1>5. Elements(pushes)' = Elements(pushes) \ {h} /\ h \in Elements(pushes)
  <2>1. \A i \in DOMAIN pushes' : pushes'[i] # h
    BY <1>3, <1>4
  <2>2. ASSUME NEW x \in Elements(pushes'), x # h PROVE x \in Elements(pushes)
    BY <1>3, <2>2 DEF Elements
  <2>3. ASSUME NEW x \in Elements(pushes), x # h PROVE x \in Elements(pushes')
    BY <1>3, <2>3 DEF Elements
  <2>4. h \notin Elements(pushes') /\ h \in Elements(pushes)
    BY <1>3, <2>1 DEF Elements
  <2> QED  BY <2>2, <2>3, <2>4
<1>6. h \in Noted /\ stage[h] = "done"
  BY <1>3 DEF Bell, Pushes
<1>7. Way' = Way \ {h} /\ h \in Way
  BY <1>2, <1>5, <1>6 DEF Way, OnItsWay
<1>8. Noted' = Noted /\ UnreadNotes' = UnreadNotes /\ Answered' = Answered
  BY <1>2 DEF Noted, UnreadNotes, Answered, calls
<1>9. /\ DOMAIN list = 1..Len(list) /\ Len(list) \in Nat /\ DOMAIN list' = 1..Len(list) + 1
      /\ list'[1].id = h /\ \A i \in 2..Len(list) + 1 : list'[i] = list[i - 1]
  <2> DEFINE E == [id : Handlers, read : BOOLEAN]
  <2>1. PICK e \in E : e = Entry(h, FALSE) /\ e.id = h
    BY Entries
  <2>2. list \in Seq(E) /\ list' = <<e>> \o list
    BY <1>2, <2>1 DEF PageTypes
  <2> HIDE DEF E
  <2>3. /\ DOMAIN list = 1..Len(list) /\ Len(list) \in Nat
        /\ DOMAIN (<<e>> \o list) = 1..Len(list) + 1 /\ (<<e>> \o list)[1] = e
        /\ \A i \in 2..Len(list) + 1 : (<<e>> \o list)[i] = list[i - 1]
    BY <2>2, FirstAdded
  <2> QED  BY <2>1, <2>2, <2>3
<1>10. Ids(list)' = Ids(list) \cup {h} /\ Ids(gotList)' = Ids(gotList)
  <2>1. Ids(gotList)' = Ids(gotList)
    BY <1>2 DEF Ids, loading
  <2>2. ASSUME NEW x \in Ids(list') PROVE x \in Ids(list) \cup {h}
    <3>1. PICK i \in DOMAIN list' : x = list'[i].id
      BY <2>2 DEF Ids
    <3>2. CASE i = 1
      BY <1>9, <3>1, <3>2
    <3>3. CASE i # 1
      <4>1. i \in 2..Len(list) + 1 /\ i - 1 \in DOMAIN list
        BY <1>9, <3>3
      <4> QED  BY <1>9, <3>1, <4>1 DEF Ids
    <3> QED  BY <3>2, <3>3
  <2>3. ASSUME NEW x \in Ids(list) PROVE x \in Ids(list')
    <3>1. PICK i \in DOMAIN list : x = list[i].id
      BY <2>3 DEF Ids
    <3>2. i + 1 \in 2..Len(list) + 1 /\ i + 1 \in DOMAIN list' /\ (i + 1) - 1 = i
      BY <1>9
    <3>3. list'[i + 1] = list[i]
      BY <1>9, <3>2
    <3> QED  BY <3>1, <3>2, <3>3 DEF Ids
  <2>4. h \in Ids(list')
    <3>1. Len(list) \in Nat /\ DOMAIN list' = 1..Len(list) + 1 /\ list'[1].id = h
      BY <1>9, Zenon
    <3>2. 1 \in DOMAIN list'
      BY <3>1
    <3> QED  BY <3>1, <3>2 DEF Ids
  <2> QED  BY <2>1, <2>2, <2>3, <2>4
<1>11. Pushes'
  <2>1. \A i \in DOMAIN pushes' : pushes'[i] \in Noted /\ stage[pushes'[i]] = "done"
    BY <1>3 DEF Bell, Pushes
  <2>2. \A i, j \in DOMAIN pushes' : pushes'[i] = pushes'[j] => i = j
    BY <1>3, <1>4
  <2>3. Ids(list)' \cup Ids(gotList)' \subseteq Noted
    BY <1>6, <1>10 DEF Bell, Pushes
  <2>4. Noted # {}
    BY <1>6
  <2> QED  BY <1>2, <1>8, <2>1, <2>2, <2>3, <2>4 DEF Bell, Pushes, loading, calls
<1>12. Listing'
  <2>1. Way' \cap (Ids(list)' \cup Ids(gotList)') \subseteq doubled'
    BY <1>2, <1>7, <1>10 DEF Bell, Listing
  <2>2. ASSUME NEW i \in DOMAIN list', NEW j \in DOMAIN list', i # j,
               list'[i].id = list'[j].id
        PROVE  list'[i].id \in doubled
    <3>1. h \in Ids(list) => h \in doubled
      BY <1>7 DEF Bell, Listing
    <3>2. ASSUME NEW k \in DOMAIN list', k # 1
          PROVE  k - 1 \in DOMAIN list /\ list'[k] = list[k - 1]
      <4>1. k \in 2..Len(list) + 1 /\ k - 1 \in DOMAIN list
        BY <1>9, <3>2
      <4> QED  BY <1>9, <4>1
    <3>3. CASE i = 1
      <4>1. list'[j].id \in Ids(list)
        BY <2>2, <3>2, <3>3 DEF Ids
      <4> QED  BY <1>9, <2>2, <3>1, <3>3, <4>1
    <3>4. CASE j = 1
      <4>1. list'[i].id \in Ids(list)
        BY <2>2, <3>2, <3>4 DEF Ids
      <4> QED  BY <1>9, <2>2, <3>1, <3>4, <4>1
    <3>5. CASE i # 1 /\ j # 1
      <4>1. i - 1 \in DOMAIN list /\ j - 1 \in DOMAIN list /\ i - 1 # j - 1
            /\ list'[i] = list[i - 1] /\ list'[j] = list[j - 1]
        BY <1>9, <2>2, <3>2, <3>5
      <4> QED  BY <2>2, <4>1 DEF Bell, Listing, ListedOnce
    <3> QED  BY <3>3, <3>4, <3>5
  <2>3. ListedOnce'
    BY <1>2, <2>2 DEF ListedOnce
  <2> QED  BY <1>2, <2>1, <2>3 DEF Bell, Listing, loading
<1>13. Counting'
  <2>1. CASE drifted'
    BY <1>8, <2>1 DEF Bell, Counting
  <2>2. CASE ~drifted'
    <3>1. ~drifted /\ ~text /\ load # "set" /\ Answered = {}
      BY <1>2, <2>2 DEF Answered, PageTypes
    <3>0. count' = count + 1
      BY <1>2, <3>1 DEF OneOn
    <3>2. h \in UnreadNotes
      BY <1>6, <1>7, <3>1 DEF Bell, Counting, UnreadNotes
    <3>3. UnreadNotes' \ Way' = (UnreadNotes \ Way) \cup {h} /\ h \notin UnreadNotes \ Way
      BY <1>7, <1>8, <3>2
    <3>4. UnreadNotes \ Way \in SUBSET Handlers
      BY DEF UnreadNotes
    <3>5. /\ Cardinality(UnreadNotes' \ Way') = Cardinality(UnreadNotes \ Way) + 1
          /\ Cardinality(UnreadNotes \ Way) \in Nat /\ Cardinality(Answered) = 0
      <4>1. IsFiniteSet(UnreadNotes \ Way) /\ Cardinality(UnreadNotes \ Way) \in Nat
        BY <3>4, FewHandlers, FS_CardinalityType
      <4>2. Cardinality(UnreadNotes' \ Way') = Cardinality(UnreadNotes \ Way) + 1
        BY <3>3, <4>1, FS_AddElement
      <4>3. Cardinality(Answered) = 0
        BY <3>1, FS_EmptySet
      <4> QED  BY <4>1, <4>2, <4>3
    <3>6. load \in {"set", "idle"} => count = Cardinality(UnreadNotes \ Way)
      <4> SUFFICES ASSUME load \in {"set", "idle"} PROVE count = Cardinality(UnreadNotes \ Way)
        OBVIOUS
      <4>1. \/ count = Cardinality(UnreadNotes \ Way) + 0
            \/ count = 0 /\ UnreadNotes \subseteq Way
        BY <3>1, <3>5 DEF Bell, Counting, Shown
      <4>2. CASE UnreadNotes \subseteq Way
        <5>1. Cardinality(UnreadNotes \ Way) = 0
          <6>1. UnreadNotes \ Way = {}
            BY <4>2
          <6> QED  BY <6>1, FS_EmptySet
        <5> QED  BY <4>1, <5>1
      <4> QED  BY <3>5, <4>1, <4>2
    <3>7. load \in {"set", "idle"}
            => Shown' = Cardinality(UnreadNotes' \ Way') + Cardinality(Answered')
      BY <1>2, <1>8, <3>0, <3>1, <3>5, <3>6 DEF Shown, loading, PageTypes
    <3>8. \A g \in Way' : note'[g] = "unread"
      BY <1>2, <1>7, <3>1 DEF Bell, Counting
    <3> QED  BY <1>2, <1>8, <3>1, <3>7, <3>8 DEF Bell, Counting, loading
  <2> QED  BY <2>1, <2>2
<1> QED  BY <1>11, <1>12, <1>13 DEF Bell

\* The load reads the rows, those on their way among them.
LEMMA BellReadList ==
    ASSUME ServerTypes, SocketTypes, PageTypes, Stored, Bell, ReadList
    PROVE  Bell'
<1>1. /\ load = "list" /\ load' = "count"
      /\ UNCHANGED <<stage, note, pushes, online, gotCount, list, count, calls, drifted>>
      /\ doubled' = doubled \cup {h \in Handlers : note[h] # "none" /\ OnItsWay(h)}
  BY DEF ReadList, handling, socket
<1>2. PICK s : s = Rows /\ gotList' = [i \in DOMAIN s |-> Entry(s[i], note[s[i]] = "read")]
  BY DEF ReadList
<1>3. DOMAIN gotList' = DOMAIN s /\ \A i \in DOMAIN s : gotList'[i].id = s[i]
  BY <1>2, RowsListed
<1>4. (\A i \in DOMAIN s : s[i] \in Noted) /\ \A i, j \in DOMAIN s : s[i] = s[j] => i = j
  BY <1>2, RowsOnce
<1>5. /\ Ids(gotList)' \subseteq Noted
      /\ \A i, j \in DOMAIN gotList' : gotList'[i].id = gotList'[j].id => i = j
  BY <1>3, <1>4 DEF Ids
<1>6. Way' = Way /\ Noted' = Noted /\ UnreadNotes' = UnreadNotes /\ Answered' = Answered
      /\ Ids(list)' = Ids(list)
  BY <1>1 DEF Way, OnItsWay, Noted, UnreadNotes, Answered, Ids, Elements, calls
<1>7. Pushes'
  BY <1>1, <1>5, <1>6 DEF Bell, Pushes, calls
<1>8. Listing'
  <2>1. Way \cap Noted \subseteq doubled'
    BY <1>1 DEF Way, Noted
  <2>2. Way \cap Ids(list) \subseteq doubled' /\ ListedOnce'
    BY <1>1 DEF Bell, Listing, ListedOnce
  <2> QED  BY <1>5, <1>6, <2>1, <2>2 DEF Listing
<1>9. Counting'
  BY <1>1, <1>6 DEF Bell, Counting, calls
<1> QED  BY <1>7, <1>8, <1>9 DEF Bell

\* Then it counts those that are unread.
LEMMA BellReadCount ==
    ASSUME ServerTypes, SocketTypes, PageTypes, Bell, ReadCount
    PROVE  Bell'
<1>1. /\ load = "count" /\ load' = "set" /\ gotCount' = Cardinality(UnreadNotes)
      /\ UNCHANGED <<stage, note, pushes, online, gotList, list, count, calls, doubled>>
      /\ drifted' = (drifted \/ (\E h \in UnreadNotes : OnItsWay(h))
                             \/ (UnreadNotes # {} /\ \E c \in Clicks : click[c] = "answered"))
  BY DEF ReadCount, handling, socket
<1>2. Way' = Way /\ Noted' = Noted /\ UnreadNotes' = UnreadNotes /\ Answered' = Answered
      /\ Ids(list)' = Ids(list) /\ Ids(gotList)' = Ids(gotList)
  BY <1>1 DEF Way, OnItsWay, Noted, UnreadNotes, Answered, Ids, Elements, calls
<1>3. UnreadNotes \in SUBSET Handlers /\ Cardinality(UnreadNotes) \in Nat
        /\ IsFiniteSet(UnreadNotes)
  <2>1. UnreadNotes \in SUBSET Handlers
    BY DEF UnreadNotes
  <2> QED  BY <2>1, FewHandlers, FS_CardinalityType
<1>4. UnreadNotes \subseteq Noted
  BY DEF UnreadNotes, Noted
<1>5. Pushes'
  <2>1. UnreadNotes = {} => Cardinality(UnreadNotes) = 0
    BY FS_EmptySet
  <2>2. count' + gotCount' > 0 => Noted # {}
    BY <1>1, <1>3, <1>4, <2>1 DEF Bell, Pushes, SocketTypes, PageTypes
  <2> QED  BY <1>1, <1>2, <2>2 DEF Bell, Pushes, calls
<1>6. Listing'
  BY <1>1, <1>2 DEF Bell, Listing, ListedOnce
<1>7. Counting'
  <2>1. CASE drifted'
    BY <1>2, <2>1 DEF Bell, Counting
  <2>2. CASE ~drifted'
    <3>1. ~drifted /\ UnreadNotes \ Way = UnreadNotes
      BY <1>1, <1>3, <2>2 DEF Way, PageTypes
    <3>2. Shown' = Cardinality(UnreadNotes)
      BY <1>1 DEF Shown
    <3>3. CASE UnreadNotes = {}
      <4>1. Cardinality(UnreadNotes) = 0
        BY <3>3, FS_EmptySet
      <4> QED  BY <1>1, <1>2, <3>1, <3>2, <3>3, <4>1 DEF Bell, Counting, calls
    <3>4. CASE UnreadNotes # {}
      <4>1. Answered = {}
        BY <1>1, <2>2, <3>4 DEF Answered, PageTypes
      <4>2. Cardinality(Answered) = 0
        BY <4>1, FS_EmptySet
      <4>3. UnreadNotes' \ Way' = UnreadNotes /\ Answered' = {}
        BY <1>2, <3>1, <4>1
      <4>4. /\ Cardinality(UnreadNotes' \ Way') = Cardinality(UnreadNotes)
            /\ Cardinality(Answered') = 0
        BY <4>1, <4>2, <4>3
      <4>5. Shown' = Cardinality(UnreadNotes' \ Way') + Cardinality(Answered')
        BY <1>3, <3>2, <4>4
      <4> QED  BY <1>1, <1>2, <3>1, <4>1, <4>5 DEF Bell, Counting
    <3> QED  BY <3>3, <3>4
  <2> QED  BY <2>1, <2>2
<1> QED  BY <1>5, <1>6, <1>7 DEF Bell

\* Both are set at once.
LEMMA BellSetBoth ==
    ASSUME ServerTypes, SocketTypes, PageTypes, Bell, SetBoth
    PROVE  Bell'
<1>1. /\ load = "set" /\ load' = "idle" /\ list' = gotList /\ count' = gotCount
      /\ gotList' = <<>> /\ gotCount' = 0
      /\ UNCHANGED <<stage, note, pushes, online, calls, doubled, drifted>>
  BY DEF SetBoth, handling, socket, noteHistory
<1>2. Way' = Way /\ Noted' = Noted /\ UnreadNotes' = UnreadNotes /\ Answered' = Answered
  BY <1>1 DEF Way, OnItsWay, Noted, UnreadNotes, Answered, Elements, calls
<1>3. Ids(list)' = Ids(gotList) /\ Ids(gotList)' = {}
  BY <1>1 DEF Ids
<1>4. Pushes'
  <2>1. count' + gotCount' > 0 => Noted # {}
    BY <1>1 DEF Bell, Pushes, SocketTypes, PageTypes
  <2> QED  BY <1>1, <1>2, <1>3, <2>1 DEF Bell, Pushes, calls
<1>5. Listing'
  <2>1. ListedOnce'
    BY <1>1 DEF Bell, Listing, ListedOnce
  <2> QED  BY <1>1, <1>2, <1>3, <2>1 DEF Bell, Listing
<1>6. Counting'
  <2>1. Shown' = Shown
    BY <1>1 DEF Shown
  <2> QED  BY <1>1, <1>2, <2>1 DEF Bell, Counting, calls
<1> QED  BY <1>4, <1>5, <1>6 DEF Bell

\* A load that fails leaves the page as it is, right only if there was nothing to load.
LEMMA BellLoadFails ==
    ASSUME ServerTypes, SocketTypes, PageTypes, Bell, LoadBreaks
    PROVE  Bell'
<1>1. /\ load' = "idle" /\ gotList' = <<>> /\ gotCount' = 0
      /\ UNCHANGED <<stage, note, pushes, online, list, count, calls, doubled>>
      /\ drifted' = (drifted \/ \E h \in Handlers : note[h] # "none")
  BY DEF LoadBreaks, handling, socket
<1>2. Way' = Way /\ Noted' = Noted /\ UnreadNotes' = UnreadNotes /\ Answered' = Answered
      /\ Ids(list)' = Ids(list)
  BY <1>1 DEF Way, OnItsWay, Noted, UnreadNotes, Answered, Ids, Elements, calls
<1>3. Ids(gotList)' = {}
  BY <1>1 DEF Ids
<1>4. Pushes'
  <2>1. count' + gotCount' > 0 => Noted # {}
    <3>1. gotCount \in Nat
      BY NotificationsAssumption, FS_CardinalityType DEF SocketTypes
    <3> QED  BY <1>1, <3>1 DEF Bell, Pushes, PageTypes
  <2> QED  BY <1>1, <1>2, <1>3, <2>1 DEF Bell, Pushes, calls
<1>5. Listing'
  BY <1>1, <1>2, <1>3 DEF Bell, Listing, ListedOnce
<1>6. Counting'
  <2>1. CASE drifted'
    BY <1>2, <2>1 DEF Bell, Counting
  <2>2. CASE ~drifted'
    <3>1. ~drifted /\ Noted = {}
      BY <1>1, <2>2 DEF Noted, PageTypes
    <3>2. UnreadNotes = {} /\ Answered = {} /\ Way = {}
      <4>1. Way \subseteq Noted
        BY DEF Bell, Pushes, Way, OnItsWay, Elements, Noted
      <4> QED  BY <3>1, <4>1 DEF UnreadNotes, Answered, Noted, Bell, Pushes
    <3>3. gotCount \in Nat /\ count \in Nat /\ ~(count + gotCount > 0)
      BY <3>1, NotificationsAssumption, FS_CardinalityType DEF Bell, Pushes, SocketTypes,
         PageTypes
    <3>4. Shown' = 0
      BY <1>1, <3>3 DEF Shown
    <3> QED  BY <1>1, <1>2, <3>1, <3>2, <3>4 DEF Bell, Counting, calls
  <2> QED  BY <2>1, <2>2
<1> QED  BY <1>4, <1>5, <1>6 DEF Bell

\* A call of markAsRead or markAllAsRead begins: something is listed or counted.
LEMMA BellBegin ==
    ASSUME ServerTypes, PageTypes, Bell, NEW c \in Clicks, NEW x, BeginClick(c, x),
           x # Nothing => x \in Ids(list), Noted # {}
    PROVE  Bell'
<1>1. /\ click[c] = "idle" /\ click'[c] = "sent" /\ target'[c] = x
      /\ \A d \in Clicks \ {c} : click'[d] = click[d] /\ target'[d] = target[d]
      /\ UNCHANGED <<stage, note, pushes, online, loading, list, count, doubled, drifted>>
  BY DEF BeginClick, PageTypes, handling, socket, noteHistory
<1>2. Way' = Way /\ Noted' = Noted /\ UnreadNotes' = UnreadNotes /\ Answered' = Answered
      /\ Ids(list)' = Ids(list) /\ Ids(gotList)' = Ids(gotList)
  BY <1>1 DEF Way, OnItsWay, Noted, UnreadNotes, Answered, Ids, Elements, loading
<1>3. Pushes'
  <2>1. x # Nothing => x \in Noted
    BY DEF Bell, Pushes
  <2> QED  BY <1>1, <1>2, <2>1 DEF Bell, Pushes, loading
<1>4. Listing'
  BY <1>1, <1>2 DEF Bell, Listing, ListedOnce, loading
<1>5. Counting'
  <2>1. \A d \in Answered : target'[d] = target[d]
    BY <1>1 DEF Answered
  <2> QED  BY <1>1, <1>2, <2>1 DEF Bell, Counting, Shown, loading
<1> QED  BY <1>3, <1>4, <1>5 DEF Bell

\* The UPDATE: a row that was unread and had come counts for one call more.
LEMMA BellMark ==
    ASSUME ServerTypes, PageTypes, Bell, NEW c \in Clicks, MarkRead(c)
    PROVE  Bell'
<1>1. /\ click[c] = "sent" /\ click'[c] = "answered"
      /\ \A d \in Clicks \ {c} : click'[d] = click[d]
      /\ UNCHANGED <<stage, pushes, online, loading, list, count, target, doubled>>
  BY DEF MarkRead, PageTypes, socket
<1>2. \A h \in Handlers : note'[h] # "none" <=> note[h] # "none"
  <2>1. CASE target[c] = Nothing
    BY <2>1 DEF MarkRead
  <2>2. CASE target[c] # Nothing
    <3>1. target[c] \in Noted
      BY <2>2 DEF Bell, Pushes
    <3> QED  BY <2>2, <3>1 DEF MarkRead, ServerTypes, Noted
  <2> QED  BY <2>1, <2>2
<1>3. /\ Way' = Way /\ Noted' = Noted /\ Answered' = Answered \cup {c} /\ c \notin Answered
      /\ Ids(list)' = Ids(list) /\ Ids(gotList)' = Ids(gotList)
  BY <1>1, <1>2 DEF Way, OnItsWay, Noted, Answered, Ids, Elements, loading
<1>4. Pushes'
  <2>1. Noted # {}
    BY <1>1 DEF Bell, Pushes
  <2> QED  BY <1>1, <1>2, <1>3, <2>1 DEF Bell, Pushes, loading
<1>5. Listing'
  BY <1>1, <1>3 DEF Bell, Listing, ListedOnce, loading
<1>6. IsFiniteSet(Answered') /\ Cardinality(Answered') = Cardinality(Answered) + 1
      /\ Cardinality(Answered) \in Nat
  BY <1>3, FS_AddElement, FS_CardinalityType DEF Bell, Counting
<1>7. ASSUME ~drifted'
      PROVE  /\ \A h \in Way' : note'[h] = "unread"
             /\ \A a, d \in Answered' : target'[a] = Nothing => a = d
             /\ \A d \in Answered' : target'[d] = Nothing => UnreadNotes' \subseteq Way'
             /\ load' \in {"set", "idle"} /\ (\A d \in Answered' : target'[d] # Nothing)
                   => Shown' = Cardinality(UnreadNotes' \ Way') + Cardinality(Answered')
  <2>1. CASE target[c] = Nothing
    <3>1. /\ note' = [h \in Handlers |-> IF note[h] = "none" THEN "none" ELSE "read"]
          /\ ~drifted /\ \A h \in Handlers : note[h] = "none" \/ ~OnItsWay(h)
          /\ \A d \in Clicks \ {c} : click[d] # "answered"
      BY <1>7, <2>1 DEF MarkRead, PageTypes
    <3>2. UnreadNotes' = {} /\ Answered' = {c}
      BY <1>3, <3>1 DEF UnreadNotes, Answered
    <3>3. Way = {}
      <4>1. Way \subseteq Noted
        BY DEF Bell, Pushes, Way, OnItsWay, Elements, Noted
      <4> QED  BY <3>1, <4>1 DEF Way, Noted
    <3> QED  BY <1>1, <1>3, <2>1, <3>2, <3>3
  <2>2. CASE target[c] # Nothing
    <3>1. PICK h \in Handlers : h = target[c]
      BY <2>2 DEF PageTypes
    <3>2. /\ note' = [note EXCEPT ![h] = "read"] /\ ~drifted
          /\ note[h] # "read" /\ ~OnItsWay(h)
      BY <1>7, <2>2, <3>1 DEF MarkRead, PageTypes
    <3>3. h \in UnreadNotes \ Way
      BY <2>2, <3>1, <3>2 DEF Bell, Pushes, Noted, UnreadNotes, Way, ServerTypes
    <3>4. UnreadNotes' = UnreadNotes \ {h}
      BY <3>2 DEF UnreadNotes, ServerTypes
    <3>5. \A d \in Answered : target[d] # Nothing
      BY <3>2, <3>3 DEF Bell, Counting
    <3>6. \A g \in Way : note'[g] = "unread"
      <4>1. \A g \in Way : note[g] = "unread" /\ g # h /\ g \in Handlers
        BY <3>2, <3>3 DEF Bell, Counting, Way
      <4> QED  BY <3>2, <4>1 DEF ServerTypes
    <3>7. UnreadNotes' \ Way' = (UnreadNotes \ Way) \ {h}
      BY <1>3, <3>4
    <3>8. /\ Cardinality(UnreadNotes' \ Way') = Cardinality(UnreadNotes \ Way) - 1
          /\ Cardinality(UnreadNotes \ Way) \in Nat
      <4>1. UnreadNotes \ Way \in SUBSET Handlers
        BY DEF UnreadNotes
      <4>2. IsFiniteSet(UnreadNotes \ Way) /\ Cardinality(UnreadNotes \ Way) \in Nat
        BY <4>1, FewHandlers, FS_CardinalityType
      <4> QED  BY <3>3, <3>7, <4>2, FS_RemoveElement
    <3>9. load \in {"set", "idle"}
            => Shown = Cardinality(UnreadNotes \ Way) + Cardinality(Answered)
      BY <3>2, <3>3, <3>5 DEF Bell, Counting
    <3>10. Shown' = Shown /\ load' = load
      BY <1>1 DEF Shown, loading
    <3>11. load' \in {"set", "idle"}
             => Shown' = Cardinality(UnreadNotes' \ Way') + Cardinality(Answered')
      BY <1>6, <3>8, <3>9, <3>10
    <3> QED  BY <1>1, <1>3, <2>2, <3>5, <3>6, <3>11
  <2> QED  BY <2>1, <2>2
<1>8. Counting'
  BY <1>6, <1>7 DEF Counting
<1> QED  BY <1>4, <1>5, <1>8 DEF Bell

\* The call ends: the answer takes one off the count, or all.
LEMMA BellMarked ==
    ASSUME ServerTypes, PageTypes, Bell, NEW c \in Clicks, Marked(c)
    PROVE  Bell'
<1>1. /\ click[c] = "answered" /\ click'[c] = "idle" /\ target'[c] = Nothing
      /\ \A d \in Clicks \ {c} : click'[d] = click[d] /\ target'[d] = target[d]
      /\ UNCHANGED <<stage, note, pushes, online, loading, doubled>>
      /\ drifted' = (drifted \/ load = "set")
      /\ count' = IF target[c] = Nothing THEN 0 ELSE OneOff(count)
  BY DEF Marked, EndClick, PageTypes, handling, socket
<1>2. DOMAIN list' = DOMAIN list /\ \A i \in DOMAIN list : list'[i].id = list[i].id
  BY ListMarked
<1>3. /\ Way' = Way /\ Noted' = Noted /\ UnreadNotes' = UnreadNotes
      /\ Answered' = Answered \ {c} /\ c \in Answered
      /\ Ids(list)' = Ids(list) /\ Ids(gotList)' = Ids(gotList)
  BY <1>1, <1>2 DEF Way, OnItsWay, Noted, UnreadNotes, Answered, Ids, Elements, loading
<1>4. Pushes'
  <2>1. Noted # {}
    BY <1>1 DEF Bell, Pushes
  <2> QED  BY <1>1, <1>3, <2>1 DEF Bell, Pushes, loading
<1>5. Listing'
  BY <1>1, <1>2, <1>3 DEF Bell, Listing, ListedOnce, loading
<1>6. /\ IsFiniteSet(Answered') /\ Cardinality(Answered') = Cardinality(Answered) - 1
      /\ Cardinality(Answered) \in Nat /\ Cardinality(Answered') \in Nat
  BY <1>3, FS_RemoveElement, FS_CardinalityType DEF Bell, Counting
<1>7. Cardinality(UnreadNotes \ Way) \in Nat
  <2>1. UnreadNotes \ Way \in SUBSET Handlers
    BY DEF UnreadNotes
  <2> QED  BY <2>1, FewHandlers, FS_CardinalityType
<1>8. ASSUME ~drifted'
      PROVE  /\ ~drifted
             /\ load' \in {"set", "idle"} /\ (\A d \in Answered' : target'[d] # Nothing)
                   => \/ Shown' = Cardinality(UnreadNotes' \ Way') + Cardinality(Answered')
                      \/ Shown' = 0 /\ UnreadNotes' \subseteq Way'
  <2>1. ~drifted /\ load # "set" /\ load' = load
    BY <1>1, <1>8 DEF PageTypes, loading
  <2>2. CASE target[c] = Nothing
    <3>1. count' = 0 /\ UnreadNotes \subseteq Way
      BY <1>1, <1>3, <2>1, <2>2 DEF Bell, Counting
    <3> QED  BY <1>3, <2>1, <3>1 DEF Shown
  <2>3. CASE target[c] # Nothing
    <3>1. count' = IF count > 0 THEN count - 1 ELSE 0
      BY <1>1, <2>3 DEF OneOff
    <3>2. ASSUME \A d \in Answered' : target'[d] # Nothing
          PROVE \A d \in Answered : target[d] # Nothing
      BY <1>1, <1>3, <2>3, <3>2 DEF Answered
    <3>3. ASSUME load' \in {"set", "idle"}, \A d \in Answered' : target'[d] # Nothing
          PROVE  \/ count' = Cardinality(UnreadNotes \ Way) + Cardinality(Answered')
                 \/ count' = 0 /\ UnreadNotes \subseteq Way
      <4>1. \/ count = Cardinality(UnreadNotes \ Way) + Cardinality(Answered)
            \/ count = 0 /\ UnreadNotes \subseteq Way
        BY <2>1, <3>2, <3>3 DEF Bell, Counting, Shown
      <4> QED  BY <1>6, <1>7, <3>1, <4>1
    <3> QED  BY <1>3, <2>1, <3>3 DEF Shown
  <2> QED  BY <2>2, <2>3
<1>9. Counting'
  <2>1. \A d \in Answered' : target'[d] = target[d] /\ d \in Answered
    BY <1>1, <1>3 DEF Answered
  <2> QED  BY <1>1, <1>3, <1>6, <1>8, <2>1 DEF Bell, Counting
<1> QED  BY <1>4, <1>5, <1>9 DEF Bell

\* It fails, after the UPDATE or before.
LEMMA BellMarkFails ==
    ASSUME ServerTypes, PageTypes, Bell, NEW c \in Clicks, MarkFails(c)
    PROVE  Bell'
<1>1. /\ click'[c] = "idle" /\ target'[c] = Nothing
      /\ \A d \in Clicks \ {c} : click'[d] = click[d] /\ target'[d] = target[d]
      /\ UNCHANGED <<stage, note, pushes, online, loading, list, count, doubled>>
      /\ drifted' = (drifted \/ click[c] = "answered")
  BY DEF MarkFails, EndClick, PageTypes, handling, socket
<1>2. /\ Way' = Way /\ Noted' = Noted /\ UnreadNotes' = UnreadNotes
      /\ Answered' = Answered \ {c}
      /\ Ids(list)' = Ids(list) /\ Ids(gotList)' = Ids(gotList)
  BY <1>1 DEF Way, OnItsWay, Noted, UnreadNotes, Answered, Ids, Elements, loading
<1>3. Pushes'
  BY <1>1, <1>2 DEF Bell, Pushes, loading
<1>4. Listing'
  BY <1>1, <1>2 DEF Bell, Listing, ListedOnce, loading
<1>5. IsFiniteSet(Answered')
  BY <1>2, FS_RemoveElement DEF Bell, Counting
<1>6. CASE drifted'
  BY <1>3, <1>4, <1>5, <1>6 DEF Bell, Counting
<1>7. CASE ~drifted'
  <2>1. ~drifted /\ Answered' = Answered /\ c \notin Answered
    BY <1>1, <1>2, <1>7 DEF Answered, PageTypes
  <2>2. \A d \in Answered : target'[d] = target[d]
    BY <1>1, <2>1 DEF Answered
  <2>3. Shown' = Shown /\ load' = load
    BY <1>1 DEF Shown, loading
  <2>4. Counting'
    BY <1>1, <1>2, <1>5, <2>1, <2>2, <2>3 DEF Bell, Counting
  <2> QED  BY <1>3, <1>4, <2>4 DEF Bell
<1> QED  BY <1>6, <1>7

\* Every step keeps them.
LEMMA BellStep ==
    NoteTypeOK /\ Conversations /\ Stored /\ Bell /\ [NoteNext]_noteVars => Bell'
<1> SUFFICES ASSUME ServerTypes, SocketTypes, PageTypes, Conversations, Stored, Bell,
                    [NoteNext]_noteVars
             PROVE  Bell'
  BY Types
<1>1. ASSUME NEW h \in Handlers,
             (\E u \in Callers[h] : Book(h, u)) \/ Notify(h) \/ Find(h) \/ Create(h)
      PROVE  Bell'
  <2>1. /\ UNCHANGED <<note, pushes, online, loading, list, count, calls, doubled, drifted>>
        /\ stage[h] \notin {"emit", "done", "failed"} /\ stage'[h] # "emit"
        /\ \A g \in Handlers \ {h} : stage'[g] = stage[g]
    <3>1. CASE \E u \in Callers[h] : Book(h, u)
      BY <3>1, GotoOne DEF Book, socket, noteHistory
    <3>2. CASE Notify(h)
      BY <3>2, GotoOne DEF Notify, socket, noteHistory
    <3>3. CASE Find(h)
      BY <3>3, GotoOne DEF Find, socket
    <3>4. CASE Create(h)
      <4>1. CASE stage[h] = "conversation"
        BY <3>4, <4>1, GotoOne DEF Create, socket, noteHistory
      <4>2. CASE stage[h] = "member1"
        BY <3>4, <4>2, GotoOne DEF Create, socket, noteHistory
      <4>3. CASE stage[h] = "member2"
        BY <3>4, <4>3, GotoOne DEF Create, socket, noteHistory
      <4> QED  BY <3>4, <4>1, <4>2, <4>3 DEF Create, Creating
    <3> QED  BY <1>1, <3>1, <3>2, <3>3, <3>4
  <2>2. note[h] = "none"
    BY <2>1 DEF Bell, Pushes
  <2> QED  BY <2>1, <2>2, BellKept
<1>2. ASSUME NEW h \in Handlers, Store(h) \/ Emit(h) \/ Fail(h) PROVE Bell'
  BY <1>2, BellStore, BellEmit, BellFail
<1>3. CASE Disconnect \/ ReceivePush \/ ReadList \/ ReadCount \/ SetBoth \/ LoadBreaks
  BY <1>3, BellCut, BellReceive, BellReadList, BellReadCount, BellSetBoth, BellLoadFails
<1>4. CASE Reconnect
  <2>1. /\ online'
        /\ UNCHANGED <<stage, note, pushes, loading, list, count, calls, doubled, drifted>>
    BY <1>4 DEF Reconnect, handling, noteHistory
  <2>2. Way' = Way /\ Noted' = Noted /\ UnreadNotes' = UnreadNotes /\ Answered' = Answered
        /\ Ids(list)' = Ids(list) /\ Ids(gotList)' = Ids(gotList)
    BY <2>1 DEF Way, OnItsWay, Noted, UnreadNotes, Answered, Ids, Elements, loading, calls
  <2>3. Pushes'
    BY <2>1, <2>2 DEF Bell, Pushes, loading, calls
  <2>4. Listing'
    BY <2>1, <2>2 DEF Bell, Listing, ListedOnce, loading
  <2>5. Counting'
    BY <2>1, <2>2 DEF Bell, Counting, Shown, loading, calls
  <2> QED  BY <2>3, <2>4, <2>5 DEF Bell
<1>5. ASSUME NEW c \in Clicks, NEW h \in Handlers, ClickNote(c, h) PROVE Bell'
  <2>1. h \in Ids(list) /\ BeginClick(c, h)
    BY <1>5 DEF ClickNote, Ids, Elements
  <2>2. Noted # {}
    BY <2>1 DEF Bell, Pushes
  <2> QED  BY <2>1, <2>2, BellBegin
<1>6. ASSUME NEW c \in Clicks, ClickAll(c) PROVE Bell'
  <2>1. Noted # {}
    BY <1>6, NotificationsAssumption, FS_CardinalityType
       DEF ClickAll, Bell, Pushes, SocketTypes, PageTypes
  <2>2. BeginClick(c, Nothing)
    BY <1>6 DEF ClickAll
  <2> QED  BY <2>1, <2>2, BellBegin
<1>7. ASSUME NEW c \in Clicks, MarkRead(c) \/ Marked(c) \/ MarkFails(c) PROVE Bell'
  BY <1>7, BellMark, BellMarked, BellMarkFails
<1>8. CASE UNCHANGED noteVars
  BY <1>8, BellKept DEF noteVars, handling, socket, noteHistory
<1> QED
  BY <1>1, <1>2, <1>3, <1>4, <1>5, <1>6, <1>7, <1>8 DEF NoteNext

\* A row is stored once, and stays.
LEMMA StoredStep ==
    ServerTypes /\ Bell /\ Stored /\ [NoteNext]_noteVars => Stored'
<1> SUFFICES ASSUME ServerTypes, Bell, Stored, [NoteNext]_noteVars PROVE Stored'
  OBVIOUS
<1>1. ASSUME newest' = newest, \A h \in Handlers : note[h] # "none" => note'[h] # "none"
      PROVE  Stored'
  BY <1>1 DEF Stored, Noted
<1>2. ASSUME NEW h \in Handlers, Store(h) PROVE Stored'
  <2>1. /\ newest' = <<h>> \o newest /\ note'[h] # "none" /\ h \notin Noted
        /\ \A g \in Handlers \ {h} : note'[g] = note[g]
    BY <1>2 DEF Store, ServerTypes, Bell, Pushes, Noted
  <2>2. Noted' = Noted \cup {h}
    BY <2>1 DEF Noted
  <2>3. /\ newest' \in Seq(Handlers) /\ Len(newest) \in Nat /\ DOMAIN newest = 1..Len(newest)
        /\ DOMAIN newest' = 1..Len(newest) + 1 /\ newest'[1] = h
        /\ \A i \in 2..Len(newest) + 1 : newest'[i] = newest[i - 1]
    BY <2>1, FirstAdded DEF Stored
  <2>4. ASSUME NEW i \in DOMAIN newest', i # 1
        PROVE  i - 1 \in DOMAIN newest /\ newest'[i] = newest[i - 1]
    <3>1. i \in 2..Len(newest) + 1 /\ i - 1 \in DOMAIN newest
      BY <2>3, <2>4
    <3> QED  BY <2>3, <3>1
  <2>5. \A i \in DOMAIN newest' : newest'[i] \in Noted' /\ (i # 1 => newest'[i] # h)
    BY <2>1, <2>2, <2>3, <2>4 DEF Stored
  <2>6. \A i, j \in DOMAIN newest' : newest'[i] = newest'[j] => i = j
    <3> SUFFICES ASSUME NEW i \in DOMAIN newest', NEW j \in DOMAIN newest',
                        newest'[i] = newest'[j]
                 PROVE  i = j
      OBVIOUS
    <3>1. CASE i = 1 \/ j = 1
      BY <2>3, <2>5, <3>1
    <3>2. CASE i # 1 /\ j # 1
      <4>1. /\ i - 1 \in DOMAIN newest /\ j - 1 \in DOMAIN newest
            /\ newest[i - 1] = newest[j - 1]
        BY <2>4, <3>2
      <4>2. i - 1 = j - 1
        BY <4>1 DEF Stored
      <4> QED  BY <2>3, <4>2
    <3> QED  BY <3>1, <3>2
  <2> QED  BY <2>3, <2>5, <2>6 DEF Stored
<1>3. ASSUME NEW h \in Handlers,
             (\E u \in Callers[h] : Book(h, u)) \/ Notify(h) \/ Find(h) \/ Create(h)
             \/ Emit(h) \/ Fail(h)
      PROVE  Stored'
  BY <1>1, <1>3 DEF Book, Notify, Find, Create, Emit, Fail
<1>4. CASE \/ Disconnect \/ Reconnect \/ ReceivePush
           \/ ReadList \/ ReadCount \/ SetBoth \/ LoadBreaks
  BY <1>1, <1>4 DEF Disconnect, Reconnect, ReceivePush, ReadList, ReadCount, SetBoth,
     LoadBreaks, handling
<1>5. ASSUME NEW c \in Clicks, MarkRead(c) PROVE Stored'
  <2>1. newest' = newest
    BY <1>5 DEF MarkRead
  <2>2. ASSUME NEW h \in Handlers, note[h] # "none" PROVE note'[h] # "none"
    <3>1. CASE target[c] = Nothing
      BY <1>5, <2>2, <3>1 DEF MarkRead
    <3>2. CASE target[c] # Nothing
      BY <1>5, <2>2, <3>2 DEF MarkRead, ServerTypes
    <3> QED  BY <3>1, <3>2
  <2> QED  BY <1>1, <2>1, <2>2
<1>6. ASSUME NEW c \in Clicks,
             \/ \E h \in Handlers : ClickNote(c, h)
             \/ ClickAll(c) \/ Marked(c) \/ MarkFails(c)
      PROVE  Stored'
  BY <1>1, <1>6 DEF ClickNote, ClickAll, BeginClick, Marked, MarkFails, handling
<1>7. CASE UNCHANGED noteVars
  BY <1>1, <1>7 DEF noteVars, handling
<1> QED
  BY <1>2, <1>3, <1>4, <1>5, <1>6, <1>7 DEF NoteNext

-----------------------------------------------------------------------------
(* The theorems                                                            *)

BellInv == NoteTypeOK /\ Conversations /\ Stored /\ Bell

\* Nothing is stored, listed or under way at first.
LEMMA BellInitInv == NoteInit => BellInv
<1> SUFFICES ASSUME NoteInit PROVE BellInv
  OBVIOUS
<1>1. ServerTypes
  BY DEF NoteInit, ServerTypes, Steps
<1>2. SocketTypes
  <2>1. Cardinality(Handlers) \in Nat
    BY NotificationsAssumption, FS_CardinalityType
  <2>2. <<>> \in Seq(Handlers) /\ <<>> \in Seq([id : Handlers, read : BOOLEAN])
    OBVIOUS
  <2> QED  BY <2>1, <2>2, NotificationsAssumption DEF NoteInit, SocketTypes
<1>3. PageTypes
  <2>1. <<>> \in Seq([id : Handlers, read : BOOLEAN])
    OBVIOUS
  <2> QED  BY <2>1 DEF NoteInit, PageTypes
<1>4. Conversations
  BY DEF NoteInit, Conversations, MembersOf, CreatesAlone, Creating, OneConversation
<1>0. Stored
  BY DEF NoteInit, Stored
<1>5. /\ DOMAIN pushes = {} /\ DOMAIN list = {} /\ DOMAIN gotList = {}
  BY DEF NoteInit
<1>6. Way = {} /\ Answered = {} /\ UnreadNotes = {} /\ Ids(list) = {} /\ Ids(gotList) = {}
  BY <1>5 DEF NoteInit, Way, OnItsWay, Elements, Answered, UnreadNotes, Ids
<1>7. Pushes
  BY <1>5, <1>6 DEF NoteInit, Pushes
<1>8. Listing
  BY <1>5, <1>6 DEF Listing, ListedOnce
<1>9. Counting
  <2>1. IsFiniteSet({}) /\ Cardinality({}) = 0
    BY FS_EmptySet
  <2> QED  BY <1>6, <2>1 DEF NoteInit, Counting
<1> QED  BY <1>0, <1>1, <1>2, <1>3, <1>4, <1>7, <1>8, <1>9, Types DEF BellInv, Bell, Stored

THEOREM BellCorrect == NoteSpec => []BellInv
<1>1. BellInv /\ [NoteNext]_noteVars => BellInv'
  <2> SUFFICES ASSUME BellInv, [NoteNext]_noteVars PROVE BellInv'
    OBVIOUS
  <2>1. ServerTypes' /\ SocketTypes' /\ PageTypes'
    BY Types, ServerTypedStep, SocketTypedStep, BellPageTyped DEF BellInv
  <2>2. Conversations' /\ Stored' /\ Bell'
    BY Types, ConversationsStep, StoredStep, BellStep DEF BellInv
  <2>3. NoteTypeOK'
    BY <2>1, <2>2 DEF NoteTypeOK, ServerTypes, SocketTypes, PageTypes, Steps, Stored
  <2> QED  BY <2>2, <2>3 DEF BellInv
<1> QED  BY BellInitInv, <1>1, PTL DEF NoteSpec

\* Two users have one conversation, however many bookings look for it and create it, unless
\* two looked at the same time or a creation failed.
THEOREM OneConversationForTwo == NoteSpec => []OneConversation
<1>1. BellInv => OneConversation
  BY DEF BellInv, Conversations
<1> QED  BY <1>1, BellCorrect, PTL

\* Whatever the order in which pushes, loads and calls that mark reach the page, the bell
\* lists a notification once and counts the unread rows, but for the races it names.
THEOREM TheBellIsRight == NoteSpec => []BellIsRight
<1>1. BellInv => BellIsRight
  <2> SUFFICES ASSUME BellInv, Quiet, ~drifted PROVE count = Cardinality(UnreadNotes)
    BY DEF BellInv, Bell, Listing, BellIsRight, BadgeCountsUnread
  <2>1. load = "idle" /\ Way = {} /\ Answered = {}
    BY DEF Quiet, Way, OnItsWay, Elements, Answered
  <2>2. UnreadNotes \ Way = UnreadNotes /\ Cardinality(Answered) = 0
    BY <2>1, FS_EmptySet
  <2>3. Cardinality(UnreadNotes) \in Nat
          /\ (UnreadNotes \subseteq Way => Cardinality(UnreadNotes) = 0)
    <3>1. UnreadNotes \in SUBSET Handlers
      BY DEF UnreadNotes
    <3>2. UnreadNotes \subseteq Way => UnreadNotes = {}
      BY <2>1
    <3> QED  BY <3>1, <3>2, FewHandlers, FS_CardinalityType, FS_EmptySet
  <2> QED  BY <2>1, <2>2, <2>3 DEF BellInv, Bell, Counting, Shown
<1> QED  BY <1>1, BellCorrect, PTL
===============================================================================
