---------------------------- MODULE SessionsProofs ----------------------------
(***************************************************************************)
(* Proofs about Sessions for any sessions of any tiers and any number of   *)
(* closings in flight.                                                     *)
(***************************************************************************)
EXTENDS Sessions, TLAPS

(* The account closes once, so one call revokes, and it has come through    *)
(* the gate.                                                               *)
OneRevoker ==
  \A c, x \in Calls : pc[c] \in Revoking /\ pc[x] \in Revoking => c = x

RevokesClosed == \A c \in Calls : pc[c] \in Revoking => account = "closed"

OwnCaller ==
  \A c \in Calls :
    /\ header[c] \in used \cup {None}
    /\ pc[c] \in Revoking \cup {"close"} => header[c] \in Accesses \ Foreign

(* A session alive names an access session of this tier, and what a call is *)
(* about to delete was named that way.                                     *)
OwnKeys ==
  /\ Foreign \subseteq used
  /\ \A s \in refresh : accessKey[s] \in (used \cap Accesses) \ Foreign
  /\ \A c \in Calls : keys[c] \cap Foreign = {}

(* The index misses no session before the closing, and none of those alive  *)
(* at the closing before the revocation has read it.                       *)
IndexKnows ==
  /\ account = "open" => refresh \subseteq index
  /\ \A c \in Calls : pc[c] = "readIndex" => doomed \cap refresh \subseteq index

(* From there on the call knows of all of them; a pass has behind it only    *)
(* sessions that are dead, and a session's key is never minted again.      *)
Pass(c) ==
  /\ pc[c] \in Revoking \ {"readIndex"} => doomed \cap refresh \subseteq fields[c]
  /\ pc[c] = "readKeys" => todo[c] \subseteq fields[c]
  /\ pc[c] = "delAccess" => todo[c] = fields[c]
  /\ pc[c] = "delRefresh" => todo[c] \subseteq fields[c] /\ fields[c] \cap refresh \subseteq todo[c]

(* An access session to be ended is the caller's, is noted, or is named by a *)
(* refresh session that the call has still to ask.                         *)
Noted(c) ==
  pc[c] \in Revoking =>
    \A a \in doomed \cap access :
      \/ a = header[c]
      \/ pc[c] \in {"readKeys", "delAccess"} /\ a \in keys[c]
      \/ pc[c] = "readIndex" /\ \E s \in doomed \cap refresh : accessKey[s] = a
      \/ pc[c] = "readKeys" /\ \E s \in todo[c] \cap refresh : accessKey[s] = a

SessionsInv ==
  /\ TypeOK
  /\ OneRevoker
  /\ RevokesClosed
  /\ OwnCaller
  /\ OwnKeys
  /\ IndexKnows
  /\ \A c \in Calls : Pass(c) /\ Noted(c)
  /\ SafeResidue
  /\ ClosedMeansOut

(* A session minted now is filed in the index, and is none that a closing   *)
(* has seen: tokens are never minted twice.                                *)
LEMMA SignInKeeps ==
  ASSUME SessionsInv, NEW s \in Refreshes, NEW a \in Accesses, SignIn(s, a)
  PROVE  SessionsInv'
<1>1. TypeOK'
  BY DEF SessionsInv, TypeOK, SignIn, local
<1>2. OwnKeys'
  BY DEF SessionsInv, TypeOK, SignIn, local, OwnKeys
<1>3. IndexKnows'
  BY DEF SessionsInv, SignIn, local, IndexKnows
<1>4. ((\A x \in Calls : Pass(x)) /\ SafeResidue /\ ClosedMeansOut)'
  BY DEF SessionsInv, TypeOK, SignIn, local, Pass, SafeResidue, ClosedMeansOut
<1>5. (OneRevoker /\ RevokesClosed)' /\ OwnCaller'
  <2>1. UNCHANGED <<pc, header, account>> /\ used \subseteq used'
    BY DEF SignIn, local
  <2>2. QED
    BY <2>1 DEF SessionsInv, OneRevoker, RevokesClosed, OwnCaller
<1>6. (\A x \in Calls : Noted(x))'
  BY DEF SessionsInv, TypeOK, SignIn, local, Noted
<1>7. QED
  BY <1>1, <1>2, <1>3, <1>4, <1>5, <1>6 DEF SessionsInv

(* What a refresh or an expiry overtakes was its session's key or is the     *)
(* caller's; every other access session is as well known as before.        *)
LEMMA OvertakeKeepsNoted ==
  ASSUME SessionsInv, NEW s \in refresh, NEW x \in Calls,
         UNCHANGED <<pc, header, todo, keys>>, doomed' = doomed \ Overtaken(s),
         doomed \cap access' \subseteq access,
         refresh \ {s} \subseteq refresh', accessKey' \in [Refreshes -> Accesses \cup {None}],
         \A t \in Refreshes \ {s} : accessKey'[t] = accessKey[t]
  PROVE  Noted(x)'
<1>1. SUFFICES ASSUME pc[x] \in Revoking, NEW b \in doomed' \cap access'
               PROVE  \/ b = header[x]
                      \/ pc[x] \in {"readKeys", "delAccess"} /\ b \in keys[x]
                      \/ pc[x] = "readIndex" /\ \E t \in doomed' \cap refresh' : accessKey'[t] = b
                      \/ pc[x] = "readKeys" /\ \E t \in todo[x] \cap refresh' : accessKey'[t] = b
  BY DEF Noted
<1>2. b = header[x] \/ b # accessKey[s]
  BY <1>1 DEF Overtaken, SessionsInv, OneRevoker
<1>3. CASE b # accessKey[s]
  <2>1. \/ b = header[x]
        \/ pc[x] \in {"readKeys", "delAccess"} /\ b \in keys[x]
        \/ pc[x] = "readIndex" /\ \E t \in doomed \cap refresh : accessKey[t] = b
        \/ pc[x] = "readKeys" /\ \E t \in todo[x] \cap refresh : accessKey[t] = b
    BY <1>1 DEF SessionsInv, Noted
  <2>2. ASSUME NEW t \in refresh, accessKey[t] = b
        PROVE  t \in refresh' /\ accessKey'[t] = b /\ (t \in doomed => t \in doomed')
    <3>1. t # s /\ t \in Refreshes /\ accessKey[s] \in Accesses
      BY <1>3, <2>2 DEF SessionsInv, TypeOK, OwnKeys
    <3>2. t \notin Overtaken(s)
      BY <3>1, SessionsAssumption DEF Overtaken
    <3>3. QED
      BY <2>2, <3>1, <3>2
  <2>3. QED
    BY <2>1, <2>2
<1>4. QED
  BY <1>2, <1>3

LEMMA RefreshKeeps ==
  ASSUME SessionsInv, NEW s \in Refreshes, NEW a \in Accesses, Refresh(s, a)
  PROVE  SessionsInv'
<1>1. TypeOK'
  BY DEF SessionsInv, TypeOK, Refresh, local
<1>2. OwnKeys'
  BY DEF SessionsInv, Refresh, local, OwnKeys
<1>3. /\ UNCHANGED <<account, refresh, index, pc, header, fields, todo, keys>>
      /\ used \subseteq used' /\ access' = access \cup {a} /\ a \notin doomed
      /\ accessKey' = [accessKey EXCEPT ![s] = a] /\ s \in refresh
      /\ doomed' = doomed \ Overtaken(s)
  BY DEF Refresh, local, SessionsInv, TypeOK
<1>4. (OneRevoker /\ RevokesClosed)' /\ OwnCaller'
  BY <1>3 DEF SessionsInv, OneRevoker, RevokesClosed, OwnCaller
<1>5. (IndexKnows /\ SafeResidue /\ ClosedMeansOut)' /\ \A x \in Calls : Pass(x)'
  BY <1>3 DEF SessionsInv, IndexKnows, Pass, SafeResidue, ClosedMeansOut
<1>6. ASSUME NEW x \in Calls
      PROVE  Noted(x)'
  BY <1>3, OvertakeKeepsNoted DEF SessionsInv, TypeOK
<1>7. QED
  BY <1>1, <1>2, <1>4, <1>5, <1>6 DEF SessionsInv

LEMMA ExpireKeeps ==
  ASSUME SessionsInv, NEW k \in Refreshes \cup Accesses, Expire(k)
  PROVE  SessionsInv'
<1>1. TypeOK'
  BY DEF SessionsInv, TypeOK, Expire, local
<1>2. OwnKeys'
  BY DEF SessionsInv, Expire, local, OwnKeys
<1>3. (OneRevoker /\ RevokesClosed /\ OwnCaller /\ IndexKnows /\ (\A x \in Calls : Pass(x)) /\
        SafeResidue /\ ClosedMeansOut)'
  BY DEF SessionsInv, Expire, local, OneRevoker, RevokesClosed, OwnCaller, IndexKnows, Pass,
     SafeResidue, ClosedMeansOut
<1>4. ASSUME NEW x \in Calls
      PROVE  Noted(x)'
  <2>1. CASE k \in refresh
    BY <2>1, OvertakeKeepsNoted DEF SessionsInv, TypeOK, Expire, local
  <2>2. CASE k \notin refresh
    BY <2>2 DEF SessionsInv, Noted, Expire, local
  <2>3. QED
    BY <2>1, <2>2
<1>5. QED
  BY <1>1, <1>2, <1>3, <1>4 DEF SessionsInv

LEMMA RequestKeeps ==
  ASSUME SessionsInv, NEW c \in Calls, Request(c)
  PROVE  SessionsInv'
<1>1. TypeOK'
  BY DEF SessionsInv, TypeOK, Steps, Request, redis, Go
<1>2. (OneRevoker /\ RevokesClosed /\ OwnCaller)'
  BY DEF SessionsInv, TypeOK, Revoking, Request, redis, Go, OneRevoker, RevokesClosed, OwnCaller
<1>3. (OwnKeys /\ IndexKnows /\ (\A x \in Calls : Pass(x)) /\ SafeResidue /\ ClosedMeansOut)'
  BY DEF SessionsInv, Revoking, Request, redis, Go, OwnKeys, IndexKnows, Pass, SafeResidue,
     ClosedMeansOut
<1>4. (\A x \in Calls : Noted(x))'
  BY DEF SessionsInv, TypeOK, Revoking, Request, redis, Go, Noted
<1>5. QED
  BY <1>1, <1>2, <1>3, <1>4 DEF SessionsInv

(* The gate lets through callers of this tier only.                        *)
LEMMA authorizationAuthenticatedResourceHandlerKeeps ==
  ASSUME SessionsInv, NEW c \in Calls, authorizationAuthenticatedResourceHandler(c)
  PROVE  SessionsInv'
<1>1. TypeOK'
  BY DEF SessionsInv, TypeOK, Steps, authorizationAuthenticatedResourceHandler, redis, Go, Answer,
     Done
<1>2. (OneRevoker /\ RevokesClosed /\ OwnCaller)'
  BY SessionsAssumption DEF SessionsInv, TypeOK, Revoking, authorizationAuthenticatedResourceHandler,
     redis, Go, Answer, Done, OneRevoker, RevokesClosed, OwnCaller
<1>3. (OwnKeys /\ IndexKnows)'
  BY DEF SessionsInv, TypeOK, authorizationAuthenticatedResourceHandler, redis, Go, Answer, Done,
     OwnKeys, IndexKnows
<1>4. ((\A x \in Calls : Pass(x)) /\ SafeResidue /\ ClosedMeansOut)'
  BY DEF SessionsInv, TypeOK, Revoking, authorizationAuthenticatedResourceHandler, redis, Go,
     Answer, Done, Pass, SafeResidue, ClosedMeansOut
<1>5. (\A x \in Calls : Noted(x))'
  BY DEF SessionsInv, TypeOK, Revoking, authorizationAuthenticatedResourceHandler, redis, Go,
     Answer, Done, Noted
<1>6. QED
  BY <1>1, <1>2, <1>3, <1>4, <1>5 DEF SessionsInv

(* The closing: no call revoked before it, and the index knows every        *)
(* session alive.                                                          *)
LEMMA funShopOwnerDelKeeps ==
  ASSUME SessionsInv, NEW c \in Calls, funShopOwnerDel(c)
  PROVE  SessionsInv'
<1>1. TypeOK'
  <2>1. Alive(c) \subseteq used \/ pc[c] # "close"
    BY SessionsAssumption DEF SessionsInv, TypeOK, Alive, OwnKeys, OwnCaller
  <2>2. QED
    BY <2>1 DEF SessionsInv, TypeOK, Steps, funShopOwnerDel, redis, Go, Answer, Done
<1>2. (OneRevoker /\ RevokesClosed /\ OwnCaller)'
  BY DEF SessionsInv, TypeOK, Revoking, funShopOwnerDel, redis, Go, Answer, Done, OneRevoker,
     RevokesClosed, OwnCaller
<1>3. IndexKnows'
  BY DEF SessionsInv, TypeOK, funShopOwnerDel, redis, Go, Answer, Done, IndexKnows
<1>4. (\A x \in Calls : Pass(x))'
  BY DEF SessionsInv, TypeOK, Revoking, funShopOwnerDel, redis, Go, Answer, Done, Pass,
     RevokesClosed
<1>5. (SafeResidue /\ ClosedMeansOut)'
  <2>1. CASE account = "closed"
    BY <2>1 DEF SessionsInv, TypeOK, Revoking, Steps, funShopOwnerDel, redis, Go, Answer, Done,
       SafeResidue, ClosedMeansOut
  <2>2. CASE account # "closed"
    <3>1. pc' = [pc EXCEPT ![c] = "readIndex"] /\ \A x \in Calls : pc[x] \notin Revoking
      BY <2>2 DEF SessionsInv, RevokesClosed, funShopOwnerDel, Go
    <3>2. QED
      BY <3>1 DEF SessionsInv, TypeOK, SafeResidue, ClosedMeansOut, Revoking, Steps
  <2>3. QED
    BY <2>1, <2>2
<1>6. OwnKeys'
  BY DEF SessionsInv, TypeOK, funShopOwnerDel, redis, Answer, Done, OwnKeys
<1>7. (\A x \in Calls : Noted(x))'
  <2>1. CASE account = "closed"
    BY <2>1 DEF SessionsInv, TypeOK, Revoking, funShopOwnerDel, redis, Go, Answer, Done, Noted
  <2>2. CASE account # "closed"
    <3>1. /\ doomed' = Alive(c) /\ pc' = [pc EXCEPT ![c] = "readIndex"]
          /\ UNCHANGED <<refresh, access, accessKey, header>>
      BY <2>2 DEF funShopOwnerDel, Go, redis
    <3>2. \A x \in Calls \ {c} : pc'[x] \notin Revoking
      BY <2>2, <3>1 DEF SessionsInv, TypeOK, RevokesClosed
    <3>3. \A b \in Alive(c) \cap access :
            b = header[c] \/ \E t \in Alive(c) \cap refresh : accessKey[t] = b
      BY SessionsAssumption DEF SessionsInv, TypeOK, Alive
    <3>4. Noted(c)'
      BY <3>1, <3>3 DEF SessionsInv, TypeOK, Noted
    <3>5. QED
      BY <3>2, <3>4 DEF Noted
  <2>3. QED
    BY <2>1, <2>2
<1>8. QED
  BY <1>1, <1>2, <1>3, <1>4, <1>5, <1>6, <1>7 DEF SessionsInv

(* What was doomed is among the fields that were read.                     *)
LEMMA ReadIndexKeeps ==
  ASSUME SessionsInv, NEW c \in Calls, ReadIndex(c)
  PROVE  SessionsInv'
<1>1. TypeOK'
  BY DEF SessionsInv, TypeOK, Steps, ReadIndex, redis, Go
<1>2. (\A x \in Calls : Pass(x))'
  BY DEF SessionsInv, TypeOK, ReadIndex, redis, Go, Pass, IndexKnows
<1>3. (SafeResidue /\ ClosedMeansOut)'
  <2>1. index = {} => doomed \cap refresh = {}
    BY DEF SessionsInv, ReadIndex, IndexKnows
  <2>2. QED
    BY <2>1 DEF SessionsInv, TypeOK, Revoking, Steps, ReadIndex, redis, Go, SafeResidue, ClosedMeansOut
<1>4. (OneRevoker /\ RevokesClosed /\ OwnCaller /\ OwnKeys /\ IndexKnows)'
  BY DEF SessionsInv, Revoking, Steps, ReadIndex, redis, Go, OneRevoker, RevokesClosed, OwnCaller,
     OwnKeys, IndexKnows
<1>5. (\A x \in Calls : Noted(x))'
  BY DEF SessionsInv, TypeOK, Revoking, ReadIndex, redis, Go, IndexKnows, Noted
<1>6. QED
  BY <1>1, <1>2, <1>3, <1>4, <1>5 DEF SessionsInv

(* Only keys of this tier are gathered.                                    *)
LEMMA ReadAccessKeyKeeps ==
  ASSUME SessionsInv, NEW c \in Calls, NEW s \in Refreshes, ReadAccessKey(c, s)
  PROVE  SessionsInv'
<1>1. TypeOK'
  BY DEF SessionsInv, TypeOK, Steps, ReadAccessKey, redis, Go, Visit, OwnKeys
<1>2. OwnKeys'
  BY DEF SessionsInv, ReadAccessKey, redis, OwnKeys
<1>3. (\A x \in Calls : Pass(x))'
  BY DEF SessionsInv, TypeOK, Revoking, ReadAccessKey, redis, Go, Visit, Pass
<1>4. (OneRevoker /\ RevokesClosed /\ OwnCaller /\ IndexKnows /\ SafeResidue /\ ClosedMeansOut)'
  BY DEF SessionsInv, TypeOK, Revoking, Steps, ReadAccessKey, redis, Go, Visit, OneRevoker,
     RevokesClosed, OwnCaller, IndexKnows, SafeResidue, ClosedMeansOut
<1>5. (\A x \in Calls : Noted(x))'
  BY DEF SessionsInv, TypeOK, Revoking, ReadAccessKey, redis, Go, Visit, Noted
<1>6. QED
  BY <1>1, <1>2, <1>3, <1>4, <1>5 DEF SessionsInv

LEMMA DelAccessKeeps ==
  ASSUME SessionsInv, NEW c \in Calls, DelAccess(c)
  PROVE  SessionsInv'
<1>1. TypeOK'
  BY DEF SessionsInv, TypeOK, Steps, DelAccess, Go
<1>2. OwnKeys'
  BY DEF SessionsInv, TypeOK, DelAccess, OwnKeys
<1>3. (\A x \in Calls : Pass(x))'
  BY DEF SessionsInv, TypeOK, Revoking, DelAccess, Go, Pass
<1>4. (OneRevoker /\ RevokesClosed /\ OwnCaller /\ IndexKnows /\ SafeResidue /\ ClosedMeansOut)'
  BY DEF SessionsInv, TypeOK, Revoking, Steps, DelAccess, Go, OneRevoker, RevokesClosed, OwnCaller,
     IndexKnows, SafeResidue, ClosedMeansOut
<1>5. (\A x \in Calls : Noted(x))'
  BY DEF SessionsInv, TypeOK, Revoking, DelAccess, Go, Noted
<1>6. QED
  BY <1>1, <1>2, <1>3, <1>4, <1>5 DEF SessionsInv

(* The pass leaves behind it sessions that are dead.                       *)
LEMMA DelRefreshKeeps ==
  ASSUME SessionsInv, NEW c \in Calls, NEW s \in Refreshes, DelRefresh(c, s)
  PROVE  SessionsInv'
<1>1. TypeOK'
  BY DEF SessionsInv, TypeOK, Steps, DelRefresh, Go, Visit
<1>2. (\A x \in Calls : Pass(x))'
  BY DEF SessionsInv, TypeOK, Revoking, DelRefresh, Go, Visit, Pass
<1>3. SafeResidue' /\ ClosedMeansOut'
  <2>1. todo[c] = {s} => fields[c] \cap refresh \subseteq {s} /\ doomed \cap refresh \subseteq {s}
    BY DEF SessionsInv, DelRefresh, Pass, Revoking, Steps
  <2>2. \E x \in Calls : pc'[x] \in Revoking
    BY DEF SessionsInv, TypeOK, DelRefresh, Visit, Go, Revoking, Steps
  <2>3. ClosedMeansOut'
    BY <2>2 DEF ClosedMeansOut
  <2>4. SafeResidue'
    BY <2>1 DEF SessionsInv, TypeOK, DelRefresh, Go, Visit, SafeResidue
  <2>5. QED
    BY <2>3, <2>4
<1>4. (OneRevoker /\ RevokesClosed /\ OwnCaller /\ OwnKeys /\ IndexKnows)'
  BY DEF SessionsInv, TypeOK, Revoking, DelRefresh, Go, Visit, OneRevoker, RevokesClosed,
     OwnCaller, OwnKeys, IndexKnows
<1>5. ASSUME NEW x \in Calls
      PROVE  Noted(x)'
  <2>1. CASE x = c
    <3>1. pc[c] = "delRefresh" /\ pc'[c] \in Revoking \ {"readIndex", "readKeys", "delAccess"}
      BY DEF SessionsInv, TypeOK, DelRefresh, Visit, Go, Revoking, Steps
    <3>2. QED
      BY <2>1, <3>1 DEF SessionsInv, DelRefresh, Revoking, Steps, Noted
  <2>2. CASE x # c
    <3>1. pc[x] \notin Revoking /\ pc'[x] = pc[x]
      BY <2>2 DEF SessionsInv, TypeOK, OneRevoker, DelRefresh, Visit, Go, Revoking, Steps
    <3>2. QED
      BY <3>1 DEF Noted
  <2>3. QED
    BY <2>1, <2>2
<1>6. QED
  BY <1>1, <1>2, <1>3, <1>4, <1>5 DEF SessionsInv

LEMMA RereadIndexKeeps ==
  ASSUME SessionsInv, NEW c \in Calls, RereadIndex(c)
  PROVE  SessionsInv'
<1>1. TypeOK'
  BY DEF SessionsInv, TypeOK, Steps, RereadIndex, redis, Go
<1>2. ((\A x \in Calls : Pass(x)) /\ SafeResidue /\ ClosedMeansOut)'
  BY DEF SessionsInv, Revoking, Steps, RereadIndex, redis, Go, Pass, SafeResidue, ClosedMeansOut
<1>3. (OneRevoker /\ RevokesClosed /\ OwnCaller /\ OwnKeys /\ IndexKnows)'
  BY DEF SessionsInv, Revoking, Steps, RereadIndex, redis, Go, OneRevoker, RevokesClosed,
     OwnCaller, OwnKeys, IndexKnows
<1>4. (\A x \in Calls : Noted(x))'
  BY DEF SessionsInv, TypeOK, Revoking, RereadIndex, redis, Go, Noted
<1>5. QED
  BY <1>1, <1>2, <1>3, <1>4 DEF SessionsInv

(* The index loses sessions only of a closed account.                      *)
LEMMA DelIndexKeeps ==
  ASSUME SessionsInv, NEW c \in Calls, DelIndex(c)
  PROVE  SessionsInv'
<1>1. TypeOK'
  BY DEF SessionsInv, TypeOK, Steps, DelIndex, Go
<1>2. IndexKnows'
  BY DEF SessionsInv, Revoking, Steps, DelIndex, Go, IndexKnows, RevokesClosed, OneRevoker
<1>3. ((\A x \in Calls : Pass(x)) /\ SafeResidue /\ ClosedMeansOut)'
  BY DEF SessionsInv, Revoking, Steps, DelIndex, Go, Pass, SafeResidue, ClosedMeansOut
<1>4. (OneRevoker /\ RevokesClosed /\ OwnCaller /\ OwnKeys)'
  BY DEF SessionsInv, Revoking, Steps, DelIndex, Go, OneRevoker, RevokesClosed, OwnCaller, OwnKeys
<1>5. (\A x \in Calls : Noted(x))'
  BY DEF SessionsInv, TypeOK, Revoking, DelIndex, Go, Noted
<1>6. QED
  BY <1>1, <1>2, <1>3, <1>4, <1>5 DEF SessionsInv

(* The last step of a revocation: every session it knew of is dead.         *)
LEMMA DelCallerKeeps ==
  ASSUME SessionsInv, NEW c \in Calls, DelCaller(c)
  PROVE  SessionsInv'
<1>1. TypeOK'
  BY DEF SessionsInv, TypeOK, Steps, DelCaller, Done, Go
<1>2. ClosedMeansOut'
  <2>1. doomed \cap refresh = {} /\ doomed \cap access \subseteq {header[c]}
    BY DEF SessionsInv, DelCaller, SafeResidue, Noted, Revoking, Steps
  <2>2. QED
    BY <2>1 DEF DelCaller, ClosedMeansOut
<1>3. ((\A x \in Calls : Pass(x)) /\ SafeResidue)'
  BY DEF SessionsInv, Revoking, DelCaller, Done, Go, Pass, SafeResidue
<1>4. (OneRevoker /\ RevokesClosed /\ OwnCaller /\ OwnKeys /\ IndexKnows)'
  BY DEF SessionsInv, TypeOK, Revoking, DelCaller, Done, Go, OneRevoker, RevokesClosed, OwnCaller,
     OwnKeys, IndexKnows
<1>5. (\A x \in Calls : Noted(x))'
  BY DEF SessionsInv, TypeOK, Revoking, DelCaller, Done, Go, Noted
<1>6. QED
  BY <1>1, <1>2, <1>3, <1>4, <1>5 DEF SessionsInv

LEMMA FailKeeps ==
  ASSUME SessionsInv, NEW c \in Calls, Fail(c)
  PROVE  SessionsInv'
<1>1. TypeOK'
  BY DEF SessionsInv, TypeOK, Steps, Fail, redis, Done, Go
<1>2. ClosedMeansOut'
  BY DEF SessionsInv, Fail, redis, Done, Go, ClosedMeansOut
<1>3. ((\A x \in Calls : Pass(x)) /\ SafeResidue)'
  BY DEF SessionsInv, TypeOK, Revoking, Fail, redis, Done, Go, Pass, SafeResidue
<1>4. (OneRevoker /\ RevokesClosed /\ OwnCaller /\ OwnKeys /\ IndexKnows)'
  BY DEF SessionsInv, TypeOK, Revoking, Fail, redis, Done, Go, OneRevoker, RevokesClosed,
     OwnCaller, OwnKeys, IndexKnows
<1>5. (\A x \in Calls : Noted(x))'
  BY DEF SessionsInv, TypeOK, Revoking, Fail, redis, Done, Go, Noted
<1>6. QED
  BY <1>1, <1>2, <1>3, <1>4, <1>5 DEF SessionsInv

LEMMA StepKeeps ==
  ASSUME SessionsInv, [Next]_vars
  PROVE  SessionsInv'
<1>1. CASE UNCHANGED vars
  BY <1>1 DEF vars, SessionsInv, TypeOK, OneRevoker, RevokesClosed, OwnCaller, OwnKeys, IndexKnows,
     Pass, Noted, SafeResidue, ClosedMeansOut
<1>2. CASE \E c \in Calls : Request(c) \/ Work(c) \/ Fail(c)
  BY <1>2, RequestKeeps, FailKeeps, authorizationAuthenticatedResourceHandlerKeeps,
     funShopOwnerDelKeeps, ReadIndexKeeps, ReadAccessKeyKeeps, DelAccessKeeps, DelRefreshKeeps,
     RereadIndexKeeps, DelIndexKeeps, DelCallerKeeps DEF Work, endEverySession
<1>3. CASE \E s \in Refreshes, a \in Accesses : SignIn(s, a) \/ Refresh(s, a)
  BY <1>3, SignInKeeps, RefreshKeeps
<1>4. CASE \E k \in Refreshes \cup Accesses : Expire(k)
  BY <1>4, ExpireKeeps
<1>5. QED
  BY <1>1, <1>2, <1>3, <1>4 DEF Next

(* The invariant holds in every reachable state.                           *)
THEOREM SessionsInvariance == Spec => []SessionsInv
<1>1. Init => SessionsInv
  BY SessionsAssumption DEF Init, SessionsInv, TypeOK, OneRevoker, RevokesClosed, OwnCaller,
     OwnKeys, IndexKnows, Pass, Noted, SafeResidue, ClosedMeansOut, Revoking, Steps
<1>2. SessionsInv /\ [Next]_vars => SessionsInv'
  BY StepKeeps
<1>3. QED
  BY <1>1, <1>2, PTL DEF Spec

(* The variables keep their shape: a revocation deletes minted keys only.   *)
THEOREM SessionsTypes == Spec => []TypeOK
BY SessionsInvariance, PTL DEF SessionsInv

(* A closed account has no session left of those it had, once its revocation *)
(* is over, unless that was cut short.                                     *)
THEOREM ClosingEndsEverySession == Spec => []ClosedMeansOut
BY SessionsInvariance, PTL DEF SessionsInv

(* A revocation that stops at its last steps leaves nothing that refreshes.  *)
THEOREM ResidueCannotRefresh == Spec => []SafeResidue
BY SessionsInvariance, PTL DEF SessionsInv

(* No call ends a session of an account that is open: only one that revokes  *)
(* deletes, and it revokes a closed account.                               *)
THEOREM OpenAccountsStaySignedIn == Spec => LoggedOutOnlyWhenClosed
<1>1. ASSUME SessionsInv, [Next]_vars, account = "open", ~ UNCHANGED local
      PROVE  refresh \subseteq refresh'
  <2>1. \A c \in Calls : pc[c] \notin Revoking
    BY <1>1 DEF SessionsInv, RevokesClosed
  <2>2. CASE \E c \in Calls : Request(c) \/ Fail(c) \/
               authorizationAuthenticatedResourceHandler(c) \/ funShopOwnerDel(c)
    BY <2>2 DEF Request, Fail, authorizationAuthenticatedResourceHandler, funShopOwnerDel, Answer,
       redis
  <2>3. CASE \E c \in Calls : endEverySession(c)
    BY <2>1, <2>3 DEF endEverySession, ReadIndex, ReadAccessKey, DelAccess, DelRefresh,
       RereadIndex, DelIndex, DelCaller, Revoking, Steps
  <2>4. CASE \E s \in Refreshes, a \in Accesses : SignIn(s, a) \/ Refresh(s, a)
    BY <2>4 DEF SignIn, Refresh
  <2>5. CASE \E k \in Refreshes \cup Accesses : Expire(k)
    BY <1>1, <2>5 DEF Expire
  <2>6. QED
    BY <1>1, <2>2, <2>3, <2>4, <2>5 DEF Next, Work, vars
<1>2. SessionsInv /\ [Next]_vars =>
        [account = "open" => refresh \subseteq refresh' \/ UNCHANGED local]_vars
  BY <1>1
<1>3. QED
  BY <1>2, SessionsInvariance, PTL DEF Spec, LoggedOutOnlyWhenClosed

(* A session of another tier closes nothing and is ended by no call.        *)
THEOREM ForeignSessionsUntouched == Spec => OtherTiersUntouched
<1>1. ASSUME SessionsInv, [Next]_vars, NEW a \in Foreign \cap access
      PROVE  /\ a \in access' \/ UNCHANGED local
             /\ \A c \in Calls : header[c] = a => ~ (pc[c] = "close" /\ account # account')
  <2>1. \A c \in Calls : header[c] = a => pc[c] # "close"
    BY <1>1 DEF SessionsInv, OwnCaller
  <2>2. ASSUME NEW c \in Calls, DelAccess(c) \/ DelCaller(c)
        PROVE  a \in access'
    BY <1>1, <2>2 DEF SessionsInv, OwnKeys, OwnCaller, DelAccess, DelCaller, Revoking, Steps
  <2>3. ASSUME NEW c \in Calls, Request(c) \/ Fail(c) \/
                 authorizationAuthenticatedResourceHandler(c) \/ funShopOwnerDel(c) \/
                 ReadIndex(c) \/ RereadIndex(c) \/ DelIndex(c) \/
                 \E s \in Refreshes : ReadAccessKey(c, s) \/ DelRefresh(c, s)
        PROVE  a \in access'
    BY <2>3 DEF Request, Fail, authorizationAuthenticatedResourceHandler, funShopOwnerDel, Answer,
       ReadIndex, RereadIndex, DelIndex, ReadAccessKey, DelRefresh, redis
  <2>4. ASSUME NEW s \in Refreshes, NEW b \in Accesses, SignIn(s, b) \/ Refresh(s, b)
        PROVE  a \in access'
    BY <2>4 DEF SignIn, Refresh
  <2>5. ASSUME NEW k \in Refreshes \cup Accesses, Expire(k)
        PROVE  UNCHANGED local
    BY <2>5 DEF Expire
  <2>6. a \in access' \/ UNCHANGED local
    BY <1>1, <2>2, <2>3, <2>4, <2>5 DEF Next, Work, endEverySession, vars
  <2>7. QED
    BY <2>1, <2>6
<1>2. SessionsInv /\ [Next]_vars =>
        [\A a \in Foreign \cap access :
           /\ a \in access' \/ UNCHANGED local
           /\ \A c \in Calls : header[c] = a => ~ (pc[c] = "close" /\ account # account')]_vars
  BY <1>1
<1>3. QED
  BY <1>2, SessionsInvariance, PTL DEF Spec, OtherTiersUntouched
===============================================================================
