-------------------------------- MODULE Sessions --------------------------------
(***************************************************************************)
(* The sessions of one shop owner's account in Redis, the gate that every  *)
(* request passes, and the closing of the account, which ends them all.    *)
(*                                                                         *)
(* A sign-in is a refresh session and the access session it names in its   *)
(* `accessKey` field, the first of them filed in the account's index.      *)
(* Signing in and refreshing belong to the authorization services, and the *)
(* revocation routine to marketplace-common: they are external, modelled   *)
(* as test/endEverySession.test.mts has their conversation with Redis.     *)
(***************************************************************************)

CONSTANTS Refreshes, Accesses, Foreign, Calls, None

ASSUME SessionsAssumption ==
  /\ Foreign \subseteq Accesses    \* the access sessions another tier mints
  /\ Refreshes \cap Accesses = {}
  /\ None \notin Refreshes \cup Accesses

VARIABLES
  account,    \* "open" or "closed"
  refresh,    \* the refresh sessions alive
  access,     \* the access sessions alive
  accessKey,  \* refresh session -> the access session it names
  index,      \* the refresh sessions the account's index names
  used,       \* every key minted so far: tokens are random
  pc,         \* call -> its next round trip
  header,     \* call -> the token of its Authorization header, None without one
  fields,     \* call -> what the index named when it was read
  todo,       \* call -> of those, the ones this pass has still to visit
  keys,       \* call -> the access sessions its fields named
  doomed      \* history: what the closing must end, nothing once it was cut short

redis == <<refresh, access, accessKey, index, used>>
local == <<pc, header, fields, todo, keys>>
vars == <<account, refresh, access, accessKey, index, used,
          pc, header, fields, todo, keys, doomed>>

Steps == {"idle", "gate", "close", "readIndex", "readKeys", "delAccess",
          "delRefresh", "rereadIndex", "delIndex", "delCaller"}
Revoking == Steps \ {"idle", "gate", "close"}

Init ==
  /\ account = "open"
  /\ refresh = {}
  /\ access = Foreign
  /\ accessKey = [s \in Refreshes |-> None]
  /\ index = {}
  /\ used = Foreign
  /\ pc = [c \in Calls |-> "idle"]
  /\ header = [c \in Calls |-> None]
  /\ fields = [c \in Calls |-> {}]
  /\ todo = [c \in Calls |-> {}]
  /\ keys = [c \in Calls |-> {}]
  /\ doomed = {}

-------------------------------------------------------------------------------
(* The authorization services.  A sign-in admitted before the closing may  *)
(* still be minting its sessions after it.                                 *)
SignIn(s, a) ==
  /\ {s, a} \cap used = {}
  /\ refresh' = refresh \cup {s}
  /\ access' = access \cup {a}
  /\ accessKey' = [accessKey EXCEPT ![s] = a]
  /\ index' = index \cup {s}
  /\ used' = used \cup {s, a}
  /\ UNCHANGED <<account, local, doomed>>

(* The access session that nothing names once its refresh session is        *)
(* refreshed or dead; a revocation knows its caller's all the same.         *)
Overtaken(s) == {accessKey[s]} \ {header[c] : c \in {x \in Calls : pc[x] \in Revoking}}

Refresh(s, a) ==
  /\ s \in refresh /\ a \notin used
  /\ access' = access \cup {a}
  /\ accessKey' = [accessKey EXCEPT ![s] = a]
  /\ used' = used \cup {a}
  /\ doomed' = doomed \ Overtaken(s)
  /\ UNCHANGED <<account, refresh, index, local>>

(* Redis lets a session expire; the index keeps its field.                  *)
Expire(k) ==
  /\ k \in refresh \cup access
  /\ refresh' = refresh \ {k}
  /\ access' = access \ {k}
  /\ doomed' = IF k \in refresh THEN doomed \ Overtaken(k) ELSE doomed
  /\ UNCHANGED <<account, accessKey, index, used, local>>

-------------------------------------------------------------------------------
Go(c, step) == pc' = [pc EXCEPT ![c] = step]

Done(c) ==
  /\ Go(c, "idle")
  /\ header' = [header EXCEPT ![c] = None]
  /\ fields' = [fields EXCEPT ![c] = {}]
  /\ todo' = [todo EXCEPT ![c] = {}]
  /\ keys' = [keys EXCEPT ![c] = {}]

Answer(c) == Done(c) /\ UNCHANGED <<account, redis, doomed>>

(* shopOwnerDel, sent with any token or none.                              *)
Request(c) ==
  /\ pc[c] = "idle"
  /\ \E h \in used \cup {None} : header' = [header EXCEPT ![c] = h]
  /\ Go(c, "gate")
  /\ UNCHANGED <<account, redis, fields, todo, keys, doomed>>

(* Mutant: any access session will do, whichever tier minted it.            *)
authorizationAuthenticatedResourceHandler_AnyTier(c) ==
  /\ pc[c] = "gate"
  /\ IF header[c] \in access
     THEN Go(c, "close") /\ UNCHANGED <<account, redis, header, fields, todo, keys, doomed>>
     ELSE Answer(c)

(* 412 without a header, 499 for a token that is no access token, 498 when  *)
(* Redis has no such session, 403 when another tier minted it.             *)
authorizationAuthenticatedResourceHandler(c) ==
  /\ pc[c] = "gate"
  /\ IF header[c] \in access \ Foreign
     THEN Go(c, "close") /\ UNCHANGED <<account, redis, header, fields, todo, keys, doomed>>
     ELSE Answer(c)

(* The refresh sessions alive, the access sessions they name, the caller's. *)
Alive(c) == refresh \cup {accessKey[s] : s \in refresh} \cup {header[c]}

(* Mutant: a transaction that fails does not stop what follows it.          *)
funShopOwnerDel_Swallowed(c) ==
  /\ pc[c] = "close"
  /\ Go(c, "readIndex")
  /\ account' \in {account, "closed"}
  /\ doomed' = Alive(c)
  /\ UNCHANGED <<redis, header, fields, todo, keys>>

(* funShopOwnerDel, one transaction: 410 when the account is closed already. *)
funShopOwnerDel(c) ==
  /\ pc[c] = "close"
  /\ IF account = "closed" THEN Answer(c)
     ELSE /\ account' = "closed"
          /\ doomed' = Alive(c)
          /\ Go(c, "readIndex")
          /\ UNCHANGED <<redis, header, fields, todo, keys>>

-------------------------------------------------------------------------------
(* endEverySession: revokeAllSessionsForAccount first, ...                  *)

(* Mutant: the index is that of another tier.                              *)
ReadIndex_WrongTier(c) ==
  /\ pc[c] = "readIndex"
  /\ Go(c, "delCaller")
  /\ UNCHANGED <<account, redis, header, fields, todo, keys, doomed>>

ReadIndex(c) ==
  /\ pc[c] = "readIndex"
  /\ fields' = [fields EXCEPT ![c] = index]
  /\ todo' = [todo EXCEPT ![c] = index]
  /\ Go(c, IF index = {} THEN "delCaller" ELSE "readKeys")
  /\ UNCHANGED <<account, redis, header, keys, doomed>>

(* One pass over the fields: the last visit goes on to the next pass.       *)
Visit(c, s, next) ==
  /\ s \in todo[c]
  /\ IF todo[c] = {s}
     THEN Go(c, next) /\ todo' = [todo EXCEPT ![c] = fields[c]]
     ELSE UNCHANGED pc /\ todo' = [todo EXCEPT ![c] = @ \ {s}]

(* Mutant: a session gone since the index was read names the key `null`.    *)
ReadAccessKey_Null(c, s) ==
  /\ pc[c] = "readKeys"
  /\ Visit(c, s, "delAccess")
  /\ keys' = [keys EXCEPT ![c] = @ \cup {IF s \in refresh THEN accessKey[s] ELSE None}]
  /\ UNCHANGED <<account, redis, header, fields, doomed>>

ReadAccessKey(c, s) ==
  /\ pc[c] = "readKeys"
  /\ Visit(c, s, "delAccess")
  /\ keys' = IF s \in refresh THEN [keys EXCEPT ![c] = @ \cup {accessKey[s]}] ELSE keys
  /\ UNCHANGED <<account, redis, header, fields, doomed>>

(* The dels of the access sessions may land in any order, but before those  *)
(* of the refresh sessions.                                                *)
DelAccess(c) ==
  /\ pc[c] = "delAccess"
  /\ IF keys[c] = {} THEN Go(c, "delRefresh") /\ UNCHANGED <<access, keys>>
     ELSE \E a \in keys[c] : /\ access' = access \ {a}
                             /\ keys' = [keys EXCEPT ![c] = @ \ {a}]
                             /\ UNCHANGED pc
  /\ UNCHANGED <<account, refresh, accessKey, index, used, header, fields, todo, doomed>>

DelRefresh(c, s) ==
  /\ pc[c] = "delRefresh"
  /\ Visit(c, s, "rereadIndex")
  /\ refresh' = refresh \ {s}
  /\ UNCHANGED <<account, access, accessKey, index, used, header, fields, keys, doomed>>

(* The index goes, whole or by its fields when a sign-in has joined it.     *)
RereadIndex(c) ==
  /\ pc[c] = "rereadIndex"
  /\ todo' = [todo EXCEPT ![c] = IF index \subseteq fields[c] THEN {} ELSE fields[c]]
  /\ Go(c, "delIndex")
  /\ UNCHANGED <<account, redis, header, fields, keys, doomed>>

DelIndex(c) ==
  /\ pc[c] = "delIndex"
  /\ index' = IF todo[c] = {} THEN {} ELSE index \ fields[c]
  /\ todo' = [todo EXCEPT ![c] = {}]
  /\ Go(c, "delCaller")
  /\ UNCHANGED <<account, refresh, access, accessKey, used, header, fields, keys, doomed>>

(* Mutant: the key is made of the whole header, its scheme included.        *)
DelCaller_Bearer(c) ==
  /\ pc[c] = "delCaller"
  /\ Done(c)
  /\ UNCHANGED <<account, redis, doomed>>

(* ... the access session of the caller second; then the answer is true.    *)
DelCaller(c) ==
  /\ pc[c] = "delCaller"
  /\ access' = access \ {header[c]}
  /\ Done(c)
  /\ UNCHANGED <<account, refresh, accessKey, index, used, doomed>>

(* Redis refuses, or the process dies: a retry is then a 410, and revokes    *)
(* nothing.                                                                *)
Fail(c) ==
  /\ pc[c] # "idle"
  /\ doomed' = IF pc[c] \in Revoking THEN {} ELSE doomed
  /\ Done(c)
  /\ UNCHANGED <<account, redis>>

endEverySession(c) ==
  \/ ReadIndex(c)
  \/ \E s \in Refreshes : ReadAccessKey(c, s) \/ DelRefresh(c, s)
  \/ DelAccess(c)
  \/ RereadIndex(c)
  \/ DelIndex(c)
  \/ DelCaller(c)

Work(c) ==
  \/ authorizationAuthenticatedResourceHandler(c)
  \/ funShopOwnerDel(c)
  \/ endEverySession(c)

Next ==
  \/ \E c \in Calls : Request(c) \/ Work(c) \/ Fail(c)
  \/ \E s \in Refreshes, a \in Accesses : SignIn(s, a) \/ Refresh(s, a)
  \/ \E k \in Refreshes \cup Accesses : Expire(k)

Spec == Init /\ [][Next]_vars

-------------------------------------------------------------------------------
(* The variables keep their shape: what a revocation will delete is always  *)
(* the key of a session that was minted.                                   *)
TypeOK ==
  /\ account \in {"open", "closed"}
  /\ refresh \subseteq Refreshes /\ access \subseteq Accesses
  /\ index \subseteq Refreshes
  /\ used \subseteq Refreshes \cup Accesses
  /\ refresh \cup access \cup index \subseteq used
  /\ accessKey \in [Refreshes -> Accesses \cup {None}]
  /\ pc \in [Calls -> Steps]
  /\ header \in [Calls -> Refreshes \cup Accesses \cup {None}]
  /\ fields \in [Calls -> SUBSET (used \cap Refreshes)]
  /\ todo \in [Calls -> SUBSET (used \cap Refreshes)]
  /\ keys \in [Calls -> SUBSET (used \cap Accesses)]
  /\ doomed \subseteq used

(* Once no closing is at work any more, everybody who was signed in when    *)
(* the account closed is out: the refresh sessions, the access sessions they *)
(* named and the caller's are gone, however the sessions are refreshed,     *)
(* expire or are joined by others meanwhile.  What a refresh or an expiry   *)
(* overtakes is nobody's to find, and lives its minutes; and Redis or the   *)
(* process may fail during the revocation (shopOwnerDel).                   *)
ClosedMeansOut ==
  account = "closed" /\ (\A c \in Calls : pc[c] \notin Revoking) =>
    doomed \cap (refresh \cup access) = {}

(* The safe residue of endEverySession: a revocation that is about to end   *)
(* the caller's access session has ended every refresh session it knew of   *)
(* or should have known of, so that none of them mints another.            *)
SafeResidue ==
  \A c \in Calls : pc[c] \in {"rereadIndex", "delIndex", "delCaller"} =>
    (fields[c] \cup doomed) \cap refresh = {}

(* No call logs anybody out of an account that is open: the revocation      *)
(* follows the closing, and a closing that fails ends no session.          *)
LoggedOutOnlyWhenClosed ==
  [][account = "open" => refresh \subseteq refresh' \/ UNCHANGED local]_vars

(* A session of another tier opens nothing here: it neither closes the     *)
(* account nor is ended by a request that carries it.                      *)
OtherTiersUntouched ==
  [][\A a \in Foreign \cap access :
       /\ a \in access' \/ UNCHANGED local
       /\ \A c \in Calls : header[c] = a => ~ (pc[c] = "close" /\ account # account')]_vars

===============================================================================
