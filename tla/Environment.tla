------------------------------ MODULE Environment ------------------------------
(***************************************************************************)
(* One workstation's .env file and the two programs that trust it: the     *)
(* service, whose boot checks presence and then shape, and the test suite, *)
(* whose integration project drops a database the file names.              *)
(*                                                                         *)
(* The file holds one name for each way a name is treated; a value is      *)
(* empty, right, of the wrong kind, or what the treatment tells apart.     *)
(* A program reads the file once, when it starts.                          *)
(***************************************************************************)
EXTENDS FiniteSets, SequencesExt

CONSTANTS
  Databases,      \* the databases a URI may end in
  Environments    \* what a fresh .env may hold

ServiceNames == {"REDIS_IS_CLUSTER", "REDIS_URL", "MONGODB_URI", "STATIC_FOLDER"}
DatabaseNames == {"MONGO_TEST_CONN_STRING", "MONGO_TEST_AUTH_ADMIN", "MONGO_TEST_DB"}
REQUIRED == DatabaseNames \cup {"MONGO_TEST_UDBRW"}
Names == ServiceNames \cup REQUIRED

RightValues(name) ==
  CASE name = "REDIS_IS_CLUSTER" -> {"0", "1"}
    [] name \in {"MONGODB_URI"} \cup DatabaseNames -> Databases
    [] OTHER -> {"right"}

(* "wrong" is `true` for the flag, another kind of URI, a relative path, or *)
(* a connection string with no database in it.                             *)
Values(name) ==
  RightValues(name) \cup {""} \cup
    (IF name \in ServiceNames \cup {"MONGO_TEST_CONN_STRING"} THEN {"wrong"} ELSE {})

AllEnvironments == {env \in [Names -> UNION {Values(n) : n \in Names}] :
                      \A n \in Names : env[n] \in Values(n)}

(* A database has a name.                                                  *)
ASSUME EnvironmentAssumption == Environments \subseteq AllEnvironments /\ "" \notin Databases

VARIABLES
  env,        \* the .env file
  process,    \* the service: down, refused by its checks, serving
  fault,      \* what its last boot reported
  dialled,    \* what it talks to while it serves
  run,        \* the vitest run under way
  live        \* the databases with documents the service wrote

vars == <<env, process, fault, dialled, run, live>>

NoFault == [kind |-> "none", names |-> {}]
Nothing == [redis |-> "none", db |-> "none", static |-> "none"]
NoRun == [project |-> "none", step |-> "idle", dev |-> "", db |-> "", url |-> "",
          whole |-> FALSE, boots |-> FALSE]

Init ==
  /\ env \in Environments
  /\ process = "down"
  /\ fault = NoFault
  /\ dialled = Nothing
  /\ run = NoRun
  /\ live = {}

-------------------------------------------------------------------------------
REQUIRED_ENV_VARS == <<"REDIS_IS_CLUSTER", "MONGODB_URI", "STATIC_FOLDER">>

(* The names with a shape: REDIS_URL has one and is in no list.             *)
ENV_SHAPES == ServiceNames

(* External: every misshapen name in one message; an empty value is skipped. *)
assertEnvShape(e) == {n \in ENV_SHAPES : e[n] # "" /\ e[n] \notin RightValues(n)}

(* The first name the file leaves empty, of the list and then, when it is    *)
(* asked for, the url; then the shapes.                                    *)
Check(e, urlRequired) ==
  LET asked   == REQUIRED_ENV_VARS \o (IF urlRequired THEN <<"REDIS_URL">> ELSE <<>>)
      missing == {k \in DOMAIN asked : e[asked[k]] = ""}
  IN  IF missing # {} THEN [kind |-> "missing", names |-> {asked[Min(missing)]}]
      ELSE IF assertEnvShape(e) # {} THEN [kind |-> "shape", names |-> assertEnvShape(e)]
      ELSE NoFault

(* Mutants: the url is asked of nobody; only where the flag says 0; the      *)
(* message names the flag.                                                 *)
checkRequiredEnv_NoUrl(e) == Check(e, FALSE)
checkRequiredEnv_FlagIsZero(e) == Check(e, e["REDIS_IS_CLUSTER"] = "0")
checkRequiredEnv_NamesFlag(e) ==
  LET f == Check(e, e["REDIS_IS_CLUSTER"] # "1")
  IN  IF f = [kind |-> "missing", names |-> {"REDIS_URL"}]
      THEN [f EXCEPT !.names = {"REDIS_IS_CLUSTER"}] ELSE f

checkRequiredEnv(e) == Check(e, e["REDIS_IS_CLUSTER"] # "1")

(* External: koa-utils compares the flag with '1', and node-redis answers an *)
(* unset url with localhost.                                               *)
RedisConnect(e) ==
  IF e["REDIS_IS_CLUSTER"] = "1" THEN "cluster"
  ELSE IF e["REDIS_URL"] = "" THEN "localhost" ELSE e["REDIS_URL"]

Boot ==
  /\ process = "down"
  /\ fault' = checkRequiredEnv(env)
  /\ IF fault' = NoFault
     THEN /\ process' = "serving"
          /\ dialled' = [redis |-> RedisConnect(env), db |-> env["MONGODB_URI"],
                         static |-> env["STATIC_FOLDER"]]
     ELSE process' = "refused" /\ UNCHANGED dialled
  /\ UNCHANGED <<env, run, live>>

Serve ==
  /\ process = "serving"
  /\ live' = live \cup {dialled.db}
  /\ UNCHANGED <<env, process, fault, dialled, run>>

Stop ==
  /\ process = "serving"
  /\ process' = "down"
  /\ dialled' = Nothing
  /\ UNCHANGED <<env, fault, run, live>>

(* The admin: a missing value is filled with any, a misshapen one corrected. *)
Repair ==
  /\ process = "refused"
  /\ \E n \in fault.names : \E v \in Values(n) \ {""} :
       /\ fault.kind = "shape" => v \in RightValues(n)
       /\ env' = [env EXCEPT ![n] = v]
  /\ process' = "down"
  /\ UNCHANGED <<fault, dialled, run, live>>

(* A name of a database is changed at any time, with every program running. *)
Retarget ==
  /\ \E n \in DatabaseNames \cup {"MONGODB_URI"}, d \in Databases :
       env' = [env EXCEPT ![n] = d]
  /\ UNCHANGED <<process, fault, dialled, run, live>>

-------------------------------------------------------------------------------
missingTestMongoEnv == {n \in REQUIRED : env[n] = ""}

TEST_DB == env["MONGO_TEST_DB"]

dbNameFromUri(uri) == IF uri \in Databases THEN uri ELSE ""

(* The three variables that name the test database agree.                  *)
assertTestMongoDbNames ==
  /\ dbNameFromUri(env["MONGO_TEST_CONN_STRING"]) = TEST_DB
  /\ env["MONGO_TEST_AUTH_ADMIN"] = TEST_DB

(* What MONGODB_URI becomes for the suite: a database, a name that nothing   *)
(* answers, or a refusal while vitest reads its config.                    *)
TestUrl(named) ==
  IF missingTestMongoEnv # {} THEN "unconfigured"
  ELSE IF (named /\ dbNameFromUri(env["MONGODB_URI"]) = TEST_DB) \/ ~ assertTestMongoDbNames
  THEN "refused"
  ELSE TEST_DB

(* Mutant: the service's own database is not looked at.                     *)
buildTestMongoUrl_DevToo == TestUrl(FALSE)

buildTestMongoUrl == TestUrl(TRUE)

(* vitest evaluates one config for both projects, the url of the suite with  *)
(* it, and hands the integration project its own database.                 *)
StartTests ==
  /\ run.step = "idle"
  /\ \E project \in {"unit", "integration"} :
       run' = [project |-> project,
               step |-> IF buildTestMongoUrl = "refused" THEN "stopped"
                        ELSE IF project = "unit" THEN "suite" ELSE "setup",
               dev |-> dbNameFromUri(env["MONGODB_URI"]),
               db |-> TEST_DB,
               url |-> buildTestMongoUrl,
               whole |-> missingTestMongoEnv = {},
               boots |-> checkRequiredEnv([env EXCEPT !["MONGODB_URI"] = buildTestMongoUrl]) = NoFault]
  /\ UNCHANGED <<env, process, fault, dialled, live>>

(* globalSetup: the block, then the drop as the owner, then the migrations,  *)
(* any of which may fail.                                                  *)
GlobalSetup ==
  /\ run.step = "setup"
  /\ \/ ~ run.whole /\ run' = [run EXCEPT !.step = "stopped"] /\ UNCHANGED live
     \/ /\ run.whole
        /\ live' = live \ {run.db}
        /\ run' = [run EXCEPT !.step = "migrating"]
  /\ UNCHANGED <<env, process, fault, dialled>>

Migrate ==
  /\ run.step = "migrating"
  /\ \E step \in {"suite", "stopped"} : run' = [run EXCEPT !.step = step]
  /\ UNCHANGED <<env, process, fault, dialled, live>>

(* The service under test seeds and overwrites the database of its url.     *)
Suite ==
  /\ run.step = "suite"
  /\ live' = IF run.project = "integration" /\ run.boots THEN live \ {run.url} ELSE live
  /\ run' = [run EXCEPT !.step = "stopped"]
  /\ UNCHANGED <<env, process, fault, dialled>>

EndTests ==
  /\ run.step # "idle"
  /\ run' = NoRun
  /\ UNCHANGED <<env, process, fault, dialled, live>>

Next ==
  \/ Boot \/ Serve \/ Stop \/ Repair \/ Retarget
  \/ StartTests \/ GlobalSetup \/ Migrate \/ Suite \/ EndTests

(* The admin reads the message, mends what it names and boots again.        *)
Spec == Init /\ [][Next]_vars /\ WF_vars(Boot) /\ WF_vars(Repair)

-------------------------------------------------------------------------------
(* A process that serves dialled what the file named and keeps pictures     *)
(* where it said: never the localhost that an empty url falls back to, nor   *)
(* a directory called undefined (index.mts, REQUIRED_ENV_VARS and the        *)
(* conditional on REDIS_URL).                                              *)
ServesWhole ==
  process = "serving" => /\ dialled.redis \in {"cluster", "right"}
                         /\ dialled.db \in Databases
                         /\ dialled.static = "right"

(* Once a boot has complained of a value's shape, no later boot finds a name *)
(* missing: an admin is never sent back to one not written yet, although     *)
(* mending the flag may change which names are required (checkRequiredEnv).  *)
MissingBeforeShape == [][fault.kind = "shape" => fault'.kind # "missing"]_fault

(* Mending what each refusal names gets any file to boot: every refusal     *)
(* names something that is at fault.                                       *)
ComesUp == process # "serving" ~> process = "serving"

(* What the service wrote in a database is never dropped or overwritten by   *)
(* a run of tests that could read in the file that it is the service's.      *)
KeepsLiveData == [][\A d \in live \ live' : d # run.dev]_live
===============================================================================
