---------------------------- MODULE EnvironmentProofs ---------------------------
(***************************************************************************)
(* Proofs about Environment for any file and any databases.                 *)
(***************************************************************************)
EXTENDS Environment, TLAPS

AllValues == UNION {Values(n) : n \in Names}

Texts == AllValues \cup {"", "refused", "unconfigured"}

Runs == [project : {"none", "unit", "integration"},
         step : {"idle", "stopped", "suite", "setup", "migrating"},
         dev : Texts, db : Texts, url : Texts, whole : BOOLEAN, boots : BOOLEAN]

EnvironmentTypes ==
  /\ env \in AllEnvironments
  /\ process \in {"down", "refused", "serving"}
  /\ run \in Runs

(* What a boot that complained of shapes has established of presence, and    *)
(* mending what it complained of leaves so: the flag is mended to a value    *)
(* that requires the url only where the url was required before.           *)
NothingMissing ==
  fault.kind = "shape" =>
    /\ \A n \in {"REDIS_IS_CLUSTER", "MONGODB_URI", "STATIC_FOLDER"} : env[n] # ""
    /\ env["REDIS_IS_CLUSTER"] # "1" => env["REDIS_URL"] # ""
    /\ process = "refused" /\ "REDIS_IS_CLUSTER" \in fault.names => env["REDIS_URL"] # ""

(* What an integration run carries from the file it read, past its setup.    *)
OwnDatabase ==
  /\ run.step \in {"setup", "migrating"} => run.project = "integration"
  /\ run.project = "integration" =>
       /\ run.step \in {"migrating", "suite"} => run.whole
       /\ run.step \in {"setup", "migrating", "suite"} /\ run.whole => run.url = run.db /\ run.db # run.dev

EnvironmentInv ==
  /\ EnvironmentTypes
  /\ NothingMissing
  /\ OwnDatabase
  /\ ServesWhole

-------------------------------------------------------------------------------
(* Where the three names of the list, and the url, stand among those asked.  *)
LEMMA AskedInOrder ==
  /\ DOMAIN (REQUIRED_ENV_VARS \o <<>>) = 1..3
  /\ DOMAIN (REQUIRED_ENV_VARS \o <<"REDIS_URL">>) = 1..4
  /\ \A k \in 1..3 : (REQUIRED_ENV_VARS \o <<>>)[k] = REQUIRED_ENV_VARS[k]
  /\ \A k \in 1..3 : (REQUIRED_ENV_VARS \o <<"REDIS_URL">>)[k] = REQUIRED_ENV_VARS[k]
  /\ (REQUIRED_ENV_VARS \o <<"REDIS_URL">>)[4] = "REDIS_URL"
BY DEF REQUIRED_ENV_VARS

(* What the boot asks for is there.                                        *)
Present(e) ==
  /\ e["REDIS_IS_CLUSTER"] # "" /\ e["MONGODB_URI"] # "" /\ e["STATIC_FOLDER"] # ""
  /\ e["REDIS_IS_CLUSTER"] # "1" => e["REDIS_URL"] # ""

(* The boot complains of shapes, or of nothing, only when all it asks for is *)
(* there; of shapes, it names the misshapen.                               *)
LEMMA CheckVerdict ==
  ASSUME NEW e
  PROVE  \/ checkRequiredEnv(e).kind = "missing" /\ ~ Present(e)
         \/ /\ checkRequiredEnv(e).kind = "shape" /\ Present(e)
            /\ checkRequiredEnv(e).names = assertEnvShape(e)
         \/ checkRequiredEnv(e) = NoFault /\ Present(e) /\ assertEnvShape(e) = {}
<1> DEFINE urlRequired == e["REDIS_IS_CLUSTER"] # "1"
           asked == REQUIRED_ENV_VARS \o (IF urlRequired THEN <<"REDIS_URL">> ELSE <<>>)
           missing == {k \in DOMAIN asked : e[asked[k]] = ""}
<1>1. /\ REQUIRED_ENV_VARS[1] = "REDIS_IS_CLUSTER" /\ REQUIRED_ENV_VARS[2] = "MONGODB_URI"
      /\ REQUIRED_ENV_VARS[3] = "STATIC_FOLDER"
  BY DEF REQUIRED_ENV_VARS
<1>2. /\ DOMAIN asked = 1..(IF urlRequired THEN 4 ELSE 3)
      /\ asked[1] = "REDIS_IS_CLUSTER" /\ asked[2] = "MONGODB_URI" /\ asked[3] = "STATIC_FOLDER"
      /\ urlRequired => asked[4] = "REDIS_URL"
  <2>1. CASE urlRequired
    <3>1. asked = REQUIRED_ENV_VARS \o <<"REDIS_URL">>
      BY <2>1
    <3> HIDE DEF asked
    <3>2. QED
      BY <1>1, <2>1, <3>1, AskedInOrder
  <2>2. CASE ~ urlRequired
    <3>1. asked = REQUIRED_ENV_VARS \o <<>>
      BY <2>2
    <3> HIDE DEF asked
    <3>2. QED
      BY <1>1, <2>2, <3>1, AskedInOrder
  <2>3. QED
    BY <2>1, <2>2
<1>3. missing = {} <=> Present(e)
  <2> HIDE DEF asked
  <2>1. CASE urlRequired
    <3>1. DOMAIN asked = {1, 2, 3, 4}
      BY <1>2, <2>1
    <3>2. QED
      BY <1>2, <2>1, <3>1 DEF Present
  <2>2. CASE ~ urlRequired
    <3>1. DOMAIN asked = {1, 2, 3}
      BY <1>2, <2>2
    <3>2. QED
      BY <1>2, <2>2, <3>1 DEF Present
  <2>3. QED
    BY <2>1, <2>2
<1>4. checkRequiredEnv(e) = IF missing # {} THEN [kind |-> "missing", names |-> {asked[Min(missing)]}]
                              ELSE IF assertEnvShape(e) # {} THEN [kind |-> "shape", names |-> assertEnvShape(e)]
                              ELSE NoFault
  BY DEF checkRequiredEnv, Check
<1> HIDE DEF missing, asked
<1>5. QED
  BY <1>3, <1>4

-------------------------------------------------------------------------------
(* A boot that serves has found the shapes right and nothing missing; one    *)
(* that complains of shapes has at least found nothing missing.            *)
LEMMA BootKeeps ==
  ASSUME EnvironmentInv, Boot
  PROVE  EnvironmentInv'
<1>1. fault' = checkRequiredEnv(env)
  BY DEF Boot
<1>2. CASE fault' = NoFault
  <2>1. Present(env) /\ assertEnvShape(env) = {}
    <3>1. checkRequiredEnv(env).kind = "none"
      BY <1>1, <1>2 DEF NoFault
    <3>2. QED
      BY <3>1, CheckVerdict
  <2>2. \A n \in ENV_SHAPES : env[n] # "" => env[n] \in RightValues(n)
    BY <2>1 DEF assertEnvShape
  <2>3. /\ env["MONGODB_URI"] \in Databases /\ env["STATIC_FOLDER"] = "right"
        /\ env["REDIS_IS_CLUSTER"] = "1" \/ env["REDIS_URL"] = "right"
    <3>1. /\ RightValues("MONGODB_URI") = Databases /\ RightValues("STATIC_FOLDER") = {"right"}
          /\ RightValues("REDIS_URL") = {"right"}
      BY DEF RightValues, DatabaseNames
    <3>2. QED
      BY <2>1, <2>2, <3>1 DEF Present, ENV_SHAPES, ServiceNames
  <2>4. process' = "serving" /\ dialled' = [redis |-> RedisConnect(env), db |-> env["MONGODB_URI"],
                                           static |-> env["STATIC_FOLDER"]]
    BY <1>2 DEF Boot
  <2>5. RedisConnect(env) \in {"cluster", "right"}
    BY <2>1, <2>3 DEF Present, RedisConnect
  <2>6. ServesWhole'
    BY <2>3, <2>4, <2>5 DEF ServesWhole
  <2>7. NothingMissing'
    <3>1. fault'.kind = "none"
      BY <1>2 DEF NoFault
    <3>2. QED
      BY <3>1 DEF NothingMissing
  <2>8. QED
    BY <2>6, <2>7 DEF Boot, EnvironmentInv, EnvironmentTypes, OwnDatabase
<1>3. CASE fault' # NoFault
  <2>1. NothingMissing'
    <3>1. fault'.kind = "shape" => Present(env) /\ fault'.names = assertEnvShape(env)
      BY <1>1, <1>3, CheckVerdict
    <3>2. "REDIS_IS_CLUSTER" \in assertEnvShape(env) => env["REDIS_IS_CLUSTER"] # "1"
      <4>1. RightValues("REDIS_IS_CLUSTER") = {"0", "1"}
        BY DEF RightValues, DatabaseNames
      <4>2. QED
        BY <4>1 DEF assertEnvShape
    <3>3. QED
      BY <3>1, <3>2 DEF Boot, NothingMissing, Present
  <2>2. QED
    BY <1>3, <2>1 DEF Boot, EnvironmentInv, EnvironmentTypes, OwnDatabase, ServesWhole
<1>4. QED
  BY <1>2, <1>3

LEMMA ServeKeeps ==
  ASSUME EnvironmentInv, Serve \/ Stop
  PROVE  EnvironmentInv'
BY DEF Serve, Stop, EnvironmentInv, EnvironmentTypes, NothingMissing, OwnDatabase, ServesWhole

(* A value of a name keeps the file a file.                                 *)
LEMMA OneName ==
  ASSUME env \in AllEnvironments, NEW n, n \in Names => \E v \in Values(n) : env' = [env EXCEPT ![n] = v],
         n \notin Names => env' = env
  PROVE  env' \in AllEnvironments /\ \A m \in Names : m # n => env'[m] = env[m]
BY DEF AllEnvironments

LEMMA RepairKeeps ==
  ASSUME EnvironmentInv, Repair
  PROVE  EnvironmentInv'
<1>1. PICK n \in fault.names : \E v \in Values(n) \ {""} : env' = [env EXCEPT ![n] = v]
  BY DEF Repair
<1>2. PICK v \in Values(n) \ {""} : env' = [env EXCEPT ![n] = v]
  BY <1>1
<1>3. n \notin Names => env' = env
  BY <1>2 DEF EnvironmentInv, EnvironmentTypes, AllEnvironments
<1>4. env' \in AllEnvironments /\ \A m \in Names : m # n => env'[m] = env[m]
  BY <1>2, <1>3, OneName DEF EnvironmentInv, EnvironmentTypes
<1>5. n \in Names => env'[n] # ""
  BY <1>2 DEF EnvironmentInv, EnvironmentTypes, AllEnvironments
<1>6. NothingMissing'
  BY <1>1, <1>4, <1>5 DEF Repair, EnvironmentInv, NothingMissing, Names, ServiceNames
<1>7. QED
  BY <1>4, <1>6 DEF Repair, EnvironmentInv, EnvironmentTypes, OwnDatabase, ServesWhole

LEMMA RetargetKeeps ==
  ASSUME EnvironmentInv, Retarget
  PROVE  EnvironmentInv'
<1>1. PICK n \in DatabaseNames \cup {"MONGODB_URI"}, d \in Databases : env' = [env EXCEPT ![n] = d]
  BY DEF Retarget
<1>2. n \in Names /\ d \in Values(n) /\ d # "" /\ n \notin {"REDIS_IS_CLUSTER", "REDIS_URL", "STATIC_FOLDER"}
  BY EnvironmentAssumption DEF Names, ServiceNames, REQUIRED, DatabaseNames, Values, RightValues
<1>3. env' \in AllEnvironments /\ \A m \in Names : m # n => env'[m] = env[m]
  BY <1>1, <1>2, OneName DEF EnvironmentInv, EnvironmentTypes
<1>4. env'[n] # ""
  BY <1>1, <1>2 DEF EnvironmentInv, EnvironmentTypes, AllEnvironments
<1>5. NothingMissing'
  BY <1>2, <1>3, <1>4 DEF Retarget, EnvironmentInv, NothingMissing, Names, ServiceNames
<1>6. QED
  BY <1>3, <1>5 DEF Retarget, EnvironmentInv, EnvironmentTypes, OwnDatabase, ServesWhole

-------------------------------------------------------------------------------
(* A run whose block is whole has a url of its own: the three names agree and *)
(* the service's database is another; or vitest refused the config.        *)
LEMMA StartTestsKeeps ==
  ASSUME EnvironmentInv, StartTests
  PROVE  EnvironmentInv'
<1>1. PICK project \in {"unit", "integration"} :
         run' = [project |-> project,
                 step |-> IF buildTestMongoUrl = "refused" THEN "stopped"
                          ELSE IF project = "unit" THEN "suite" ELSE "setup",
                 dev |-> dbNameFromUri(env["MONGODB_URI"]),
                 db |-> TEST_DB,
                 url |-> buildTestMongoUrl,
                 whole |-> missingTestMongoEnv = {},
                 boots |-> checkRequiredEnv([env EXCEPT !["MONGODB_URI"] = buildTestMongoUrl]) = NoFault]
  BY DEF StartTests
<1>2. \A n \in Names : env[n] \in Texts
  BY DEF EnvironmentInv, EnvironmentTypes, AllEnvironments, Texts, AllValues
<1>3. /\ dbNameFromUri(env["MONGODB_URI"]) \in Texts /\ TEST_DB \in Texts /\ buildTestMongoUrl \in Texts
  <2>1. "MONGODB_URI" \in Names /\ "MONGO_TEST_DB" \in Names /\ {"", "refused", "unconfigured"} \subseteq Texts
    BY DEF Names, ServiceNames, REQUIRED, DatabaseNames, Texts
  <2>2. QED
    BY <1>2, <2>1 DEF dbNameFromUri, TEST_DB, buildTestMongoUrl, TestUrl
<1>4. run' \in Runs
  BY <1>1, <1>3 DEF Runs
<1>5. buildTestMongoUrl # "refused" /\ missingTestMongoEnv = {} =>
        buildTestMongoUrl = TEST_DB /\ TEST_DB # dbNameFromUri(env["MONGODB_URI"])
  BY DEF buildTestMongoUrl, TestUrl
<1>6. OwnDatabase'
  BY <1>1, <1>5 DEF OwnDatabase
<1>7. QED
  BY <1>4, <1>6 DEF StartTests, EnvironmentInv, EnvironmentTypes, NothingMissing, ServesWhole

LEMMA GlobalSetupKeeps ==
  ASSUME EnvironmentInv, GlobalSetup
  PROVE  EnvironmentInv'
BY DEF GlobalSetup, EnvironmentInv, EnvironmentTypes, Runs, NothingMissing, OwnDatabase, ServesWhole

LEMMA MigrateKeeps ==
  ASSUME EnvironmentInv, Migrate
  PROVE  EnvironmentInv'
BY DEF Migrate, EnvironmentInv, EnvironmentTypes, Runs, NothingMissing, OwnDatabase, ServesWhole

LEMMA SuiteKeeps ==
  ASSUME EnvironmentInv, Suite
  PROVE  EnvironmentInv'
BY DEF Suite, EnvironmentInv, EnvironmentTypes, Runs, NothingMissing, OwnDatabase, ServesWhole

LEMMA NoRunIsRun == NoRun \in Runs
<1>1. "" \in Texts
  BY DEF Texts
<1>2. QED
  BY <1>1 DEF NoRun, Runs

LEMMA EndTestsKeeps ==
  ASSUME EnvironmentInv, EndTests
  PROVE  EnvironmentInv'
BY NoRunIsRun DEF EndTests, NoRun, EnvironmentInv, EnvironmentTypes, NothingMissing, OwnDatabase,
   ServesWhole

-------------------------------------------------------------------------------
LEMMA InitEstablishes ==
  ASSUME Init
  PROVE  EnvironmentInv
BY NoRunIsRun, EnvironmentAssumption DEF Init, NoFault, NoRun, EnvironmentInv, EnvironmentTypes,
   NothingMissing, OwnDatabase, ServesWhole

LEMMA StepKeeps ==
  ASSUME EnvironmentInv, [Next]_vars
  PROVE  EnvironmentInv'
<1>1. CASE UNCHANGED vars
  BY <1>1 DEF vars, EnvironmentInv, EnvironmentTypes, NothingMissing, OwnDatabase, ServesWhole
<1>2. QED
  BY <1>1, BootKeeps, ServeKeeps, RepairKeeps, RetargetKeeps, StartTestsKeeps, GlobalSetupKeeps,
     MigrateKeeps, SuiteKeeps, EndTestsKeeps DEF Next

(* The inductive invariant, of every behaviour, fair or not.                *)
THEOREM EnvironmentInvariance == Spec => []EnvironmentInv
<1>1. Init => EnvironmentInv
  BY InitEstablishes
<1>2. EnvironmentInv /\ [Next]_vars => EnvironmentInv'
  BY StepKeeps
<1>3. QED
  BY <1>1, <1>2, PTL DEF Spec

(* A process that serves dialled a right url, a database and a directory.    *)
THEOREM ServesNothingByDefault == Spec => []ServesWhole
<1>1. EnvironmentInv => ServesWhole
  BY DEF EnvironmentInv
<1>2. QED
  BY <1>1, EnvironmentInvariance, PTL

(* After a complaint of shapes no boot complains that a name is missing.     *)
THEOREM ShapesComeLast == Spec => MissingBeforeShape
<1>1. ASSUME EnvironmentInv, [Next]_vars
      PROVE  [fault.kind = "shape" => fault'.kind # "missing"]_fault
  <2>1. CASE Boot
    <3>1. fault' = checkRequiredEnv(env)
      BY <2>1 DEF Boot
    <3>2. fault.kind = "shape" => Present(env)
      BY <1>1, <3>1 DEF EnvironmentInv, NothingMissing, Present
    <3>3. QED
      BY <3>1, <3>2, CheckVerdict DEF NoFault
  <2>2. CASE UNCHANGED fault
    BY <2>2
  <2>3. QED
    BY <1>1, <2>1, <2>2 DEF Next, Serve, Stop, Repair, Retarget, StartTests, GlobalSetup, Migrate,
       Suite, EndTests, vars
<1>2. QED
  BY <1>1, EnvironmentInvariance, PTL DEF Spec, MissingBeforeShape

(* A run drops or overwrites a database other than the one the file it read  *)
(* gives the service, whatever the file says by then.                      *)
THEOREM TestsSpareTheService == Spec => KeepsLiveData
<1>1. ASSUME EnvironmentInv, [Next]_vars
      PROVE  [\A d \in live \ live' : d # run.dev]_live
  <2>1. CASE GlobalSetup
    BY <1>1, <2>1 DEF GlobalSetup, EnvironmentInv, OwnDatabase
  <2>2. CASE Suite
    BY <1>1, <2>2 DEF Suite, EnvironmentInv, OwnDatabase
  <2>3. CASE Serve
    BY <2>3 DEF Serve
  <2>4. CASE UNCHANGED live
    BY <2>4
  <2>5. QED
    BY <1>1, <2>1, <2>2, <2>3, <2>4 DEF Next, Boot, Stop, Repair, Retarget, StartTests, Migrate,
       EndTests, vars
<1>2. QED
  BY <1>1, EnvironmentInvariance, PTL DEF Spec, KeepsLiveData
===============================================================================
