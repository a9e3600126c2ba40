------------------------------- MODULE Lifecycle -------------------------------
(***************************************************************************)
(* The process: its boot, the requests it serves, and every way it exits.  *)
(*                                                                         *)
(* An exit is a path of its own through the code, from what begins it (a   *)
(* boot that fails, a signal, an error nobody caught) to process.exit, and *)
(* several may be under way at once: the first to arrive ends the others.  *)
(* Apollo, the HTTP server, the databases, clamd and Sentry are external:  *)
(* each may answer, fail or, where nothing below says otherwise, not       *)
(* answer at all.                                                          *)
(***************************************************************************)
EXTENDS Naturals

CONSTANTS Signals,      \* deliveries of SIGTERM or SIGINT
          Errors,       \* uncaught exceptions and unhandled rejections
          MaxRequests

(* What begins an exit is one of the three.                                *)
ASSUME LifecycleAssumption ==
  /\ MaxRequests \in Nat
  /\ "boot" \notin Signals \cup Errors /\ Signals \cap Errors = {}

Exits == {"boot"} \cup Signals \cup Errors
Links == {"mongo", "redis"}

BootSteps == {"env", "connect", "namespace", "encryption", "scanner", "signatures",
              "createServer", "listen", "up", "failed"}

Steps == {"idle", "drain", "disconnect", "flush", "overdue"}

Events == [exit : Exits, about : {"cause", "disconnect", "signatures"}]
Event(x, what) == [exit |-> x, about |-> what]

VARIABLES
  boot,       \* the step start() awaits
  link,       \* database -> its connection
  listening,  \* the HTTP server takes connections
  requests,   \* the number of requests being answered
  pc,         \* exit -> its next step
  code,       \* exit -> the code it will leave with
  queue,      \* the events captured and not sent yet
  awaited,    \* exit -> the events its flush waits for
  exit        \* how the process left, "running" as long as it has not

vars == <<boot, link, listening, requests, pc, code, queue, awaited, exit>>

Init ==
  /\ boot = "env"
  /\ link = [l \in Links |-> "off"]
  /\ listening = FALSE
  /\ requests = 0
  /\ pc = [x \in Exits |-> "idle"]
  /\ code = [x \in Exits |-> "one"]
  /\ queue = {}
  /\ awaited = [x \in Exits |-> {}]
  /\ exit = "running"

-------------------------------------------------------------------------------
Capture(x, what) == queue' = queue \cup {Event(x, what)}

(* Mutant: process.exit does not wait for the flush.                       *)
Flush_NotAwaited(x, what) ==
  /\ Capture(x, what)
  /\ awaited' = [awaited EXCEPT ![x] = {}]
  /\ pc' = [pc EXCEPT ![x] = "flush"]

(* captureException or captureMessage, then Sentry.flush(2000): it resolves *)
(* when what the queue held by then is sent, or after its two seconds.     *)
Flush(x, what) ==
  /\ Capture(x, what)
  /\ awaited' = [awaited EXCEPT ![x] = queue \cup {Event(x, what)}]
  /\ pc' = [pc EXCEPT ![x] = "flush"]

Sent(e) ==
  /\ queue' = queue \ {e}
  /\ awaited' = [x \in Exits |-> awaited[x] \ {e}]
  /\ UNCHANGED <<boot, link, listening, requests, pc, code, exit>>

(* Sentry cannot be reached in time: flush resolves all the same.           *)
FlushOverdue(x) ==
  /\ pc[x] = "flush"
  /\ pc' = [pc EXCEPT ![x] = "overdue"]
  /\ awaited' = [awaited EXCEPT ![x] = {}]
  /\ UNCHANGED <<boot, link, listening, requests, code, queue, exit>>

processExit(x) ==
  /\ pc[x] \in {"flush", "overdue"}
  /\ awaited[x] = {}
  /\ exit' = code[x]
  /\ UNCHANGED <<boot, link, listening, requests, pc, code, queue, awaited>>

-------------------------------------------------------------------------------
(* start(): a step that throws goes to disconnectAllDatabases(1); but        *)
(* checkRequiredEnv throws outside the try, to the catch of the entrypoint. *)

(* The steps of the try that may throw, and what each is followed by.       *)
After == [connect |-> "namespace", namespace |-> "encryption", encryption |-> "scanner",
          scanner |-> "signatures", createServer |-> "listen"]

(* reportClamSignatureAge is the one awaited step that throws nothing.       *)
BootFails ==
  /\ boot \in DOMAIN After
  /\ pc["boot"] = "idle"
  /\ boot' = "failed"
  /\ Capture("boot", "cause")
  /\ pc' = [pc EXCEPT !["boot"] = "disconnect"]
  /\ UNCHANGED <<link, listening, requests, code, awaited, exit>>

(* Mutant: the entrypoint reports the failure and lets node run out of work. *)
checkRequiredEnv_NoExit ==
  /\ boot = "env"
  /\ \/ boot' = "connect" /\ link' = [l \in Links |-> "connecting"]
        /\ UNCHANGED <<pc, code, queue, awaited>>
     \/ boot' = "failed" /\ Flush("boot", "cause") /\ code' = [code EXCEPT !["boot"] = "zero"]
        /\ UNCHANGED link
  /\ UNCHANGED <<listening, requests, exit>>

checkRequiredEnv ==
  /\ boot = "env"
  /\ \/ boot' = "connect" /\ link' = [l \in Links |-> "connecting"]
        /\ UNCHANGED <<pc, queue, awaited>>
     \/ boot' = "failed" /\ Flush("boot", "cause") /\ UNCHANGED link
  /\ UNCHANGED <<listening, requests, code, exit>>

Connected(l) ==
  /\ link[l] = "connecting"
  /\ link' = [link EXCEPT ![l] = "on"]
  /\ UNCHANGED <<boot, listening, requests, pc, code, queue, awaited, exit>>

(* Mutant: the databases are connected one without awaiting the other.     *)
BootStep_AnyConnected ==
  /\ boot \in DOMAIN After
  /\ boot = "connect" => \E l \in Links : link[l] = "on"
  /\ boot' = After[boot]
  /\ UNCHANGED <<link, listening, requests, pc, code, queue, awaited, exit>>

(* Promise.all of the two connections, assertRedisNamespace,                *)
(* setupFieldEncryption, initClamScan, then createServer.                   *)
BootStep ==
  /\ boot \in DOMAIN After
  /\ boot = "connect" => \A l \in Links : link[l] = "on"
  /\ boot' = After[boot]
  /\ UNCHANGED <<link, listening, requests, pc, code, queue, awaited, exit>>

(* Mutant: clamd is asked without a deadline, and may never answer.         *)
reportClamSignatureAge_NoDeadline ==
  /\ boot = "signatures"
  /\ UNCHANGED vars

(* Fresh; or stale, unreadable or not answered within its deadline, which   *)
(* is reported.  The boot goes on in any case.                             *)
reportClamSignatureAge ==
  /\ boot = "signatures"
  /\ boot' = "createServer"
  /\ UNCHANGED queue \/ Capture("boot", "signatures")
  /\ UNCHANGED <<link, listening, requests, pc, code, awaited, exit>>

(* The promise of start() resolves in the listening callback, and the       *)
(* entrypoint then installs the signal handlers.  A port that cannot be     *)
(* bound is an `error` event nobody listens to: onUncaughtException.        *)
Listen ==
  /\ boot = "listen"
  /\ boot' = "up"
  /\ listening' = TRUE
  /\ UNCHANGED <<link, requests, pc, code, queue, awaited, exit>>

-------------------------------------------------------------------------------
Arrive ==
  /\ listening
  /\ requests < MaxRequests
  /\ requests' = requests + 1
  /\ UNCHANGED <<boot, link, listening, pc, code, queue, awaited, exit>>

(* Answered, or cut off by the drain plugin at the end of its grace period. *)
Answered ==
  /\ requests > 0
  /\ requests' = requests - 1
  /\ UNCHANGED <<boot, link, listening, pc, code, queue, awaited, exit>>

-------------------------------------------------------------------------------
(* onUnhandledRejection, onUncaughtException: the cause is captured, and the *)
(* exit chained onto the flush.                                            *)
onUncaughtException(x) ==
  /\ x \in Errors
  /\ pc[x] = "idle"
  /\ Flush(x, "cause")
  /\ UNCHANGED <<boot, link, listening, requests, code, exit>>

(* Before the handlers are there a signal takes its default action.         *)
Killed(x) ==
  /\ x \in Signals /\ pc[x] = "idle"
  /\ boot # "up"
  /\ exit' = "killed"
  /\ UNCHANGED <<boot, link, listening, requests, pc, code, queue, awaited>>

(* Mutant: Apollo is stopped without awaiting it, nor is the server's close. *)
gracefulShutdown_NoDrain(x) ==
  /\ x \in Signals /\ pc[x] = "idle"
  /\ boot = "up"
  /\ Capture(x, "cause")
  /\ listening' = FALSE
  /\ code' = [code EXCEPT ![x] = "zero"]
  /\ pc' = [pc EXCEPT ![x] = "disconnect"]
  /\ UNCHANGED <<boot, link, requests, awaited, exit>>

(* Apollo's drain plugin stops the server from taking connections.         *)
gracefulShutdown(x) ==
  /\ x \in Signals /\ pc[x] = "idle"
  /\ boot = "up"
  /\ Capture(x, "cause")
  /\ listening' = FALSE
  /\ code' = [code EXCEPT ![x] = "zero"]
  /\ pc' = [pc EXCEPT ![x] = "drain"]
  /\ UNCHANGED <<boot, link, requests, awaited, exit>>

(* Once apolloServer.stop() resolves, httpServer.close calls back when the  *)
(* last connection has ended, also when a second signal calls it again.     *)
Drained(x) ==
  /\ pc[x] = "drain"
  /\ requests = 0
  /\ pc' = [pc EXCEPT ![x] = "disconnect"]
  /\ UNCHANGED <<boot, link, listening, requests, code, queue, awaited, exit>>

(* A stop that rejects is an unhandled rejection.                          *)
StopFails(x) ==
  /\ pc[x] = "drain"
  /\ code' = [code EXCEPT ![x] = "one"]
  /\ Flush(x, "disconnect")
  /\ UNCHANGED <<boot, link, listening, requests, exit>>

Disconnected(x, l) ==
  /\ pc[x] = "disconnect"
  /\ link[l] # "off"
  /\ link' = [link EXCEPT ![l] = "off"]
  /\ UNCHANGED <<boot, listening, requests, pc, code, queue, awaited, exit>>

(* Mutant: no timeout races the databases.                                 *)
disconnectAllDatabases_NoTimeout(x) ==
  /\ pc[x] = "disconnect"
  /\ \A l \in Links : link[l] = "off"
  /\ UNCHANGED code
  /\ Flush(x, "disconnect")
  /\ UNCHANGED <<boot, link, listening, requests, exit>>

(* Both databases answered; or one failed, or the five seconds were over.   *)
disconnectAllDatabases(x) ==
  /\ pc[x] = "disconnect"
  /\ \/ (\A l \in Links : link[l] = "off") /\ UNCHANGED code
     \/ code' = [code EXCEPT ![x] = "one"]
  /\ Flush(x, "disconnect")
  /\ UNCHANGED <<boot, link, listening, requests, exit>>

-------------------------------------------------------------------------------
Boot == checkRequiredEnv \/ BootStep \/ BootFails \/ reportClamSignatureAge \/ Listen

(* The steps of the boot that wait for nobody else, or not without limit.    *)
BoundedBoot ==
  \/ checkRequiredEnv \/ reportClamSignatureAge \/ Listen
  \/ boot = "createServer" /\ (BootStep \/ BootFails)

Leave(x) == Drained(x) \/ disconnectAllDatabases(x) \/ FlushOverdue(x) \/ processExit(x)

Next ==
  /\ exit = "running"
  /\ \/ Boot
     \/ \E l \in Links : Connected(l)
     \/ Arrive \/ Answered
     \/ \E e \in queue : Sent(e)
     \/ \E x \in Exits : \/ onUncaughtException(x) \/ Killed(x) \/ gracefulShutdown(x)
                         \/ Leave(x) \/ StopFails(x)
                         \/ \E l \in Links : Disconnected(x, l)

Spec == Init /\ [][Next]_vars

Running(A) == exit = "running" /\ A

(* The event loop runs what is due: a timer, a callback, the next await.    *)
(* Requests are bounded by the drain of Apollo's plugin, a flush and the    *)
(* disconnection by their timers, clamd's answer by its own.  Nothing is    *)
(* asked of what this code sets no limit to: a connection, the first words  *)
(* with Redis, the key vault or clamd, an event on its way to Sentry, a     *)
(* database told to disconnect.                                            *)
Fairness ==
  /\ WF_vars(Running(BoundedBoot))
  /\ WF_vars(Running(Answered /\ ~ listening))
  /\ \A x \in Exits : WF_vars(Running(Leave(x)))

FairSpec == Spec /\ Fairness

-------------------------------------------------------------------------------
(* The variables keep their shape, and the server listens only at the end   *)
(* of the boot and with both databases behind it.                          *)
TypeOK ==
  /\ boot \in BootSteps
  /\ link \in [Links -> {"off", "connecting", "on"}]
  /\ listening \in BOOLEAN
  /\ requests \in 0 .. MaxRequests
  /\ pc \in [Exits -> Steps]
  /\ code \in [Exits -> {"zero", "one"}]
  /\ queue \subseteq Events
  /\ awaited \in [Exits -> SUBSET Events]
  /\ exit \in {"running", "zero", "one", "killed"}
  /\ listening => boot = "up" /\ \A l \in Links : link[l] = "on"

(* A database is never taken away from a request being answered: whatever   *)
(* the signals, requests are drained before the databases disconnect.      *)
DatabasesOutliveRequests == requests > 0 => \A l \in Links : link[l] = "on"

(* The process reports success only for a service that came up, was asked   *)
(* to stop and let go of everything: a failed boot, an error or a hung      *)
(* disconnect never looks like a clean shutdown.                           *)
ZeroMeansAsked ==
  exit = "zero" =>
    /\ boot = "up" /\ ~ listening /\ requests = 0
    /\ \E x \in Signals : pc[x] \in {"flush", "overdue"}
    /\ \A l \in Links : link[l] = "off"

(* The exit that leaves has sent all it captured itself, the scanner's and   *)
(* the boot's own words included, whatever other exits are doing short of   *)
(* their own flush: disconnectAllDatabases, the handlers and the entrypoint *)
(* flush between their last event and process.exit.  Only Sentry out of     *)
(* reach for two seconds excuses it.                                       *)
NothingUnsent ==
  \A x \in Exits :
    /\ exit \in {"zero", "one"}
    /\ pc[x] = "flush"
    /\ \A y \in Exits \ {x} : pc[y] \notin {"flush", "overdue"}
    => \A e \in queue : e.exit # x

(* The comment of onUnhandledRejection: chained onto the flush or ordered    *)
(* after it, "either way the event has left the process before it dies".    *)
(* But the flush of another exit may end first, and its process.exit with   *)
(* it: the error is never heard of, even when no flush ran out of time.     *)
CauseIsReported ==
  /\ exit \in {"zero", "one"}
  /\ \A x \in Exits : pc[x] # "overdue"
  => \A x \in Errors : Event(x, "cause") \notin queue

(* A service asked to stop stops, though a database never answers, and      *)
(* however many signals arrive on top of one another.                      *)
StopsWhenAsked == \A x \in Signals : pc[x] = "drain" ~> exit # "running"

(* A boot that has reached its scanner comes up or leaves, and one that      *)
(* failed leaves: a clamd that takes connections and never tells its        *)
(* version, or a database that never lets go, does not hold the process.    *)
BootSettles ==
  boot \in {"signatures", "createServer", "listen", "failed"}
    ~> boot = "up" \/ exit # "running"
===============================================================================
