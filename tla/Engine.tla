-------------------------------- MODULE Engine --------------------------------
(***************************************************************************)
(* The life of the program around Trading: main() loads a configuration,   *)
(* VenueFactory connects its venues one after another, the loops run until *)
(* a signal or a crashed feed, and _teardown cancels the loops, cancels    *)
(* the orders of every venue and closes the venues one after another.  The *)
(* execute() tasks are not among what it cancels: they go on, over the     *)
(* sessions that are still open, until asyncio.run cancels what is left.   *)
(***************************************************************************)
EXTENDS Trading, Configuration

CONSTANT Configs  \* the configurations load() may find

ASSUME EngineAssumption ==
  \A cfg \in Configs :
    /\ cfg.enabled \in Seq(Venues)
    /\ Valid(cfg) => Connected \subseteq EnabledVenues(cfg)

VARIABLES
  config,    \* the EngineConfig
  phase,     \* where main() stands
  next,      \* the venue that create_all or _teardown is at
  sessions,  \* venues whose HTTP session is open
  raised,    \* venues whose connect() or close() raised
  late       \* calls made after the session of their venue was closed

lifeVars == <<config, phase, next, sessions, raised, late>>
engineVars == <<vars, lifeVars>>

Starting == {"loading", "connecting"}
Running  == {"live", "cancelling", "closing"}
Ended    == {"refused", "aborted", "exited"}
Phases   == Starting \cup Running \cup {"stopping"} \cup Ended

EngineInit ==
  /\ Init
  /\ config \in Configs
  /\ phase = "loading"
  /\ next = 1
  /\ sessions = {}
  /\ raised = {}
  /\ late = {}

\* The program goes from one place to another.
Enter(from, to) == phase = from /\ phase' = to

-----------------------------------------------------------------------------
\* Startup

\* Mutant: the configuration is read but not validated.
LoadUnchecked ==
  /\ Enter("loading", "connecting")
  /\ UNCHANGED <<vars, config, next, sessions, raised, late>>

\* main() loads the configuration, or exits.
Load ==
  /\ Enter("loading", IF Valid(config) THEN "connecting" ELSE "refused")
  /\ UNCHANGED <<vars, config, next, sessions, raised, late>>

\* create_all: the next venue connects.
Connect ==
  /\ phase = "connecting" /\ next <= Len(config.enabled)
  /\ config.enabled[next] \in Connected
  /\ sessions' = sessions \cup {config.enabled[next]}
  /\ next' = next + 1
  /\ UNCHANGED <<vars, config, phase, raised, late>>

\* connect() may raise after the session is opened where it goes on to ask
\* something of the venue or to read a key.
OpensFirst == {"kraken", "lighter"}

\* The constructor or connect() raises, the latter with a session opened.
\* The error is logged, and raised again if the venue is required; nothing
\* is closed.
ConnectFails ==
  /\ phase = "connecting" /\ next <= Len(config.enabled)
  /\ LET venue == config.enabled[next]
     IN  /\ venue \notin Connected
         /\ raised' = raised \cup {venue}
         /\ \/ sessions' = sessions
            \/ Kind[venue] \in OpensFirst /\ sessions' = sessions \cup {venue}
         /\ phase' = IF venue \in config.required THEN "aborted" ELSE "connecting"
  /\ next' = next + 1
  /\ UNCHANGED <<vars, config, late>>

\* start() creates its loops and waits for the shutdown event.
GoLive ==
  /\ next > Len(config.enabled)
  /\ Enter("connecting", "live")
  /\ UNCHANGED <<vars, config, next, sessions, raised, late>>

-----------------------------------------------------------------------------
\* While it runs

\* The detection loop finds deals of the configured pairs only.
OfPairs ==
  \A o \in Spawned : \E pair \in config.pairs : pair.buy = deal[o].buy /\ pair.sell = deal[o].sell

Loops ==
  /\ phase = "live"
  /\ UNCHANGED lifeVars
  /\ (Detect /\ OfPairs') \/ AuditTick \/ FeedStale

\* A call over a closed session; the swap has a connection of its own,
\* which close() leaves open.
Unreachable(o, c) == ~IsSwap(o, c) /\ VenueOf(o, c) \notin sessions

\* The calls that a step of o makes, and those that were answered in it.
Made(o)     == waiting'[o] \ waiting[o]
Answered(o) == waiting[o] \ waiting'[o]

\* A task runs.  Over a closed session every connector catches the error and
\* answers None: an order sent before may have executed, a later one not.
RunTask(o) ==
  /\ phase \in Running
  /\ TaskStep(o)
  /\ UNCHANGED <<config, phase, next, sessions, raised>>
  /\ \A c \in Answered(o) : Unreachable(o, c) =>
       fill'[o][c] = NoFill /\ (<<o, c>> \in late => did'[o][c] = 0)
  /\ late' = late \cup {<<o, c>> : c \in {x \in Made(o) : Unreachable(o, x)'}}

-----------------------------------------------------------------------------
\* Teardown

\* SIGINT, SIGTERM or an exception out of a feed sets the shutdown event, and
\* start() goes on with _teardown: the loops are cancelled and
\* cancel_all_orders of every venue is called.
Teardown ==
  /\ Enter("live", "cancelling")
  /\ UNCHANGED <<vars, config, next, sessions, raised, late>>

\* cancel_all_open_orders returns: its gather has heard of every venue, and
\* an exception is only logged.
OrdersCancelled ==
  /\ Enter("cancelling", "closing")
  /\ next' = 1
  /\ UNCHANGED <<vars, config, sessions, raised, late>>

\* close() may raise before the session is closed where it closes the
\* socket of the feed first.
ClosesFeedFirst == {"binance", "hyperliquid"}

\* _teardown comes to the next venue of the configuration; one that did not
\* connect is not in the dict.
Closing ==
  /\ phase = "closing" /\ next <= Len(config.enabled)
  /\ UNCHANGED <<vars, config, late>>

Skip ==
  /\ Closing /\ config.enabled[next] \notin Connected
  /\ next' = next + 1
  /\ UNCHANGED <<phase, sessions, raised>>

Closed(venue) == sessions' = sessions \ {venue} /\ UNCHANGED raised

CloseFailed(venue) ==
  /\ Kind[venue] \in ClosesFeedFirst
  /\ raised' = raised \cup {venue} /\ UNCHANGED sessions

\* Mutant: an exception out of close() leaves _teardown.
CloseRaises(venue) ==
  /\ \/ Closed(venue) /\ UNCHANGED phase
     \/ CloseFailed(venue) /\ phase' = "stopping"
  /\ next' = next + 1

\* Mutant: a venue that failed to close is closed again.
CloseRetries(venue) ==
  /\ \/ venue \notin raised /\ Closed(venue) /\ next' = next + 1
     \/ CloseFailed(venue) /\ UNCHANGED next
  /\ UNCHANGED phase

\* An exception out of close() is logged.
CloseVenue(venue) ==
  /\ Closed(venue) \/ CloseFailed(venue)
  /\ next' = next + 1
  /\ UNCHANGED phase

Close == Closing /\ config.enabled[next] \in Connected /\ CloseVenue(config.enabled[next])

\* main() returns, and asyncio.run cancels every task there is.
Stop ==
  /\ next > Len(config.enabled)
  /\ Enter("closing", "stopping")
  /\ UNCHANGED <<vars, config, next, sessions, raised, late>>

\* What a call in flight may have executed when its task is cancelled
Executable(o, c) == IF <<o, c>> \in late THEN {0} ELSE Executed(Quantity(o, c))

CancelTask(o) ==
  /\ phase = "stopping"
  /\ \E executed \in [waiting[o] -> UNION {Executable(o, c) : c \in waiting[o]}] :
       /\ \A c \in waiting[o] : executed[c] \in Executable(o, c)
       /\ Cancel(o, executed)
  /\ UNCHANGED lifeVars

Exit ==
  /\ \A o \in Opps : pc[o] \in {"idle", "done"}
  /\ Enter("stopping", "exited")
  /\ UNCHANGED <<vars, config, next, sessions, raised, late>>

-----------------------------------------------------------------------------
Lifecycle ==
  \/ Load \/ Connect \/ ConnectFails \/ GoLive
  \/ OrdersCancelled \/ Skip \/ Close \/ Stop \/ Exit

EngineNext ==
  \/ Lifecycle
  \/ Loops
  \/ Teardown
  \/ \E o \in Opps : RunTask(o) \/ CancelTask(o)

EngineSpec == EngineInit /\ [][EngineNext]_engineVars

\* main() goes on whenever it can: connecting, cancelling and closing end by
\* aiohttp's timeouts.  Tasks are scheduled as in Trading.  Nothing sends a
\* signal, crashes a feed or finds a deal for certain.
EngineFairness ==
  /\ WF_engineVars(Lifecycle)
  /\ \A o \in Opps : WF_engineVars(RunTask(o) \/ CancelTask(o))

FairEngineSpec == EngineSpec /\ EngineFairness

-----------------------------------------------------------------------------
\* Properties

EngineTypeOK ==
  /\ TypeOK
  /\ config \in Configs
  /\ phase \in Phases
  /\ next \in Nat \ {0}
  /\ sessions \subseteq Venues
  /\ raised \subseteq Venues
  /\ late \subseteq Opps \X Calls
  /\ phase \notin {"loading", "refused"} => Valid(config)

\* However an execution ends, by itself or cancelled at any of its awaits or
\* before it ran, the program exits with nothing open in the ledger
\* (router.py:107-109).
LedgerEmptyAtExit ==
  phase = "exited" => risk.open = 0 /\ \A o \in Opps : risk.orders[o] = 0

\* A leg the program leaves naked when it exits is flagged, is one of the
\* four cases the router does not look at, or belongs to an execution that
\* was cancelled or raised: an unwind that meets a session already closed
\* by the teardown is never taken for done (router.py:242-260, engine.py:161-167).
ExitExplained ==
  phase = "exited" =>
    \A o \in Opps : pc[o] = "done" /\ Naked(o) =>
      \/ result[o].unwind_failed \/ result[o].end \in {"cancelled", "raised"}
      \/ Misreported(o) \/ PartialIgnored(o) \/ ShortUnwind(o) \/ ShortSecondLeg(o)

\* A session that is still open when the program exits is of a venue whose
\* connect() or close() raised: one that fails does not keep the others
\* from being closed (engine.py:163-167, factory.py:46-49).
SessionsAccounted == phase = "exited" => sessions \subseteq raised

\* An opportunity is dropped for a missing venue only because connect() of
\* an enabled venue failed: the configuration names no venue that startup
\* does not try (config.py:227-237, router.py:81-84).
DropsAreFailures ==
  \A o \in Opps : result[o].end = "dropped" => {deal[o].buy, deal[o].sell} \cap raised # {}

\* A shutdown ends the program, whatever the executions are doing and
\* whichever venue fails to cancel or close.
ShutdownCompletes == phase = "cancelling" ~> phase = "exited"
=============================================================================
