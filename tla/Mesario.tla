------------------------------- MODULE Mesario ------------------------------
(***************************************************************************)
(* The mesario's phone, etapa-4/apurafacil-app/App.js, and the machine it  *)
(* commands over HTTP.                                                     *)
(*                                                                         *)
(* The app is one thread: what runs between two awaits is one action.  A   *)
(* handler that waits for an answer does not stop the others, nor the      *)
(* user.  Promise.race gives up an answer that is late, but not the        *)
(* request: fetch goes on, and the machine may yet serve it.               *)
(*                                                                         *)
(* The machine is Machine.tla, which Urna.tla implements.                  *)
(***************************************************************************)
EXTENDS Naturals, FiniteSets

CONSTANTS
    MaxElections,   \* bound on the elections created
    MaxSends,       \* bound on the times "Finalizar e Iniciar" is pressed
    Voters,         \* voters registered in each election
    MaxVotes,       \* bound on the votes of one election
    Attempts,       \* maxAttempts of line 834, 5
    Timers,         \* identifiers that setInterval returns
    MaxStarting     \* bound on calls of startPolling that wait

ASSUME BoundAssumption ==
    /\ MaxElections \in Nat /\ MaxSends \in Nat /\ MaxVotes \in Nat
    /\ Voters \in Nat \ {0} /\ Attempts \in Nat \ {0} /\ MaxStarting \in Nat
    /\ 0 \notin Timers

VARIABLES
    phase, list, votes, key, clean,     \* the machine
    asked,                      \* requests that may still reach it
    answered,                   \* those it has answered in time for their handler
    screen, elections, current, live, conn,     \* state of ApuraFacilApp
    timers,                     \* intervals that run
    ref,                        \* pollingInterval.current, 0 for null
    starting,                   \* calls of startPolling before their answer
    answers,                    \* answers to the polls of an interval, on their way
    create, send, next,         \* handleCreateElection, its run and its election
    ending, endOf, tries,       \* handleEndElection, its election and attempts
    final, announced,           \* finalStatus, and the winner sent to Flask
    \* history, read by properties alone
    calm,                       \* no request outlived its handler, and nobody
                                \* left the panel before a command was answered
    hasty,                      \* a screen was left before its first status
    posted                      \* the election of the last list the machine was sent

machVars == <<phase, list, votes, key, clean>>
netVars == <<asked, answered>>
appVars == <<screen, elections, current, live, conn>>
pollVars == <<timers, ref, starting, answers>>
createVars == <<create, send, next>>
endVars == <<ending, endOf, tries, final, announced>>
histVars == <<calm, hasty, posted>>
mesarioVars == <<machVars, netVars, appVars, pollVars, createVars, endVars, histVars>>

Election == 1..MaxElections
Panel == {"voting", "results"}

Urna == INSTANCE Machine WITH Lists <- Election, None <- 0, Counts <- 0..MaxVotes

Request == [op : {"configure", "start", "enable", "end"}, of : 0..MaxElections,
            run : 0..MaxSends]

TypeOK ==
    /\ phase \in {"idle", "waiting", "open", "ended"}
    /\ list \in 0..MaxElections
    /\ votes \in 0..MaxVotes
    /\ key \in {"none", "held", "voted"} /\ clean \in BOOLEAN
    /\ asked \subseteq Request /\ answered \subseteq Request
    /\ screen \in {"home"} \cup Panel
    /\ elections \in [Election -> {"none", "active", "finished"}]
    /\ current \in 0..MaxElections
    /\ live \in 0..MaxVotes /\ answers \subseteq 0..MaxVotes
    /\ conn \in {"disconnected", "connecting", "connected"}
    /\ timers \subseteq Timers /\ ref \in Timers \cup {0}
    /\ starting \in 0..MaxStarting
    /\ create \in {"none", "configure", "start"}
    /\ send \in 0..MaxSends
    /\ next \in 1..(MaxElections + 1)
    /\ ending \in {"none", "alert", "end", "status", "winner"}
    /\ endOf \in 0..MaxElections
    /\ tries \in 0..Attempts
    /\ final \in 0..MaxVotes
    /\ announced \in [of : 0..MaxElections, votes : 0..MaxVotes]
    /\ calm \in BOOLEAN /\ hasty \in BOOLEAN /\ posted \in 0..MaxElections

Init ==
    /\ Urna!Init
    /\ asked = {} /\ answered = {}
    /\ screen = "home"
    /\ elections = [e \in Election |-> "none"]
    /\ current = 0 /\ live = 0 /\ conn = "disconnected"
    /\ timers = {} /\ ref = 0 /\ starting = 0 /\ answers = {}
    /\ create = "none" /\ send = 0 /\ next = 1
    /\ ending = "none" /\ endOf = 0 /\ tries = 0
    /\ final = 0 /\ announced = [of |-> 0, votes |-> 0]
    /\ calm = TRUE /\ hasty = FALSE /\ posted = 0

-----------------------------------------------------------------------------
(* The machine serves a request, or handles a key.                           *)

Effect(r) ==
    \/ r.op = "configure" /\ Urna!Configure(r.of)
    \/ r.op = "start" /\ Urna!Start
    \/ r.op = "enable" /\ Urna!Enable
    \/ r.op = "end" /\ Urna!End

\* A handler waits for the answer and looks at it.
Awaited(r) ==
    \/ r.op = create /\ r.of = next /\ r.run = send
    \/ r.op = ending /\ r.of = endOf

\* The answer comes in time, or too late, or never.
Serve(r) ==
    /\ r \in asked
    /\ asked' = asked \ {r}
    /\ Effect(r)
    /\ \/ UNCHANGED answered
       \/ Awaited(r) /\ answered' = answered \cup {r}
    /\ posted' = IF r.op = "configure" THEN r.of ELSE posted
    /\ UNCHANGED <<appVars, pollVars, createVars, endVars, calm, hasty>>

UrnaLoop ==
    /\ Urna!Loop
    /\ UNCHANGED <<netVars, appVars, pollVars, createVars, endVars, histVars>>

-----------------------------------------------------------------------------
(* The effect on currentScreen, lines 689-735.                               *)

\* Mutant of Cleared: the cleanup forgets the interval it has to stop.
NotCleared == timers

\* clearInterval(pollingInterval.current).
Cleared == timers \ {ref}

\* setCurrentScreen(there): React runs the cleanup of the old screen and the
\* effect of the new one, if they differ.
GoTo(there) ==
    /\ screen' = there
    /\ timers' = Cleared /\ ref' = 0
    /\ starting' = IF there \in Panel THEN starting + 1 ELSE starting
    /\ starting' <= MaxStarting
    /\ hasty' = (hasty \/ starting > 0)

\* startPolling has its first status: whatever the screen is now, an interval
\* starts, and the reference to an earlier one is lost.
Started ==
    /\ starting > 0 /\ starting' = starting - 1
    /\ \E t \in Timers \ timers : timers' = timers \cup {t} /\ ref' = t
    /\ live' = votes /\ conn' = "connected"
    /\ UNCHANGED <<machVars, netVars, screen, elections, current, answers,
                   createVars, endVars, histVars>>

NotStarted ==
    /\ starting > 0 /\ starting' = starting - 1
    /\ conn' = "disconnected"
    /\ UNCHANGED <<machVars, netVars, screen, elections, current, live, timers, ref,
                   answers, createVars, endVars, histVars>>

\* Mutant of TakeStatus: the answer only shows that there is a connection.
OnlyConnected(s) ==
    /\ s \in answers /\ answers' = answers \ {s}
    /\ conn' = "connected"
    /\ UNCHANGED <<machVars, netVars, screen, elections, current, live, timers, ref, starting,
                   createVars, endVars, histVars>>

\* An interval asks for the status, and the machine answers.
Ask ==
    /\ timers # {}
    /\ answers' = answers \cup {votes}
    /\ UNCHANGED <<machVars, netVars, appVars, timers, ref, starting, createVars, endVars, histVars>>

\* Answers come in any order, and after the interval was stopped, too.
TakeStatus(s) ==
    /\ s \in answers /\ answers' = answers \ {s}
    /\ live' = s /\ conn' = "connected"
    /\ UNCHANGED <<machVars, netVars, screen, elections, current, timers, ref, starting,
                   createVars, endVars, histVars>>

\* A poll fails; it may have been asked before the interval was stopped.
MissStatus ==
    /\ conn' = "disconnected"
    /\ \/ timers # {} /\ UNCHANGED answers
       \/ \E s \in answers : answers' = answers \ {s}
    /\ UNCHANGED <<machVars, netVars, screen, elections, current, live, timers, ref, starting,
                   createVars, endVars, histVars>>

-----------------------------------------------------------------------------
(* handleCreateElection, lines 737-780.  The overlay keeps the user out.     *)

Loading == create # "none"

Configure == [op |-> "configure", of |-> next, run |-> send]
Start == [op |-> "start", of |-> next, run |-> send]

Finalizar ==
    /\ screen = "home" /\ ~Loading
    /\ send < MaxSends /\ next \in Election
    /\ send' = send + 1 /\ create' = "configure"
    /\ asked' = asked \cup {[op |-> "configure", of |-> next, run |-> send + 1]}
    /\ UNCHANGED <<machVars, answered, appVars, pollVars, next, endVars, histVars>>

\* Mutant of Configured: the answer of sendConfiguration is not looked at.
ConfiguredAnyway ==
    /\ create = "configure"
    /\ answered' = answered \ {Configure}
    /\ create' = "start"
    /\ asked' = asked \cup {Start}
    /\ UNCHANGED <<machVars, appVars, pollVars, send, next, endVars, histVars>>

\* iniciarVotacao and iniciarVotacao2 come between: their errors are logged
\* and forgotten.
Configured ==
    /\ create = "configure" /\ Configure \in answered
    /\ answered' = answered \ {Configure}
    /\ create' = "start"
    /\ asked' = asked \cup {Start}
    /\ UNCHANGED <<machVars, appVars, pollVars, send, next, endVars, histVars>>

\* A second after the answer: the new election is added, and shown.
Created ==
    /\ create = "start" /\ Start \in answered
    /\ answered' = answered \ {Start}
    /\ create' = "none"
    /\ elections' = [elections EXCEPT ![next] = "active"]
    /\ current' = next /\ next' = next + 1
    /\ GoTo("voting") /\ conn' = "connecting"
    /\ UNCHANGED <<machVars, asked, live, answers, send, endVars, calm, posted>>

\* Five seconds without an answer, or an error.
CreateFails ==
    /\ create \in {"configure", "start"} /\ create' = "none"
    /\ answered' = answered \ {Configure, Start}
    /\ calm' = (calm /\ asked \cap {Configure, Start} = {})
    /\ UNCHANGED <<machVars, asked, appVars, pollVars, send, next, endVars, hasty, posted>>

-----------------------------------------------------------------------------
(* The user moves between screens, lines 876-922 and 782-789.                *)

Enable == [op |-> "enable", of |-> 0, run |-> 0]
End(e) == [op |-> "end", of |-> e, run |-> 0]

\* The dialog of lines 803-806 is open: it keeps the user out of the screen.
Asking == ending = "alert"

Leave(there) ==
    /\ screen # there /\ ~Loading /\ ~Asking
    /\ GoTo(there)
    /\ conn' = IF there \in Panel THEN "connecting" ELSE conn
    /\ calm' = (calm /\ ending = "none" /\ Enable \notin asked)
    /\ UNCHANGED <<machVars, netVars, elections, live, answers, createVars, endVars, posted>>

\* The current election is not looked at before another is selected.
Back == screen # "home" /\ Leave("home") /\ current' = 0

Select(e) ==
    /\ screen = "home" /\ elections[e] # "none"
    /\ current' = e
    /\ Leave(IF elections[e] = "active" THEN "voting" ELSE "results")

-----------------------------------------------------------------------------
(* The voting panel: handleEnableVoter and handleEndElection, lines 791-874. *)

\* The button of line 603.
HabilitarEleitor ==
    /\ screen = "voting" /\ ~Loading /\ ~Asking
    /\ conn = "connected" /\ live < Voters
    /\ asked' = asked \cup {Enable}
    /\ UNCHANGED <<machVars, answered, appVars, pollVars, createVars, endVars, histVars>>

\* The button of line 620 opens the dialog.  Bound: one run of the handler at
\* a time (a second takes an answer of the old interval that connects the panel
\* again).
Encerrar ==
    /\ screen = "voting" /\ ~Loading /\ conn = "connected"
    /\ ending = "none" /\ ending' = "alert"
    /\ endOf' = current
    /\ UNCHANGED <<machVars, netVars, appVars, pollVars, createVars, tries, final, announced,
                   histVars>>

Cancelar ==
    /\ Asking
    /\ ending' = "none" /\ endOf' = 0
    /\ UNCHANGED <<machVars, netVars, appVars, pollVars, createVars, tries, final, announced,
                   histVars>>

\* The button of the dialog, whatever has happened since it was opened: the
\* interval is stopped.
Confirmar ==
    /\ Asking
    /\ ending' = "end"
    /\ timers' = Cleared /\ ref' = 0
    /\ conn' = "connecting"
    /\ asked' = asked \cup {End(endOf)}
    /\ UNCHANGED <<machVars, answered, screen, elections, current, live, starting, answers,
                   createVars, endOf, tries, final, announced, histVars>>

\* The panel stays, connected as it seems, and nothing polls any more.
EndFails ==
    /\ ending = "end" /\ ending' = "none" /\ endOf' = 0
    /\ conn' = "connected"
    /\ answered' = answered \ {End(endOf)}
    /\ calm' = (calm /\ End(endOf) \notin asked)
    /\ UNCHANGED <<machVars, asked, screen, elections, current, live, pollVars,
                   createVars, tries, final, announced, hasty, posted>>

\* Mutant of EndAccepted: the answer of sendCommand is not looked at.
EndAssumed ==
    /\ ending = "end"
    /\ ending' = "status"
    /\ answered' = answered \ {End(endOf)}
    /\ UNCHANGED <<machVars, asked, appVars, pollVars, createVars, endOf, tries,
                   final, announced, histVars>>

EndAccepted ==
    /\ ending = "end" /\ End(endOf) \in answered
    /\ ending' = "status"
    /\ answered' = answered \ {End(endOf)}
    /\ UNCHANGED <<machVars, asked, appVars, pollVars, createVars, endOf, tries,
                   final, announced, histVars>>

\* Mutant of MayTry: the attempts are not counted.
TryForEver == TRUE

\* The condition of the loop of lines 836-844.
MayTry == tries < Attempts

\* encerrarVotacao: of the status it gets only the winner is sent.
FinalStatus ==
    /\ ending = "status" /\ MayTry
    /\ ending' = "winner"
    /\ final' = votes
    /\ announced' = [of |-> endOf, votes |-> votes]
    /\ UNCHANGED <<machVars, netVars, appVars, pollVars, createVars, endOf, tries, histVars>>

NoFinalStatus ==
    /\ ending = "status" /\ MayTry
    /\ tries' = tries + 1
    /\ UNCHANGED <<machVars, netVars, appVars, pollVars, createVars, ending, endOf,
                   final, announced, histVars>>

\* Lines 846-863: what was known before is kept when no attempt succeeded.
Finish ==
    /\ \/ ending = "winner" /\ live' = final
       \/ ending = "status" /\ ~MayTry /\ UNCHANGED live
    /\ ending' = "none" /\ endOf' = 0 /\ tries' = 0 /\ final' = 0
    /\ elections' = [elections EXCEPT ![endOf] = "finished"]
    /\ IF screen = "results"
          THEN /\ conn' = IF ending = "winner" THEN "connected" ELSE "disconnected"
               /\ UNCHANGED <<screen, timers, ref, starting, hasty>>
          ELSE GoTo("results") /\ conn' = "connecting"
    /\ UNCHANGED <<machVars, netVars, current, answers, createVars, announced, calm, posted>>

-----------------------------------------------------------------------------
Machine == UrnaLoop \/ \E r \in asked : Serve(r)

Polling == Started \/ NotStarted \/ Ask \/ MissStatus \/ \E s \in answers : TakeStatus(s)

Creating ==
    Finalizar \/ Configured \/ Created \/ CreateFails

Ending ==
    Encerrar \/ Cancelar \/ Confirmar \/ EndFails \/ EndAccepted \/ FinalStatus \/ NoFinalStatus \/ Finish

User == Back \/ HabilitarEleitor \/ \E e \in Election : Select(e)

Next == Machine \/ Polling \/ Creating \/ Ending \/ User

Spec == Init /\ [][Next]_mesarioVars

\* An interval goes on asking, and a fetch ends in an answer or an error; from
\* time to time it is an answer.
Fairness ==
    /\ WF_mesarioVars(Ask) /\ WF_mesarioVars(Started \/ NotStarted)
    /\ \A s \in 0..MaxVotes : SF_mesarioVars(TakeStatus(s))
    /\ WF_mesarioVars(EndFails \/ EndAccepted)
    /\ WF_mesarioVars(FinalStatus \/ NoFinalStatus \/ Finish)

FairSpec == Spec /\ Fairness

-----------------------------------------------------------------------------
(* Properties.                                                               *)

\* When an election is added and shown the machine waits for its first voter,
\* with zero tallies and its list or none, never that of another election,
\* whatever runs of the handler failed before (lines 741-757).  Not so when
\* /start came inside the handling of a key.
ElectionIsReady ==
    calm /\ clean /\ create = "start" /\ Start \in answered =>
        phase = "waiting" /\ list \in {0, next} /\ votes = 0

\* The winner sent to the key server is that of the final tally: no vote of
\* that election is counted after it, although enables and status answers may
\* still be on their way when the election is ended (lines 822-849), and the
\* key a voter holds may still be handled.  Not so when /end came inside the
\* handling.
WinnerStands ==
    calm /\ clean /\ announced.of # 0 /\ posted = announced.of => votes = announced.votes

\* Leaving a panel stops its polling: an interval that goes on with nobody to
\* stop it comes only of leaving a screen before its first status arrived
\* (lines 700-710).
PollingIsStopped ==
    ~hasty => /\ timers \subseteq {ref}
              /\ screen \notin Panel => timers = {}

\* The panel catches up with the machine, although answers may overtake each
\* other, as long as an interval runs (lines 710-719).
PanelCatchesUp ==
    screen = "voting" /\ timers # {} ~>
        live = votes \/ screen # "voting" \/ timers = {}

-----------------------------------------------------------------------------
(* What the documents promise and the code does not keep.                    *)

\* RNF-2: votes that were counted are not lost when the connection fails: only
\* the creation of an election zeroes them.  A /start that was given up is
\* served when the election it had been sent for again is under way.
VotesAreNotLost == [][votes' < votes => Loading]_mesarioVars

=============================================================================
