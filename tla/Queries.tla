------------------------------ MODULE Queries ------------------------------
(***************************************************************************)
(* The sequence server between a client's query and its answer             *)
(* (SequenceServer.py, FeatureFlagContext.py): feature flags are set for   *)
(* the query, a joint task is negotiated between the robots' agents        *)
(* (NegotiationHub.py, RobotLLMAgent.py), anything else, and a failed      *)
(* negotiation, goes to the parser (CommandParser.py), and the plan runs   *)
(* on the one executor (SequenceExecutor.py). Every connection has a       *)
(* thread: queries overlap, and share the flags and the executor's         *)
(* variables. What a language model answers is any of a set of plans.      *)
(***************************************************************************)
EXTENDS Plans

CONSTANTS Queries,        \* connections with one query each
          Asks,           \* for each, the queries its client may send
          Proposals,      \* plans an agent may propose
          Answers,        \* plans the model may give the parser, fresh or cached
          Patterns,       \* plans of the parser's regular expressions
          MaxRounds,      \* MAX_NEGOTIATION_ROUNDS
          Defaults        \* the configured values of the flags

(* The flags that can be overridden. *)
Flags == {"ros", "negotiation"}

ASSUME RoundsAssumption == MaxRounds \in Nat \ {0}
ASSUME DefaultsAssumption == Defaults \in [Flags -> BOOLEAN]

ASSUME AsksAssumption ==
    \A q \in Queries : \A a \in Asks[q] :
        /\ a = [kind |-> a.kind, joint |-> a.joint, auto |-> a.auto, robot |-> a.robot,
                flags |-> a.flags, plan |-> a.plan]
        /\ a.auto \in BOOLEAN /\ IsPlan(a.plan)
        /\ DOMAIN a.flags \subseteq Flags /\ a.flags \in [DOMAIN a.flags -> BOOLEAN]

ASSUME PlansAssumption == \A p \in Proposals \cup Answers \cup Patterns : IsPlan(p)

VARIABLES pc, ask, saved, talk, plan, source, stage, verdict,   \* per thread
          flags,                    \* module globals of config.*
          bound,                    \* SequenceExecutor._variables
          disturbed, overlapped     \* history: who shared what

vars == <<pc, ask, saved, talk, plan, source, stage, verdict, flags, bound, disturbed, overlapped>>

(* What a language model may say: an agent's view of its own use, a plan,  *)
(* a verdict; a request that fails gives the view TRUE, no plan, FALSE.     *)
Views    == SUBSET Robots
Drafts   == Proposals \cup {<<>>}
Votes(r) == SUBSET {r}
Replies  == Answers \cup {<<>>}

NoAsk  == [kind |-> "bad", joint |-> FALSE, auto |-> TRUE, robot |-> Head(Team),
           flags |-> <<>>, plan |-> <<>>]
NoTalk == [round |-> 0, able |-> <<>>, proposer |-> Nothing, plan |-> <<>>, asked |-> {}, yes |-> {}]

Phases == {"apply", "decide", "round", "propose", "evaluate", "parse", "begin", "run", "restore"}

Running == {q \in Queries : pc[q] \in Phases}

(* The flags of the query, in the order of _apply. *)
FlagIn(q, f) == IF f \in DOMAIN ask[q].flags THEN <<f>> ELSE <<>>

Overridden(q) == FlagIn(q, "ros") \o FlagIn(q, "negotiation")

Flagged(q) == q \in Running /\ DOMAIN ask[q].flags # {}

Init == /\ pc = [q \in Queries |-> "idle"]
        /\ ask = [q \in Queries |-> NoAsk]
        /\ saved = [q \in Queries |-> <<>>]
        /\ talk = [q \in Queries |-> NoTalk]
        /\ plan = [q \in Queries |-> <<>>]
        /\ source = [q \in Queries |-> "none"]
        /\ stage = [q \in Queries |-> 1]
        /\ verdict = [q \in Queries |-> "none"]
        /\ flags = Defaults /\ bound = {}
        /\ disturbed = [q \in Queries |-> FALSE] /\ overlapped = FALSE

----------------------------------------------------------------------------
(* SequenceServer._handle_message *)

Go(q, where) == pc' = [pc EXCEPT ![q] = where]

Judge(q, v) == verdict' = [verdict EXCEPT ![q] = v]

Receive(q) ==
    /\ pc[q] = "idle"
    /\ \E a \in Asks[q] :
         /\ ask' = [ask EXCEPT ![q] = a]
         /\ Go(q, "apply")
         /\ overlapped' = \/ overlapped
                          \/ DOMAIN a.flags # {} /\ \E r \in Queries : Flagged(r)
    /\ UNCHANGED <<saved, talk, plan, source, stage, verdict, flags, bound, disturbed>>

(* A wrong type, a text that is too long: an error instead of a query. *)
BadMessage(q) ==
    /\ pc[q] = "idle"
    /\ Judge(q, "error") /\ Go(q, "answer")
    /\ UNCHANGED <<ask, saved, talk, plan, source, stage, flags, bound, disturbed, overlapped>>

(* _send_response: the thread forgets the query. *)
Answer(q) ==
    /\ pc[q] = "answer"
    /\ Go(q, "done")
    /\ ask' = [ask EXCEPT ![q] = NoAsk] /\ saved' = [saved EXCEPT ![q] = <<>>]
    /\ talk' = [talk EXCEPT ![q] = NoTalk] /\ plan' = [plan EXCEPT ![q] = <<>>]
    /\ source' = [source EXCEPT ![q] = "none"] /\ stage' = [stage EXCEPT ![q] = 1]
    /\ disturbed' = [disturbed EXCEPT ![q] = FALSE] /\ verdict' = [verdict EXCEPT ![q] = "none"]
    /\ UNCHANGED <<flags, bound, overlapped>>

----------------------------------------------------------------------------
(* FeatureFlagContext: one flag at a time is saved and set, and put back    *)
(* on every way out of the query.                                          *)

Apply(q) ==
    /\ pc[q] = "apply"
    /\ IF stage[q] > Len(Overridden(q))
         THEN /\ Go(q, "decide") /\ stage' = [stage EXCEPT ![q] = 1]
              /\ UNCHANGED <<saved, flags>>
         ELSE LET f == Overridden(q)[stage[q]]
              IN  /\ saved' = [saved EXCEPT ![q] = Append(@, flags[f])]
                  /\ flags' = [flags EXCEPT ![f] = ask[q].flags[f]]
                  /\ stage' = [stage EXCEPT ![q] = @ + 1] /\ UNCHANGED pc
    /\ UNCHANGED <<ask, talk, plan, source, verdict, bound, disturbed, overlapped>>

Leave(q, v) == Judge(q, v) /\ Go(q, "restore") /\ stage' = [stage EXCEPT ![q] = 1]

Restore(q) ==
    /\ pc[q] = "restore"
    /\ IF stage[q] > Len(Overridden(q))
         THEN Go(q, "answer") /\ UNCHANGED <<flags, stage>>
         ELSE /\ flags' = [flags EXCEPT ![Overridden(q)[stage[q]]] = saved[q][stage[q]]]
              /\ stage' = [stage EXCEPT ![q] = @ + 1] /\ UNCHANGED pc
    /\ UNCHANGED <<ask, saved, talk, plan, source, verdict, bound, disturbed, overlapped>>

(* Anything else that raises inside the query. *)
Raise(q) ==
    /\ pc[q] \in {"decide", "parse", "run"}
    /\ Leave(q, "raised")
    /\ UNCHANGED <<ask, saved, talk, plan, source, flags, bound, disturbed, overlapped>>

----------------------------------------------------------------------------
(* _execute_sequence_inner *)

Plan(q, from, p) ==
    /\ plan' = [plan EXCEPT ![q] = p] /\ source' = [source EXCEPT ![q] = from]
    /\ IF ask[q].auto THEN Go(q, "begin") /\ UNCHANGED <<verdict, stage>>
                      ELSE Leave(q, "listed")

DecideDirect(q) ==                  \* "EXEC:" and a list of commands
    /\ pc[q] = "decide" /\ ask[q].kind = "direct"
    /\ Plan(q, "direct", ask[q].plan)
    /\ UNCHANGED <<ask, saved, talk, flags, bound, disturbed, overlapped>>

DecideJunk(q) ==                    \* "EXEC:" and anything else
    /\ pc[q] = "decide" /\ ask[q].kind = "junk"
    /\ Leave(q, "error")
    /\ UNCHANGED <<ask, saved, talk, plan, source, flags, bound, disturbed, overlapped>>

(* needs_negotiation: the flag is read here, whoever set it. *)
NeedsNegotiation(q) == ask[q].joint /\ flags["negotiation"]

DecideText(q) ==
    /\ pc[q] = "decide" /\ ask[q].kind = "text"
    /\ IF ask[q].auto /\ NeedsNegotiation(q)
         THEN Go(q, "round") /\ talk' = [talk EXCEPT ![q].round = 1]
         ELSE Go(q, "parse") /\ UNCHANGED talk
    /\ UNCHANGED <<ask, saved, plan, source, stage, verdict, flags, bound, disturbed, overlapped>>

----------------------------------------------------------------------------
(* NegotiationHub.negotiate *)

FaultNextRound(q) ==                \* a plan that is not adopted costs no round
    Go(q, "round") /\ talk' = [talk EXCEPT ![q] = [NoTalk EXCEPT !.round = talk[q].round]]

(* The next round, or the end of the session. *)
NextRound(q) ==
    IF talk[q].round = MaxRounds
      THEN Go(q, "parse") /\ talk' = [talk EXCEPT ![q] = NoTalk]
      ELSE Go(q, "round") /\ talk' = [talk EXCEPT ![q] = [NoTalk EXCEPT !.round = talk[q].round + 1]]

(* Every robot says whether it can contribute; if none can, all must. *)
Analyse(q) ==
    /\ pc[q] = "round"
    /\ \E able \in Views :
         talk' = [talk EXCEPT ![q].able =
                    IF able = {} THEN Team ELSE Kept(Team, able)]
    /\ Go(q, "propose")
    /\ UNCHANGED <<ask, saved, plan, source, stage, verdict, flags, bound, disturbed, overlapped>>

(* NEGOTIATION_TIMEOUT, looked at when a round starts, or an exception. *)
GiveUp(q) ==
    /\ pc[q] = "round"
    /\ Go(q, "parse") /\ talk' = [talk EXCEPT ![q] = NoTalk]
    /\ UNCHANGED <<ask, saved, plan, source, stage, verdict, flags, bound, disturbed, overlapped>>

(* A plan for one robot of several is dropped before anyone is asked. *)
Propose(q) ==
    LET t == talk[q]
        proposer == t.able[((t.round - 1) % Len(t.able)) + 1]
    IN  /\ pc[q] = "propose"
        /\ \E p \in Drafts :
             IF p # <<>> /\ (Len(Team) = 1 \/ Covers(p))
               THEN /\ talk' = [talk EXCEPT ![q].proposer = proposer, ![q].plan = p,
                                            ![q].asked = {}, ![q].yes = {}]
                    /\ Go(q, "evaluate")
               ELSE NextRound(q)
        /\ UNCHANGED <<ask, saved, plan, source, stage, verdict, flags, bound, disturbed, overlapped>>

Evaluators(t) == ToSet(t.able) \ {t.proposer}

(* One after the other is asked; no answer counts as a rejection. *)
Evaluate(q) ==
    LET left == Evaluators(talk[q]) \ talk[q].asked
    IN  /\ pc[q] = "evaluate" /\ left # {}
        /\ LET r == Head(Kept(Team, left))
           IN  \E accepted \in Votes(r) :
                 talk' = [talk EXCEPT ![q].asked = @ \cup {r}, ![q].yes = @ \cup accepted]
        /\ UNCHANGED <<pc, ask, saved, plan, source, stage, verdict, flags, bound, disturbed, overlapped>>

FaultSettle(q) ==                   \* half of the robots are enough
    LET t == talk[q]
    IN  /\ pc[q] = "evaluate" /\ t.asked = Evaluators(t)
        /\ IF 2 * (Cardinality(t.yes) + 1) >= Len(t.able) /\ Valid(t.plan)
             THEN /\ Plan(q, "negotiated", Assigned(t.plan, Head(Team))) /\ UNCHANGED talk
             ELSE /\ NextRound(q)
                  /\ UNCHANGED <<plan, source, stage, verdict>>
        /\ UNCHANGED <<ask, saved, flags, bound, disturbed, overlapped>>

Settle(q) ==
    LET t == talk[q]
    IN  /\ pc[q] = "evaluate" /\ t.asked = Evaluators(t)
        /\ IF t.yes = Evaluators(t) /\ Valid(t.plan)
             THEN /\ Plan(q, "negotiated", Assigned(t.plan, Head(Team))) /\ UNCHANGED talk
             ELSE /\ NextRound(q)
                  /\ UNCHANGED <<plan, source, stage, verdict>>
        /\ UNCHANGED <<ask, saved, flags, bound, disturbed, overlapped>>

----------------------------------------------------------------------------
(* CommandParser.parse: the language model, else the regular expressions. *)

ModelPlans(r) == {Parsed(a, r) : a \in Replies}

PatternPlans == Patterns \cup {<<>>}

Parse(q) ==
    /\ pc[q] = "parse"
    /\ \/ \E p \in ModelPlans(ask[q].robot) \ {<<>>} : Plan(q, "llm", p)
       \/ /\ <<>> \in ModelPlans(ask[q].robot)
          /\ \E p \in PatternPlans :
               IF p # <<>> THEN Plan(q, "regex", p)
                           ELSE Leave(q, "error") /\ UNCHANGED <<plan, source>>
    /\ UNCHANGED <<ask, saved, talk, flags, bound, disturbed, overlapped>>

----------------------------------------------------------------------------
(* SequenceExecutor.execute_sequence *)

Busy == {q \in Queries : pc[q] = "run"}

Begin(q) ==
    /\ pc[q] = "begin"
    /\ bound' = {}
    /\ stage' = [stage EXCEPT ![q] = 1] /\ Go(q, "run")
    /\ disturbed' = [r \in Queries |-> disturbed[r] \/ r \in Busy]
    /\ UNCHANGED <<ask, saved, talk, plan, source, verdict, flags, overlapped>>

(* The commands with the captures that execute_sequence infers at its start. *)
Commands(q) == InferCaptures(plan[q])

Captured(p, done) == {p[i].binds : i \in done} \ {Nothing}

(* A batch whose commands run together: those that find their variables    *)
(* may succeed, and what they capture is bound when all have ended.        *)
RunBatch(q) ==
    LET p     == Commands(q)
        batch == Batch(p, stage[q])
        fit   == {i \in batch : Needs(p, i) \subseteq bound}
        able  == {i \in fit : p[i].op # Unknown}
    IN  /\ pc[q] = "run" /\ stage[q] <= Len(p)
        /\ \E done \in SUBSET able :
             /\ bound' = bound \cup Captured(p, done)
             /\ IF done = batch
                  THEN stage' = [stage EXCEPT ![q] = Following(p, @)] /\ UNCHANGED <<pc, verdict>>
                  ELSE Leave(q, IF fit = batch THEN "failed" ELSE "unbound")
        /\ UNCHANGED <<ask, saved, talk, plan, source, flags, disturbed, overlapped>>

End(q) ==
    /\ pc[q] = "run" /\ stage[q] > Len(plan[q])
    /\ Leave(q, "success")
    /\ UNCHANGED <<ask, saved, talk, plan, source, flags, bound, disturbed, overlapped>>

----------------------------------------------------------------------------
Step(q) == \/ Answer(q) \/ Apply(q) \/ Restore(q) \/ Raise(q)
           \/ DecideDirect(q) \/ DecideJunk(q) \/ DecideText(q)
           \/ Analyse(q) \/ GiveUp(q) \/ Propose(q) \/ Evaluate(q) \/ Settle(q)
           \/ Parse(q) \/ Begin(q) \/ RunBatch(q) \/ End(q)

AllAnswered == (\A q \in Queries : pc[q] = "done") /\ UNCHANGED vars

Next == AllAnswered \/ \E q \in Queries : Receive(q) \/ BadMessage(q) \/ Step(q)

(* Every thread is scheduled; the requests to the language model and the   *)
(* commands have timeouts.                                                 *)
Fairness == \A q \in Queries : WF_vars(Step(q))

Spec == Init /\ [][Next]_vars /\ Fairness

----------------------------------------------------------------------------
TypeOK ==
    /\ pc \in [Queries -> Phases \cup {"idle", "answer", "done"}]
    /\ \A q \in Queries : ask[q] \in Asks[q] \cup {NoAsk}
    /\ \A q \in Queries : saved[q] \in Seq(BOOLEAN)
    /\ \A q \in Queries : talk[q].round \in 0 .. MaxRounds /\ talk[q].proposer \in Robots \cup {Nothing}
    /\ source \in [Queries -> {"none", "direct", "negotiated", "llm", "regex"}]
    /\ stage \in [Queries -> Nat \ {0}]
    /\ verdict \in [Queries -> {"none", "error", "listed", "success", "failed", "unbound", "raised"}]
    /\ flags \in [Flags -> BOOLEAN]
    /\ disturbed \in [Queries -> BOOLEAN] /\ overlapped \in BOOLEAN

(* A plan runs as negotiated only if every other robot that can contribute *)
(* accepted this plan, which speaks of every robot if there are several;   *)
(* what the verifier could sort it has verified                            *)
(* (NegotiationHub.negotiate, lines 159 to 219).                           *)
ConsensusIsShared ==
    /\ TypeOK
    /\ \A q \in Queries : source[q] = "negotiated" =>
         LET t == talk[q]
         IN  /\ t.yes = ToSet(t.able) \ {t.proposer}
             /\ t.proposer \in ToSet(t.able)
             /\ Len(Team) > 1 => Covers(t.plan) /\ Covers(plan[q])
             /\ Unsortable(t.plan) \/ Verified(t.plan)

(* Batches come in the order of the verifier's keys. *)
Ascending(p) == \A i, j \in DOMAIN p :
                    SortKey(p, i) < SortKey(p, j) => First(p, i) < First(p, j)

(* Grouped commands, none of which both reads and captures, and every      *)
(* variable captured by one of them.                                       *)
Chainless(p) == \A i \in DOMAIN p :
                    /\ p[i].group # Nothing
                    /\ p[i].reads = {} \/ p[i].binds = Nothing
                    /\ \A v \in p[i].reads : Captures(p, v) # {}

Trusted(q) == LET p == plan[q]
              IN  /\ source[q] \in {"negotiated", "llm"}
                  /\ source[q] = "negotiated" => ~Unsortable(p)
                  /\ source[q] = "llm" => Chainless(p)
                  /\ GroupsAreNumbers(p) /\ Ascending(p)

(* A verified plan, and a parsed one without chains, whose groups come in  *)
(* ascending order finds every variable bound when it needs it, unless     *)
(* another sequence began meanwhile and cleared the shared variables       *)
(* (_verify_variable_flow and _fix_intra_group_dependencies against        *)
(* _execute_parallel_groups).                                              *)
VariablesAreBound ==
    \A q \in Queries : verdict[q] = "unbound" /\ Trusted(q) => disturbed[q]

(* Flags are overridden for the query only: as long as no two queries with *)
(* flags overlap, a query sees its own, and when none is being served the  *)
(* configured values are back, however the queries ended                   *)
(* (FeatureFlagContext).                                                   *)
FlagsComeBack ==
    ~overlapped =>
        /\ (\A q \in Queries : ~Flagged(q)) => flags = Defaults
        /\ \A q \in Queries :
             pc[q] \in Phases \ {"apply", "restore"} =>
                 \A f \in DOMAIN ask[q].flags : flags[f] = ask[q].flags[f]

(* Every query is answered, and leaves no flag behind: the rounds of a     *)
(* negotiation are bounded, and every failure leads to the parser or to an *)
(* answer (_handle_message).                                               *)
QueriesAreAnswered == \A q \in Queries : pc[q] # "idle" ~> pc[q] = "done"
QueriesEndCleanly  == []FlagsComeBack /\ QueriesAreAnswered
============================================================================
