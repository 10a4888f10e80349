------------------------------ MODULE MCSafety ------------------------------
(***************************************************************************)
(* TLC instances of seven components whose properties are about safety.    *)
(* The components share no state: "part" says which one moves, the others  *)
(* stay in an initial state, and the state spaces add up.                  *)
(***************************************************************************)
EXTENDS QuotaConfirmation, IncidentReview, CapacityPrediction, CapacityCollection, VendorCatalogue,
        ChatPage, AliasStream

CONSTANTS q1, q2, u1, x2, v1, v2, k1, k2, k3, g1, g2, p1, p2, r1, r2,
          n1, n2, builtin, pending, other, c1, c2, c3, s1, s2, o1, o2,
          lp, lq, lx, project, tree, odd

VARIABLE part

safetyVars ==
    <<part, vars, reviewVars, predictionVars, collectionVars, catalogueVars, pageVars,
      aliasVars>>

-----------------------------------------------------------------------------
(* Bounds on each state space: the next states that are left out.          *)

\* The proposals are numbered in the order in which they are made
OutOfOrder == token'[q1] = "none" /\ token'[q2] # "none"

\* More than two runs, a resolved incident, or more than one of: a new slot, a killed review,
\* new evidence, people or an agent that is switched off
TooManyReviews ==
    LET events == slot' + kills' + (incident'.last - 1)
    IN  \/ Cardinality({k \in ReviewKeys : runs'[k] # "none"}) > 2
        \/ incident'.status \notin {"open", "acknowledged"}
        \/ events > 1
        \/ events = 1 /\ (~agentOn' \/ person'[u1] # "none")

\* Models of the second candidate switched off, two evaluations that fail the gate, or a killed
\* run next to two activations
TooManyCandidates ==
    \/ v2 \notin modelOn'
    \/ day' = 0 /\ enabled' # [c \in Candidates |-> "absent"]
    \/ Cardinality({x \in UNION {evaluations'[c] : c \in Candidates} : ~x.good}) > 1
    \/ admin'[x2].pc # "idle" /\ stops' > 0

\* The rounds start in order and take the clusters in order; one project spans two clusters and
\* only the first of its groups may move; one move or one fault
TooManyMoves ==
    \/ round'[r2].pc # "idle" /\ round'[r1].pc = "idle"
    \/ \E r \in Rounds : round'[r].todo \notin {{}, {k2}, {k1, k2}, {k1, k2, k3}}
    \/ group'[g2].at # [project |-> p1, cluster |-> k2] \/ ~group'[g2].monitored
    \/ group'[g1].at = [project |-> p2, cluster |-> k2]
    \/ moves' + faults' > 1

\* The second discovery begins while the first is under way; discoveries next to the script, two
\* edits or an edited pending row one at a time; the pending code is not removed or observed; an
\* edit of the other code is the only one, next to one discovery
TooManyImports ==
    \/ discovery[n2].pc = "idle" /\ discovery'[n2].pc # "idle" /\ discovery[n1].pc = "idle"
    \/ discovery'[n2].pc # "idle" /\ (script'.pc # "idle" \/ edits' > 1 \/ definition'[pending] = "edited")
    \/ pending \in removed' \cup observed'
    \/ definition'[other] = "described"
    \/ definition'[other] = "edited" /\ (edits' > 1 \/ discovery'[n2].pc # "idle")

\* The second prompt follows the first and ends well; the second click is made while at most one
\* prompt was sent; only the first conversation is removed, and not next to the second prompt;
\* a turn with a card is the only one, next to one click
TooManyClicks ==
    \/ sending'[s2].pc # "idle" /\ sending'[s1].pc = "idle"
    \/ saved'[s2] \in {"failed", "cancelled"}
    \/ opening'[o2].pc # "idle" /\ (opening'[o1].pc = "idle" \/ sending'[s2].pc # "idle")
    \/ removing' # {} /\ (removing' # {c1} \/ sending'[s2].pc # "idle")
    \/ c3 \in stored' /\ c2 \notin stored'
    \/ /\ "asking" \in {saved'[s1], saved'[s2]} \/ "awaiting" \in {saved'[s1], saved'[s2]}
          \/ decided' # {} \/ deciding' # [s \in Prompts |-> NotDeciding]
       /\ sending'[s2].pc # "idle" \/ opening'[o2].pc # "idle"

\* A kind that is no capital letter or digit; "Qtree", with random letters that end in another
\* one and in Q
Drawn == [n \in Resources |->
    CASE n = project -> <<lp, lx>> [] n = tree -> <<lq, lq, lx>> [] n = odd -> <<lq, lx, lq>>]

OneProject ==
    [g \in Groups |-> [at |-> [project |-> p1, cluster |-> IF g = g1 THEN k1 ELSE k2],
                       monitored |-> TRUE, reading |-> NoReading]]

-----------------------------------------------------------------------------
SafetyInit ==
    /\ part \in {"confirmation", "review", "prediction", "collection", "catalogue", "page", "names"}
    /\ Init /\ ReviewInit /\ PredictionInit /\ PageInit /\ AliasInit
    /\ CollectionInit /\ group = OneProject
    /\ CatalogueInit
    /\ observed \subseteq {other} /\ definition \in {Untouched, [Untouched EXCEPT ![builtin] = "placeholder"]}
    /\ part # "catalogue" => observed = {} /\ definition = Untouched
    /\ part # "names" => named = {}

SafetyNext ==
    \/ /\ part = "confirmation" /\ Next /\ ~OutOfOrder
       /\ UNCHANGED <<part, reviewVars, predictionVars, collectionVars, catalogueVars,
                     pageVars, aliasVars>>
    \/ /\ part = "review" /\ ReviewNext /\ ~TooManyReviews
       /\ UNCHANGED <<part, vars, predictionVars, collectionVars, catalogueVars,
                     pageVars, aliasVars>>
    \/ /\ part = "prediction" /\ PredictionNext /\ ~TooManyCandidates
       /\ UNCHANGED <<part, vars, reviewVars, collectionVars, catalogueVars,
                     pageVars, aliasVars>>
    \/ /\ part = "collection" /\ CollectionNext /\ ~TooManyMoves
       /\ UNCHANGED <<part, vars, reviewVars, predictionVars, catalogueVars,
                     pageVars, aliasVars>>
    \/ /\ part = "catalogue" /\ CatalogueNext /\ ~TooManyImports
       /\ UNCHANGED <<part, vars, reviewVars, predictionVars, collectionVars,
                     pageVars, aliasVars>>
    \/ /\ part = "page" /\ PageNext /\ ~TooManyClicks
       /\ UNCHANGED <<part, vars, reviewVars, predictionVars, collectionVars, catalogueVars,
                     aliasVars>>
    \/ /\ part = "names" /\ AliasNext
       /\ UNCHANGED <<part, vars, reviewVars, predictionVars, collectionVars, catalogueVars,
                     pageVars>>

SafetySpec == SafetyInit /\ [][SafetyNext]_safetyVars
=============================================================================
