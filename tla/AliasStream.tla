----------------------------- MODULE AliasStream -----------------------------
(***************************************************************************)
(* One completion of the model, streamed to the user while the names of    *)
(* resources are obfuscated.  The provider knows a name only by its alias: *)
(* a kind and random letters.  The answer comes in chunks that may cut an  *)
(* alias in two; AliasStreamRestorer holds back the end of the text when   *)
(* it may be the beginning of one, and puts names in the place of aliases  *)
(* before the rest is shown.                                               *)
(***************************************************************************)
EXTENDS Integers, Sequences, FiniteSets

Ext == INSTANCE SequencesExt

CONSTANTS
    Letters,    \* what aliases and other text are made of
    Resources,  \* resources: what stands for a name in the text that the user sees
    AliasOf,    \* the alias of each resource, as _new_alias may draw it
    MaxSaid,    \* bound: the length of a completion
    MaxChunk    \* bound: the length of a chunk

ASSUME AliasAssumption ==
    /\ Resources \cap Letters = {} /\ IsFiniteSet(Resources)
    /\ AliasOf \in [Resources -> Seq(Letters) \ {<<>>}]
    /\ \A m, n \in Resources : AliasOf[m] = AliasOf[n] => m = n
    /\ MaxSaid \in Nat /\ MaxChunk \in Nat \ {0}

VARIABLES
    named,   \* the resources that have an alias in this conversation
    said,    \* what the model has written
    buffer,  \* what the restorer holds back
    told,    \* what the user has been sent
    stage    \* of the completion

aliasVars == <<named, said, buffer, told, stage>>

AliasInit ==
    /\ named \in SUBSET Resources
    /\ said = <<>> /\ buffer = <<>> /\ told = <<>>
    /\ stage = "streaming"

-----------------------------------------------------------------------------
(* ConversationNameObfuscator.restore_text.                                *)

\* str.replace: from left to right, without overlaps
Replace(text, alias, n) ==
    LET from[i \in 1..(Len(text) + 1)] ==
            CASE i > Len(text) -> <<>>
              [] i <= Len(text) /\ Ext!IsPrefix(alias, SubSeq(text, i, Len(text))) ->
                   <<n>> \o from[i + Len(alias)]
              [] OTHER -> <<text[i]>> \o from[i + 1]
    IN  from[1]

\* The longer aliases first, a shortest one last
Shortest(S) == CHOOSE n \in S : \A m \in S : Len(AliasOf[n]) <= Len(AliasOf[m])

RestoreText(text) ==
    Ext!MapThenFoldSet(LAMBDA n, t : Replace(t, AliasOf[n], n), text, LAMBDA n : n, Shortest, named)

-----------------------------------------------------------------------------
(* AliasStreamRestorer.                                                    *)

Ending(text, n) == SubSeq(text, Len(text) - n + 1, Len(text))

\* How much of the end of the text may begin an alias, or be one that is not among the longest
PrefixLengths(text) ==
    LET maximum == Ext!Max({Len(AliasOf[n]) - 1 : n \in named} \cup {0})
    IN  {k \in 1..Ext!Min({maximum, Len(text)}) :
            \E n \in named : Ext!IsPrefix(Ending(text, k), AliasOf[n])}

\* Mutant: the shortest of them.
HoldLength_Shortest(text) == IF PrefixLengths(text) = {} THEN 0 ELSE Ext!Min(PrefixLengths(text))

\* _possible_alias_prefix_length
HoldLength(text) == Ext!Max(PrefixLengths(text) \cup {0})

\* feed, for an event "delta" with text
Feed(chunk) ==
    LET text == buffer \o chunk
        held == HoldLength(text)
    IN  /\ stage = "streaming"
        /\ said' = said \o chunk
        /\ told' = told \o RestoreText(SubSeq(text, 1, Len(text) - held))
        /\ buffer' = Ending(text, held)
        /\ UNCHANGED <<named, stage>>

\* flush, at the end of the stream
Flush ==
    /\ stage = "streaming"
    /\ told' = told \o RestoreText(buffer)
    /\ buffer' = <<>>
    /\ stage' = "ended"
    /\ UNCHANGED <<named, said>>

\* The provider fails, or the arguments of a call are invalid: the restorer is given up with what
\* it holds
BreakOff ==
    /\ stage = "streaming"
    /\ stage' = "broken"
    /\ UNCHANGED <<named, said, buffer, told>>

Chunks == UNION {[1..k -> Letters] : k \in 1..MaxChunk}

AliasNext ==
    \/ \E chunk \in Chunks : Len(said) + Len(chunk) <= MaxSaid /\ Feed(chunk)
    \/ Flush \/ BreakOff

AliasSpec == AliasInit /\ [][AliasNext]_aliasVars

-----------------------------------------------------------------------------
(* Correctness.                                                            *)

\* Type invariant; the restorer never holds back a text as long as the longest alias.
AliasTypeOK ==
    /\ named \subseteq Resources
    /\ said \in Seq(Letters) /\ buffer \in Seq(Letters)
    /\ told \in Seq(Letters \cup Resources)
    /\ stage \in {"streaming", "ended", "broken"}
    /\ buffer # <<>> => \E n \in named : Len(buffer) < Len(AliasOf[n])

\* No alias ends the way one begins
Separate ==
    \A m, n \in named : \A k \in 1..(Len(AliasOf[m]) - 1) :
        ~Ext!IsPrefix(Ending(AliasOf[m], k), AliasOf[n])

\* However the text is cut into chunks, what is shown and what is held back make up the text that
\* restore_text makes of the whole answer: no name is lost, torn or replaced twice, and nothing
\* is out of order.  Aliases that overlap are excepted: of an alias that is among the longest and
\* ends like one begins, only the ending is held back, and the rest is shown as it is.
CutsDoNotShow == Separate => told \o RestoreText(buffer) = RestoreText(said)
=============================================================================
