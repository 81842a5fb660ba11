----------------------------- MODULE PeerMemory -----------------------------
(***************************************************************************)
(* What a bot remembers of one peer under one persona: the short history   *)
(* (insertMessage, listRecentMessages, clearMessages) and the long-term    *)
(* facts (replaceMemories, deleteMemory, clearMemories), the extraction    *)
(* that every few messages turns the first into the second                 *)
(* (ChatService.extractMemory, started and not waited for), and the owner  *)
(* who deletes facts and clears either.                                    *)
(*                                                                         *)
(* A fact is a model value, never part of a longer one; the history holds  *)
(* who spoke.  Selecting facts for a prompt is left out.                   *)
(***************************************************************************)
EXTENDS Integers, Sequences, SequencesExt

CONSTANTS
    FactIds,      \* facts a model can find
    EveryN,       \* memoryExtractEveryN
    MaxFacts,     \* memoryMaxItems
    Extractions,  \* extractions under way at the same time
    Owners,       \* requests of the owner under way at the same time
    MaxSaid,      \* bound: messages of the peer
    MaxOrders     \* bound: requests of the owner

MemoryAssumption ==
    /\ {EveryN, MaxFacts} \subseteq Nat \ {0} /\ {MaxSaid, MaxOrders} \subseteq Nat

VARIABLES
    history,   \* K.messages
    userCount, \* K.msgCountUser
    memory,    \* K.memories, oldest first
    extract,   \* the extractions under way
    order,     \* the owner's requests under way
    said, orders,
    crossed    \* history: two rewrites of the facts were once under way together

memoryVars == <<history, userCount, memory, extract, order, said, orders, crossed>>

IdleExtract == [at |-> "end", read |-> <<>>]
IdleOrder == [what |-> "none", at |-> "end", read |-> <<>>, fact |-> "none"]
Facts(s) == ToSet(s)
LastOf(s, n) == IF Len(s) > n THEN SubSeq(s, Len(s) - n + 1, Len(s)) ELSE s

(* s without the members of F, in the same order.                          *)
Kept(s, F) ==
    LET kept[i \in 0 .. Len(s)] ==
            IF i = 0 THEN <<>>
            ELSE IF s[i] \in F THEN kept[i - 1] ELSE Append(kept[i - 1], s[i])
    IN  kept
Without(s, F) == Kept(s, F)[Len(s)]

(* normalizeFactList: a fact found again moves to its last mention, and    *)
(* under the cap the newest stay.                                          *)
Merged(old, found) == LastOf(Without(old, Facts(found)) \o found, MaxFacts)
\* Faulty form: what the model found replaces what was known.
MergedAnew(old, found) == LastOf(found, MaxFacts)
Learned(old, found) == Merged(old, found)

Rewriting == (\E e \in Extractions : extract[e].at # "end")
             \/ \E o \in Owners : order[o].at # "end"
-----------------------------------------------------------------------------
MemoryInit ==
    /\ history = <<>> /\ userCount = 0 /\ memory = <<>>
    /\ extract = [e \in Extractions |-> IdleExtract]
    /\ order = [o \in Owners |-> IdleOrder]
    /\ said = 0 /\ orders = 0 /\ crossed = FALSE

(* A turn that is answered: the message, its answer and, every N messages, *)
(* an extraction nobody waits for.                                         *)
Answered ==
    /\ said < MaxSaid
    /\ said' = said + 1
    /\ history' = history \o <<"user", "assistant">>
    /\ userCount' = userCount + 1
    /\ IF userCount' % EveryN = 0
       THEN \E e \in Extractions :
               /\ extract[e].at = "end"
               /\ extract' = [extract EXCEPT ![e].at = "read"]
               /\ crossed' = (crossed \/ Rewriting)
       ELSE UNCHANGED <<extract, crossed>>
    /\ UNCHANGED <<memory, order, orders>>

(* A turn that ends with the message only (skipped, or the model failed).  *)
Unanswered ==
    /\ said < MaxSaid
    /\ said' = said + 1
    /\ history' = Append(history, "user")
    /\ userCount' = userCount + 1
    /\ UNCHANGED <<memory, extract, order, orders, crossed>>

(* extractMemory reads the history, then the facts.                        *)
ReadsFacts(e) ==
    /\ extract[e].at = "read"
    /\ extract' = [extract EXCEPT ![e] = [at |-> "model", read |-> memory]]
    /\ UNCHANGED <<history, userCount, memory, order, said, orders, crossed>>

(* The model's facts are merged with those read before; nothing known and  *)
(* nothing found writes nothing, and a failed call is only logged.         *)
Extracted(e) ==
    /\ extract[e].at = "model"
    /\ \E found \in {<<>>} \cup {<<f>> : f \in FactIds} :
          LET merged == Learned(extract[e].read, found) IN
          memory' = IF merged = <<>> THEN memory ELSE merged
    /\ extract' = [extract EXCEPT ![e] = IdleExtract]
    /\ UNCHANGED <<history, userCount, order, said, orders, crossed>>

ExtractFails(e) ==
    /\ extract[e].at = "model"
    /\ extract' = [extract EXCEPT ![e] = IdleExtract]
    /\ UNCHANGED <<history, userCount, memory, order, said, orders, crossed>>
-----------------------------------------------------------------------------
Order(o, what, fact, read) ==
    /\ order[o].at = "end" /\ orders < MaxOrders
    /\ orders' = orders + 1
    /\ order' = [order EXCEPT ![o] = [what |-> what, at |-> what, read |-> read, fact |-> fact]]
    /\ crossed' = (crossed \/ Rewriting)
    /\ UNCHANGED <<history, userCount, memory, extract, said>>
Ordered(o) == order' = [order EXCEPT ![o] = IdleOrder]

(* deleteMemory reads the list, then rewrites it without the fact.         *)
AskDelete(o, f) == f \in Facts(memory) /\ Order(o, "delete", f, memory)
Delete(o) ==
    /\ order[o].at = "delete"
    /\ memory' = Without(order[o].read, {order[o].fact})
    /\ Ordered(o)
    /\ UNCHANGED <<history, userCount, extract, said, orders, crossed>>

(* clearMemories is one DEL.                                               *)
AskReset(o) == Order(o, "reset", "none", <<>>)
Reset(o) ==
    /\ order[o].at = "reset"
    /\ memory' = <<>>
    /\ Ordered(o)
    /\ UNCHANGED <<history, userCount, extract, said, orders, crossed>>

(* clearMessages deletes the history, then the counter.                    *)
AskClear(o) == Order(o, "clear", "none", <<>>)
Clear(o) ==
    /\ order[o].at = "clear"
    /\ history' = <<>>
    /\ order' = [order EXCEPT ![o].at = "clearCount"]
    /\ UNCHANGED <<userCount, memory, extract, said, orders, crossed>>
ClearCount(o) ==
    /\ order[o].at = "clearCount"
    /\ userCount' = 0
    /\ Ordered(o)
    /\ UNCHANGED <<history, memory, extract, said, orders, crossed>>

MemoryNext ==
    \/ Answered \/ Unanswered
    \/ \E e \in Extractions : ReadsFacts(e) \/ Extracted(e) \/ ExtractFails(e)
    \/ \E o \in Owners : \/ \E f \in FactIds : AskDelete(o, f)
                         \/ Delete(o) \/ AskReset(o) \/ Reset(o)
                         \/ AskClear(o) \/ Clear(o) \/ ClearCount(o)

MemorySpec == MemoryInit /\ [][MemoryNext]_memoryVars
-----------------------------------------------------------------------------
(* Keys and requests have the shapes the code gives them.                  *)
MemoryTypeOK ==
    /\ history \in Seq({"user", "assistant"}) /\ userCount \in 0 .. MaxSaid
    /\ Facts(memory) \subseteq FactIds /\ Len(memory) <= MaxFacts
    /\ \A e \in Extractions : extract[e].at \in {"end", "read", "model"}
    /\ crossed \in BOOLEAN

(* A fact once stored is forgotten only when the owner takes it away or    *)
(* newer ones push it out, if no two rewrites of the list overlap: the     *)
(* model may leave out of its answer what it knew.                         *)
FactsStay ==
    ~crossed' => \A f \in Facts(memory) \ Facts(memory') :
       \/ Len(memory') = MaxFacts
       \/ \E o \in Owners : order[o].at = "reset"
       \/ \E o \in Owners : (order[o].at = "delete" /\ order[o].fact = f)
FactsKept == [][FactsStay]_memoryVars
=============================================================================
