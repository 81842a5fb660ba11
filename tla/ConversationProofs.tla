------------------------- MODULE ConversationProofs -------------------------
(***************************************************************************)
(* What TLC shows of the parts of ConversationRun on small instances, for  *)
(* every value of the constants.                                           *)
(***************************************************************************)
EXTENDS ConversationRun, InboundProofs, FiniteSetTheorems, NaturalsInduction, SequenceTheorems,
        WellFoundedInduction, TLAPS

LEMMA Assumed == /\ Replying!ReplyAssumption /\ Chat!ChatAssumption /\ Graph!GraphAssumption
                 /\ Tool!ToolLoopAssumption /\ Timer!TimerAssumption
BY ConversationAssumption

-----------------------------------------------------------------------------
(* A step of the whole is a step of the component that runs                *)

\* A behaviour stays with the component it began with, and each of its steps is
\* one of that component.
LEMMA PartSteps ==
    ASSUME [ConversationNext]_conversationVars
    PROVE  /\ part' = part
           /\ InJob => [Replying!JobNext]_(Replying!jobVars)
           /\ InChat => [Chat!Next]_(Chat!chatVars)
           /\ InGraph => [Graph!GraphNext]_(Graph!graphVars)
           /\ InTool => [Tool!ToolNext]_(Tool!toolVars)
           /\ InMemory => [Memory!MemoryNext]_(Memory!memoryVars)
           /\ InTimer => [Timer!TimerNext]_(Timer!timerVars)
<1> USE DEF InInbound, InJob, InChat, InGraph, InTool, InMemory, InTimer
<1>1. CASE UNCHANGED conversationVars
  BY <1>1 DEF conversationVars, jobVars, chatVars, graphVars, toolVars, memoryVars,
              timerVars, Replying!jobVars, Chat!chatVars, Graph!graphVars,
              Tool!toolVars, Memory!memoryVars, Timer!timerVars
<1>2. CASE InboundNext
  BY <1>2 DEF InboundNext, RestInbound
<1>3. CASE JobNext
  <2>1. InJob /\ RestJob
    BY <1>3 DEF JobNext
  <2>2. Replying!JobNext
    BY <1>3 DEF JobNext, Replying!JobNext
  <2> QED
    BY <2>1, <2>2 DEF RestJob
<1>4. CASE ChatNext
  <2>1. InChat /\ RestChat
    BY <1>4 DEF ChatNext
  <2>2. Chat!Next
    BY <1>4 DEF ChatNext, Chat!Next
  <2> QED
    BY <2>1, <2>2 DEF RestChat
<1>5. CASE GraphNext
  <2>1. InGraph /\ RestGraph
    BY <1>5 DEF GraphNext
  <2>2. Graph!GraphNext
    BY <1>5 DEF GraphNext, Graph!GraphNext
  <2> QED
    BY <2>1, <2>2 DEF RestGraph
<1>6. CASE ToolNext
  <2>1. InTool /\ RestTool
    BY <1>6 DEF ToolNext
  <2>2. Tool!ToolNext
    BY <1>6 DEF ToolNext, Tool!ToolNext
  <2> QED
    BY <2>1, <2>2 DEF RestTool
<1>7. CASE MemoryNext
  <2>1. InMemory /\ RestMemory
    BY <1>7 DEF MemoryNext
  <2>2. Memory!MemoryNext
    BY <1>7 DEF MemoryNext, Memory!MemoryNext
  <2> QED
    BY <2>1, <2>2 DEF RestMemory
<1>8. CASE TimerNext
  <2>1. InTimer /\ RestTimer
    BY <1>8 DEF TimerNext
  <2>2. Timer!TimerNext
    BY <1>8 DEF TimerNext, Timer!TimerNext
  <2> QED
    BY <2>1, <2>2 DEF RestTimer
<1> QED
  BY <1>1, <1>2, <1>3, <1>4, <1>5, <1>6, <1>7, <1>8 DEF ConversationNext

-----------------------------------------------------------------------------
(* ScanTimer *)

\* A timer is armed for the present chain only, ticks are of chains there have
\* been, and a scheduler that is on has one of the two.
TimerInv ==
    /\ switchOn \in BOOLEAN /\ halted = ~switchOn /\ atWork \in BOOLEAN
    /\ switches \in 0 .. MaxSwitches /\ gen = switches + 1
    /\ timer \in {Timer!None, gen}
    /\ ticking \in [Timer!Gens -> 0 .. 1]
    /\ \A g \in Timer!Gens : g > gen => ticking[g] = 0
    /\ timer = gen => switchOn /\ ticking[gen] = 0
    /\ ticking[gen] = 1 => switchOn
    /\ switchOn => timer = gen \/ ticking[gen] = 1

LEMMA TimerInitHolds == ASSUME Timer!TimerInit PROVE TimerInv
<1>1. atWork \in BOOLEAN
  BY DEF Timer!TimerInit
<1> QED
  BY <1>1, Assumed DEF Timer!TimerInit, TimerInv, Timer!TimerAssumption, Timer!Gens, Timer!None

LEMMA TimerKeeps ==
    ASSUME TimerInv, [Timer!TimerNext]_(Timer!timerVars) PROVE TimerInv'
<1> USE DEF TimerInv
<1>1. /\ MaxSwitches \in Nat /\ gen \in Timer!Gens /\ Timer!None = 0
      /\ \A g \in Timer!Gens : g \in Nat \ {0}
      /\ \A g \in 1 .. MaxSwitches + 1 : g \in Timer!Gens
  BY Assumed DEF Timer!TimerAssumption, Timer!Gens, Timer!None
<1>a. atWork' \in BOOLEAN
  BY DEF Timer!TimerNext, Timer!timerVars, Timer!Switch, Timer!Fire, Timer!TickEnds
<1>2. CASE UNCHANGED Timer!timerVars
  BY <1>2 DEF Timer!timerVars
<1>3. CASE Timer!Switch
  <2>1. /\ switches < MaxSwitches /\ switches' = switches + 1 /\ switchOn' = ~switchOn
        /\ halted' = switchOn /\ gen' = gen + 1 /\ UNCHANGED <<atWork, ticking>>
        /\ timer' = IF switchOn THEN 0 ELSE gen'
    BY <1>1, <1>3 DEF Timer!Switch, Timer!StoppedGen, Timer!Armed
  <2>2. gen' \in Timer!Gens /\ ticking[gen'] = 0
    BY <1>1, <2>1
  <2>3. /\ switchOn' \in BOOLEAN /\ halted' = ~switchOn'
        /\ timer' = IF switchOn' THEN gen' ELSE 0
    BY <2>1
  <2>4. /\ switches' \in 0 .. MaxSwitches /\ gen' = switches' + 1 /\ gen' # 0
        /\ ticking' \in [Timer!Gens -> 0 .. 1]
        /\ \A g \in Timer!Gens : g > gen' => ticking'[g] = 0
    BY <1>1, <2>1
  <2> QED
    BY <1>1, <1>a, <2>1, <2>2, <2>3, <2>4
<1>4. CASE Timer!Fire
  <2>0. timer # 0 /\ UNCHANGED <<switchOn, halted, gen, switches>>
    BY <1>1, <1>4 DEF Timer!Fire
  <2>1. timer = gen /\ switchOn /\ ticking[gen] = 0 /\ UNCHANGED <<switchOn, halted, gen, switches>>
    BY <1>1, <2>0
  <2>2. \/ timer' = timer /\ UNCHANGED ticking
        \/ timer' = 0 /\ ticking' = [ticking EXCEPT ![gen] = 1]
    <3>1. ~halted
      BY <2>1
    <3>2. CASE atWork
      BY <1>1, <1>4, <2>1, <3>1, <3>2 DEF Timer!Fire, Timer!Armed
    <3>3. CASE ~atWork
      <4>1. timer' = 0 /\ ticking' = [ticking EXCEPT ![gen] = ticking[gen] + 1]
        BY <1>1, <1>4, <2>1, <3>1, <3>3 DEF Timer!Fire
      <4>2. ticking[gen] + 1 = 1
        BY <2>1
      <4> QED
        BY <4>1, <4>2
    <3> QED
      BY <3>2, <3>3
  <2> QED
    BY <1>1, <1>a, <2>1, <2>2
<1>5. ASSUME NEW g \in Timer!Gens, Timer!TickEnds(g) PROVE TimerInv'
  <2>0. ticking[g] = 1 /\ ticking[g] - 1 = 0
    BY <1>1, <1>5 DEF Timer!TickEnds
  <2>1. /\ ticking' = [ticking EXCEPT ![g] = 0]
        /\ UNCHANGED <<switchOn, halted, gen, switches>>
        /\ timer' = IF Timer!Armed(g, halted, gen) = 0 THEN timer ELSE g
    BY <1>1, <1>5, <2>0 DEF Timer!TickEnds
  <2>2. CASE g = gen
    <3>1. switchOn /\ timer' = gen /\ ticking'[gen] = 0
      BY <1>1, <2>0, <2>1, <2>2 DEF Timer!Armed
    <3> QED
      BY <1>1, <1>a, <2>1, <2>2, <3>1
  <2>3. CASE g # gen
    <3>1. timer' = timer /\ ticking'[gen] = ticking[gen]
      BY <1>1, <2>1, <2>3 DEF Timer!Armed
    <3> QED
      BY <1>1, <1>a, <2>1, <2>3, <3>1
  <2> QED
    BY <2>2, <2>3
<1> QED
  BY <1>2, <1>3, <1>4, <1>5 DEF Timer!TimerNext

LEMMA TimerWell == TimerInv => Timer!TimerTypeOK
<1> SUFFICES ASSUME TimerInv PROVE Timer!TimerTypeOK
  OBVIOUS
<1>1. gen \in Timer!Gens
  BY Assumed DEF TimerInv, Timer!Gens, Timer!TimerAssumption
<1> QED
  BY <1>1 DEF TimerInv, Timer!TimerTypeOK, Timer!None

\* However often the switch is moved while a tick is under way: a scheduler that is
\* on has exactly one chain of ticks alive, and none when it is off.
THEOREM OneChain == ConversationSpec => []OneScanChain
<1> DEFINE I == InTimer => TimerInv
<1>1. ConversationInit => I
  BY TimerInitHolds DEF ConversationInit, InTimer
<1>2. I /\ [ConversationNext]_conversationVars => I'
  <2> SUFFICES ASSUME I, [ConversationNext]_conversationVars, InTimer' PROVE TimerInv'
    OBVIOUS
  <2>1. InTimer /\ [Timer!TimerNext]_(Timer!timerVars)
    BY PartSteps DEF InTimer
  <2> QED
    BY <2>1, TimerKeeps
<1>3. I => OneScanChain
  <2> SUFFICES ASSUME TimerInv PROVE Timer!OneScanChain
    BY DEF OneScanChain
  <2>1. gen \in Timer!Gens /\ gen # 0
    BY Assumed DEF TimerInv, Timer!Gens, Timer!TimerAssumption
  <2> QED
    BY <2>1 DEF TimerInv, Timer!OneScanChain, Timer!None
<1> QED
  BY <1>1, <1>2, <1>3, PTL DEF ConversationSpec

-----------------------------------------------------------------------------
(* ToolLoop *)

CallId == Nat \X Nat
Messages == [role : {"user", "assistant", "tool"}, ids : SUBSET CallId]

\* Each call of message i is answered once, before the model speaks again.
AnsweredOnce(i, ms) ==
    \A id \in ms[i].ids :
        \E j \in (i + 1) .. Len(ms) :
            /\ ms[j] = Tool!Msg("tool", {id})
            /\ \A k \in (i + 1) .. Len(ms) : ms[k] = Tool!Msg("tool", {id}) => k = j
            /\ \A k \in (i + 1) .. (j - 1) : ms[k].role # "assistant"

\* The calls of message i, if it makes any, are of a round before r, and answered.
Settled(i, ms, r) ==
    ms[i].role = "assistant" => AnsweredOnce(i, ms) /\ \A id \in ms[i].ids : id[1] < r

\* In round r: message last asked for c tools, d of which have answered.
Calling(ms, r, rest, last, c, d) ==
    /\ last + d = Len(ms)
    /\ \A i \in 1 .. (last - 1) : Settled(i, ms, r)
    /\ ms[last].role = "assistant" /\ \A id \in ms[last].ids : \E k \in 1 .. c : id = <<r, k>>
    /\ \A k \in 1 .. d : ms[last + k] = Tool!Msg("tool", {<<r, k>>})
    /\ Len(rest) = c - d /\ \A k \in 1 .. (c - d) : rest[k] = <<r, d + k>>

ToolInv ==
    /\ round \in 0 .. (MaxRounds + 1) /\ used \in Nat /\ billable \in Nat
    /\ messages \in Seq(Messages) /\ calls \in Seq(CallId)
    /\ at \in {"ask", "answered", "tools", "threw", "returned"}
    /\ at = "ask" => billable = round /\ round <= MaxRounds
    /\ at \in {"answered", "tools"} => billable = round + 1 /\ round <= MaxRounds
    /\ at # "threw" => used = billable
    /\ billable <= MaxRounds + 1
    /\ at = "returned" => content = "text"
    /\ content \in {"empty", "text"}
    /\ at \in {"ask", "answered"} => \A i \in 1 .. Len(messages) : Settled(i, messages, round)
    /\ at = "answered" => \A k \in 1 .. Len(calls) : calls[k] = <<round, k>>
    /\ at = "tools" => \E last \in 1 .. Len(messages), c \in Nat : \E d \in 0 .. c :
                          Calling(messages, round, calls, last, c, d)

\* What was settled stays so when the model speaks again or a tool of a later
\* round answers.
LEMMA SettledStays ==
    ASSUME NEW ms \in Seq(Messages), NEW i \in 1 .. Len(ms), NEW r \in Nat, Settled(i, ms, r),
           NEW x, x.role = "assistant" \/ \E k \in Nat : x = Tool!Msg("tool", {<<r, k>>})
    PROVE  Settled(i, Append(ms, x), r)
<1> DEFINE new == Append(ms, x)
<1>1. Len(new) = Len(ms) + 1 /\ new[Len(ms) + 1] = x /\ \A k \in 1 .. Len(ms) : new[k] = ms[k]
  OBVIOUS
<1> HIDE DEF new
<1>2. SUFFICES ASSUME ms[i].role = "assistant", NEW id \in ms[i].ids
               PROVE  /\ id[1] < r
                      /\ \E j \in (i + 1) .. Len(new) :
                            /\ new[j] = Tool!Msg("tool", {id})
                            /\ \A k \in (i + 1) .. Len(new) : new[k] = Tool!Msg("tool", {id}) => k = j
                            /\ \A k \in (i + 1) .. (j - 1) : new[k].role # "assistant"
  BY <1>1 DEF Settled, AnsweredOnce, new
<1>3. id[1] < r
  BY <1>2 DEF Settled
<1>4. PICK j \in (i + 1) .. Len(ms) :
          /\ ms[j] = Tool!Msg("tool", {id})
          /\ \A k \in (i + 1) .. Len(ms) : ms[k] = Tool!Msg("tool", {id}) => k = j
          /\ \A k \in (i + 1) .. (j - 1) : ms[k].role # "assistant"
  BY <1>2 DEF Settled, AnsweredOnce
<1>5. x # Tool!Msg("tool", {id})
  <2>1. CASE x.role = "assistant"
    BY <2>1 DEF Tool!Msg
  <2>2. ASSUME NEW k \in Nat, x = Tool!Msg("tool", {<<r, k>>}) PROVE x # Tool!Msg("tool", {id})
    <3>1. <<r, k>> # id
      BY <1>3
    <3>2. x.ids = {<<r, k>>} /\ Tool!Msg("tool", {id}).ids = {id}
      BY <2>2 DEF Tool!Msg
    <3> QED
      BY <3>1, <3>2
  <2> QED
    BY <2>1, <2>2
<1>6. Len(ms) \in Nat
  OBVIOUS
<1>7. j \in (i + 1) .. Len(new) /\ new[j] = Tool!Msg("tool", {id})
  BY <1>1, <1>4, <1>6
<1>8. ASSUME NEW k \in (i + 1) .. Len(new), new[k] = Tool!Msg("tool", {id}) PROVE k = j
  <2>1. k \in 1 .. Len(ms) /\ k \in (i + 1) .. Len(ms)
    BY <1>1, <1>5, <1>6, <1>8
  <2>2. ms[k] = Tool!Msg("tool", {id})
    BY <1>1, <1>8, <2>1
  <2> QED
    BY <1>4, <2>1, <2>2
<1>9. \A k \in (i + 1) .. (j - 1) : new[k].role # "assistant"
  BY <1>1, <1>4, <1>6
<1> QED
  BY <1>3, <1>7, <1>8, <1>9

LEMMA ToolInitHolds == ASSUME Tool!ToolInit PROVE ToolInv
<1>1. PICK m : m = Tool!Msg("user", {})
  OBVIOUS
<1>2. m \in Messages /\ m.role = "user" /\ messages = <<m>>
  BY <1>1 DEF Tool!ToolInit, Tool!Msg, Messages
<1>3. Len(messages) = 1 /\ messages[1] = m /\ messages \in Seq(Messages)
  BY <1>2
<1>4. \A i \in 1 .. Len(messages) : Settled(i, messages, round)
  BY <1>2, <1>3 DEF Settled
<1>5. calls = <<>> /\ calls \in Seq(CallId) /\ round = 0 /\ at = "ask" /\ content = "empty"
      /\ used = 0 /\ billable = 0 /\ MaxRounds \in Nat
  BY Assumed DEF Tool!ToolInit, Tool!ToolLoopAssumption
<1> QED
  BY <1>3, <1>4, <1>5 DEF ToolInv

LEMMA ToolKeeps ==
    ASSUME ToolInv, [Tool!ToolNext]_(Tool!toolVars) PROVE ToolInv'
<1>0. /\ MaxRounds \in Nat /\ round \in Nat /\ messages \in Seq(Messages) /\ Len(messages) \in Nat
      /\ calls \in Seq(CallId) /\ Len(calls) \in Nat
  BY Assumed DEF Tool!ToolLoopAssumption, ToolInv
<1>1. CASE UNCHANGED Tool!toolVars
  BY <1>1 DEF Tool!toolVars, ToolInv
<1>2. CASE Tool!AskFails
  <2>1. PICK paid \in {0, 1} : at = "ask" /\ at' = "threw" /\ billable' = billable + paid
    BY <1>2 DEF Tool!AskFails
  <2>2. UNCHANGED <<messages, round, calls, content, used>>
    BY <1>2 DEF Tool!AskFails
  <2> QED
    BY <1>0, <2>1, <2>2 DEF ToolInv
<1>3. ASSUME NEW n \in 0 .. MaxCalls, Tool!Completion(n) PROVE ToolInv'
  <2>1. /\ at = "ask" /\ at' = "answered" /\ content' \in {"empty", "text"}
        /\ calls' = [i \in 1 .. n |-> <<round, i>>]
        /\ billable' = billable + 1 /\ used' = used + 1 /\ UNCHANGED <<messages, round>>
    BY <1>3 DEF Tool!Completion
  <2>2. calls' \in Seq(CallId) /\ Len(calls') = n /\ \A k \in 1 .. n : calls'[k] = <<round, k>>
    BY <1>0, <2>1, Assumed DEF CallId, Tool!ToolLoopAssumption
  <2> QED
    BY <1>0, <2>1, <2>2 DEF ToolInv
<1>4. CASE Tool!NoChoice
  <2>1. /\ at = "ask" /\ at' = "threw" /\ billable' = billable + 1 /\ used' = used + 1
        /\ UNCHANGED <<messages, round, calls, content>>
    BY <1>4 DEF Tool!NoChoice
  <2> QED
    BY <1>0, <2>1 DEF ToolInv
<1>5. CASE Tool!CallTools
  <2>1. /\ at = "answered" /\ at' = "tools" /\ round < MaxRounds
        /\ messages' = Append(messages, Tool!Msg("assistant", Tool!ToSet(calls)))
        /\ UNCHANGED <<round, calls, content, used, billable>>
    BY <1>5 DEF Tool!CallTools, Tool!RunsTools
  <2>2. PICK x : x = Tool!Msg("assistant", Tool!ToSet(calls))
    OBVIOUS
  <2>3. x \in Messages /\ x.role = "assistant" /\ x.ids = {calls[k] : k \in 1 .. Len(calls)}
    BY <1>0, <2>2 DEF Tool!Msg, Messages, Tool!ToSet
  <2>4. /\ messages' = Append(messages, x) /\ messages' \in Seq(Messages)
        /\ Len(messages') = Len(messages) + 1 /\ messages'[Len(messages) + 1] = x
    BY <1>0, <2>1, <2>2, <2>3
  <2>5. \A i \in 1 .. Len(messages) : Settled(i, messages', round)
    BY <1>0, <2>1, <2>3, <2>4, SettledStays DEF ToolInv
  <2>6. \A k \in 1 .. Len(calls) : calls[k] = <<round, k>>
    BY <2>1 DEF ToolInv
  <2>7. Calling(messages', round, calls, Len(messages) + 1, Len(calls), 0)
    <3>1. messages'[Len(messages) + 1].role = "assistant"
          /\ \A id \in messages'[Len(messages) + 1].ids : \E k \in 1 .. Len(calls) : id = <<round, k>>
      <4> SUFFICES ASSUME NEW id \in x.ids PROVE \E k \in 1 .. Len(calls) : id = <<round, k>>
        BY <2>3, <2>4
      <4>1. PICK k \in 1 .. Len(calls) : id = calls[k]
        BY <2>3
      <4> QED
        BY <2>6, <4>1
    <3>2. /\ (Len(messages) + 1) + 0 = Len(messages') /\ Len(messages) + 1 - 1 = Len(messages)
          /\ 1 .. 0 = {} /\ Len(calls) - 0 = Len(calls) /\ \A k \in 1 .. Len(calls) : 0 + k = k
      BY <1>0, <2>4
    <3> QED
      BY <2>5, <2>6, <3>1, <3>2 DEF Calling
  <2>8. \E last \in 1 .. Len(messages'), c \in Nat : \E d \in 0 .. c :
           Calling(messages', round', calls', last, c, d)
    BY <1>0, <2>1, <2>4, <2>7
  <2> QED
    BY <1>0, <2>1, <2>4, <2>8 DEF ToolInv
<1>6. CASE Tool!RunBuiltinTool
  <2>1. /\ at = "tools" /\ calls # <<>> /\ messages' = messages \o <<Tool!Msg("tool", {Head(calls)})>>
        /\ calls' = Tail(calls) /\ UNCHANGED <<round, at, content, used, billable>>
    BY <1>6 DEF Tool!RunBuiltinTool, Tool!ToolResult
  <2>2. PICK last \in 1 .. Len(messages), c \in Nat : \E d \in 0 .. c :
           Calling(messages, round, calls, last, c, d)
    BY <2>1 DEF ToolInv
  <2>3. PICK d \in 0 .. c : Calling(messages, round, calls, last, c, d)
    BY <2>2
  <2>4. d < c /\ Head(calls) = <<round, d + 1>>
    BY <1>0, <2>1, <2>3 DEF Calling
  <2>5. PICK x : x = Tool!Msg("tool", {<<round, d + 1>>})
    OBVIOUS
  <2>6. x \in Messages /\ x.role = "tool"
    BY <1>0, <2>4, <2>5 DEF Tool!Msg, Messages, CallId
  <2>7. /\ messages' = Append(messages, x) /\ messages' \in Seq(Messages)
        /\ Len(messages') = Len(messages) + 1 /\ messages'[Len(messages) + 1] = x
        /\ \A i \in 1 .. Len(messages) : messages'[i] = messages[i]
    <3>1. messages' = messages \o <<x>>
      BY <2>1, <2>4, <2>5
    <3> QED
      BY <1>0, <2>6, <3>1
  <2>8. \A i \in 1 .. (last - 1) : Settled(i, messages', round)
    <3> SUFFICES ASSUME NEW i \in 1 .. (last - 1) PROVE Settled(i, messages', round)
      OBVIOUS
    <3>1. i \in 1 .. Len(messages) /\ Settled(i, messages, round)
      BY <1>0, <2>3 DEF Calling
    <3>2. \E k \in Nat : x = Tool!Msg("tool", {<<round, k>>})
      <4>1. d + 1 \in Nat
        BY <2>2
      <4> QED
        BY <2>5, <4>1
    <3> QED
      BY <1>0, <2>7, <3>1, <3>2, SettledStays
  <2>9. /\ calls' \in Seq(CallId) /\ Len(calls') = Len(calls) - 1
        /\ \A k \in 1 .. (Len(calls) - 1) : calls'[k] = calls[k + 1]
    BY <1>0, <2>1
  <2>10. last + (d + 1) = Len(messages') /\ \A k \in 1 .. d + 1 :
            messages'[last + k] = Tool!Msg("tool", {<<round, k>>})
    <3>1. \A k \in 1 .. d : messages'[last + k] = Tool!Msg("tool", {<<round, k>>})
      <4>1. /\ last + d = Len(messages)
            /\ \A k \in 1 .. d : messages[last + k] = Tool!Msg("tool", {<<round, k>>})
        BY <2>3 DEF Calling
      <4>2. \A k \in 1 .. d : last + k \in 1 .. Len(messages)
        BY <4>1
      <4> QED
        BY <2>7, <4>1, <4>2
    <3>2. messages'[last + (d + 1)] = x /\ last + (d + 1) = Len(messages')
      <4>1. last + d = Len(messages)
        BY <2>3 DEF Calling
      <4>2. last + (d + 1) = Len(messages) + 1
        BY <4>1
      <4> HIDE DEF Calling
      <4> QED
        BY <2>7, <4>2
    <3> QED
      <4> SUFFICES ASSUME NEW k \in 1 .. d + 1
                   PROVE  messages'[last + k] = Tool!Msg("tool", {<<round, k>>})
        BY <3>2
      <4>1. CASE k \in 1 .. d
        BY <3>1, <4>1
      <4>2. CASE k = d + 1
        BY <2>5, <3>2, <4>2
      <4> QED
        BY <4>1, <4>2
  <2>11. Len(calls') = c - (d + 1) /\ \A k \in 1 .. (c - (d + 1)) : calls'[k] = <<round, (d + 1) + k>>
    <3>1. Len(calls) = c - d /\ \A k \in 1 .. (c - d) : calls[k] = <<round, d + k>>
      BY <2>3 DEF Calling
    <3>2. Len(calls') = c - (d + 1)
      BY <2>4, <2>9, <3>1
    <3>3. ASSUME NEW k \in 1 .. (c - (d + 1)) PROVE calls'[k] = <<round, (d + 1) + k>>
      <4>1. k \in 1 .. (Len(calls) - 1) /\ k + 1 \in 1 .. (c - d) /\ d + (k + 1) = (d + 1) + k
        <5>1. k \in 1 .. (c - d - 1)
          BY <2>4, <3>3
        <5> QED
          BY <2>4, <3>1, <5>1
      <4> QED
        BY <2>9, <3>1, <4>1
    <3> QED
      BY <3>2, <3>3
  <2>12. Calling(messages', round, calls', last, c, d + 1)
    BY <2>3, <2>7, <2>8, <2>10, <2>11 DEF Calling
  <2>13. \E last2 \in 1 .. Len(messages'), c2 \in Nat : \E d2 \in 0 .. c2 :
           Calling(messages', round', calls', last2, c2, d2)
    <3>1. round' = round /\ c \in Nat /\ d + 1 \in 0 .. c /\ last \in 1 .. Len(messages')
      BY <1>0, <2>1, <2>4, <2>7
    <3> QED
      BY <2>12, <3>1
  <2> QED
    BY <1>0, <2>1, <2>7, <2>9, <2>13 DEF ToolInv
<1>7. CASE Tool!NextRound
  <2>1. /\ at = "tools" /\ calls = <<>> /\ round' = round + 1
        /\ at' = IF round + 1 <= MaxRounds THEN "ask" ELSE "threw"
        /\ UNCHANGED <<messages, calls, content, used, billable>>
    BY <1>7 DEF Tool!NextRound
  <2>2. PICK last \in 1 .. Len(messages), c \in Nat : \E d \in 0 .. c :
           Calling(messages, round, calls, last, c, d)
    BY <2>1 DEF ToolInv
  <2>3. PICK d \in 0 .. c : Calling(messages, round, calls, last, c, d)
    BY <2>2
  <2>4. d = c
    BY <2>1, <2>3 DEF Calling
  <2>5. ASSUME NEW i \in 1 .. Len(messages) PROVE Settled(i, messages, round + 1)
    <3>1. CASE i < last
      <4>1. Settled(i, messages, round)
        BY <2>3, <3>1 DEF Calling
      <4>2. ASSUME messages[i].role = "assistant", NEW id \in messages[i].ids PROVE id[1] < round + 1
        <5>1. id \in CallId /\ id[1] < round
          <6>1. messages[i].ids \subseteq CallId
            <7>1. messages[i] \in Messages
              BY <1>0
            <7> QED
              BY <7>1 DEF Messages
          <6> QED
            BY <4>1, <4>2, <6>1 DEF Settled
        <5> QED
          BY <1>0, <5>1 DEF CallId
      <4> QED
        BY <4>1, <4>2 DEF Settled
    <3>2. CASE i > last
      <4>1. messages[last + (i - last)] = Tool!Msg("tool", {<<round, i - last>>})
        BY <2>3, <2>4, <3>2 DEF Calling
      <4>2. messages[i].role = "tool"
        BY <4>1 DEF Tool!Msg
      <4> QED
        BY <4>2 DEF Settled
    <3>3. CASE i = last
      <4> SUFFICES ASSUME NEW id \in messages[last].ids
                   PROVE  /\ id[1] < round + 1
                          /\ \E j \in (last + 1) .. Len(messages) :
                                /\ messages[j] = Tool!Msg("tool", {id})
                                /\ \A k \in (last + 1) .. Len(messages) :
                                      messages[k] = Tool!Msg("tool", {id}) => k = j
                                /\ \A k \in (last + 1) .. (j - 1) : messages[k].role # "assistant"
        BY <3>3 DEF Settled, AnsweredOnce
      <4>1. PICK b \in 1 .. c : id = <<round, b>>
        BY <2>3 DEF Calling
      <4>2. ASSUME NEW k \in (last + 1) .. Len(messages)
            PROVE  messages[k] = Tool!Msg("tool", {<<round, k - last>>})
        <5>1. k - last \in 1 .. d /\ last + (k - last) = k
          BY <2>3 DEF Calling
        <5> QED
          BY <2>3, <5>1 DEF Calling
      <4>3. last + b \in (last + 1) .. Len(messages) /\ (last + b) - last = b
        BY <2>3, <2>4 DEF Calling
      <4>4. messages[last + b] = Tool!Msg("tool", {id})
        BY <4>1, <4>2, <4>3
      <4>5. ASSUME NEW k \in (last + 1) .. Len(messages), messages[k] = Tool!Msg("tool", {id})
            PROVE  k = last + b
        <5>1. Tool!Msg("tool", {<<round, k - last>>}) = Tool!Msg("tool", {<<round, b>>})
          BY <4>1, <4>2, <4>5
        <5>2. {<<round, k - last>>} = {<<round, b>>}
          BY <5>1 DEF Tool!Msg
        <5>3. k - last = b
          <6>1. <<round, k - last>> = <<round, b>>
            BY <5>2
          <6> QED
            BY <6>1
        <5> QED
          BY <5>3
      <4>6. \A k \in (last + 1) .. (last + b - 1) : messages[k].role # "assistant"
        <5> SUFFICES ASSUME NEW k \in (last + 1) .. (last + b - 1) PROVE messages[k].role # "assistant"
          OBVIOUS
        <5>1. k \in (last + 1) .. Len(messages)
          BY <4>3
        <5> QED
          <6>1. PICK y : y = Tool!Msg("tool", {<<round, k - last>>})
            OBVIOUS
          <6>2. y.role = "tool"
            BY <6>1 DEF Tool!Msg
          <6> QED
            BY <4>2, <5>1, <6>1, <6>2
      <4>7. id[1] < round + 1
        BY <1>0, <4>1
      <4> QED
        <5>1. PICK j : j = last + b
          OBVIOUS
        <5>2. j \in (last + 1) .. Len(messages) /\ last + b - 1 = j - 1
          BY <4>3, <5>1
        <5> QED
          BY <4>4, <4>5, <4>6, <4>7, <5>1, <5>2
    <3> QED
      BY <3>1, <3>2, <3>3
  <2> QED
    BY <1>0, <2>1, <2>5 DEF ToolInv
<1>8. CASE Tool!Returns
  <2>1. /\ at = "answered" /\ at' = IF content = "empty" THEN "threw" ELSE "returned"
        /\ UNCHANGED <<messages, round, calls, content, used, billable>>
    BY <1>8 DEF Tool!Returns
  <2> QED
    BY <1>0, <2>1 DEF ToolInv
<1> QED
  BY <1>1, <1>2, <1>3, <1>4, <1>5, <1>6, <1>7, <1>8 DEF Tool!ToolNext

\* The tools are those that were offered, and no more completions are counted than
\* were paid for.
ToolTypes == offered \in ToolSets /\ used <= billable

LEMMA ToolTyped ==
    ASSUME ToolInv, ToolTypes, [Tool!ToolNext]_(Tool!toolVars) PROVE ToolTypes'
<1>0. used \in Nat /\ billable \in Nat
  BY DEF ToolInv
<1>1. offered' = offered
  BY DEF Tool!ToolNext, Tool!toolVars, Tool!AskFails, Tool!Completion, Tool!NoChoice,
         Tool!CallTools, Tool!RunBuiltinTool, Tool!NextRound, Tool!Returns
<1>2. \/ used' = used /\ billable' = billable
      \/ used' = used /\ billable' \in {billable, billable + 1}
      \/ used' = used + 1 /\ billable' = billable + 1
  <2>1. CASE Tool!AskFails
    BY <1>0, <2>1 DEF Tool!AskFails
  <2>2. CASE ~Tool!AskFails
    BY <2>2 DEF Tool!ToolNext, Tool!toolVars, Tool!Completion, Tool!NoChoice,
                Tool!CallTools, Tool!RunBuiltinTool, Tool!NextRound, Tool!Returns
  <2> QED
    BY <2>1, <2>2
<1> QED
  BY <1>0, <1>1, <1>2 DEF ToolTypes

LEMMA ToolWell == ToolInv /\ ToolTypes => Tool!ToolTypeOK
<1> SUFFICES ASSUME ToolInv, ToolTypes PROVE Tool!ToolTypeOK
  OBVIOUS
<1>1. offered \subseteq Tool!ToolNames /\ MaxRounds \in Nat
  BY Assumed DEF Tool!ToolLoopAssumption, ToolTypes
<1>2. used \in 0 .. (MaxRounds + 1) /\ billable \in 0 .. (MaxRounds + 1)
  BY <1>1 DEF ToolInv, ToolTypes
<1> QED
  BY <1>1, <1>2 DEF ToolInv, Tool!ToolTypeOK

\* For any bound of rounds and calls: whenever the model is asked, each tool call of
\* the conversation has one answer, before the model's next turn; it is asked at
\* most MaxRounds + 1 times, and what it returns is billed.
THEOREM CallsHold == ConversationSpec => []CallsAnswered
<1> DEFINE I == InTool => ToolInv
<1>1. ConversationInit => I
  BY ToolInitHolds DEF ConversationInit, InTool
<1>2. I /\ [ConversationNext]_conversationVars => I'
  <2> SUFFICES ASSUME I, [ConversationNext]_conversationVars, InTool' PROVE ToolInv'
    OBVIOUS
  <2>1. InTool /\ [Tool!ToolNext]_(Tool!toolVars)
    BY PartSteps DEF InTool
  <2> QED
    BY <2>1, ToolKeeps
<1>3. I => CallsAnswered
  <2> SUFFICES ASSUME ToolInv PROVE Tool!CallsAnswered
    BY DEF CallsAnswered
  <2> DEFINE To(i, id) == {j \in (i + 1) .. Len(messages) : messages[j] = Tool!Msg("tool", {id})}
  <2>1. ASSUME at = "ask", NEW i \in 1 .. Len(messages), messages[i].role = "assistant",
               NEW id \in messages[i].ids
        PROVE  \E j \in To(i, id) : /\ To(i, id) = {j}
                                    /\ \A k \in (i + 1) .. (j - 1) : ~(messages[k].role = "assistant")
    <3>1. Settled(i, messages, round)
      BY <2>1 DEF ToolInv
    <3>2. PICK j \in (i + 1) .. Len(messages) :
            /\ messages[j] = Tool!Msg("tool", {id})
            /\ \A k \in (i + 1) .. Len(messages) : messages[k] = Tool!Msg("tool", {id}) => k = j
            /\ \A k \in (i + 1) .. (j - 1) : messages[k].role # "assistant"
      BY <2>1, <3>1 DEF Settled, AnsweredOnce
    <3>3. To(i, id) = {j}
      BY <3>2
    <3> QED
      BY <3>2, <3>3
  <2>2. billable <= MaxRounds + 1 /\ (at = "returned" => used = billable /\ content = "text")
    BY DEF ToolInv
  <2> QED
    BY <2>1, <2>2 DEF Tool!CallsAnswered
<1> QED
  BY <1>1, <1>2, <1>3, PTL DEF ConversationSpec

-----------------------------------------------------------------------------
(* GraphRun *)

LEMMA Counts == ASSUME NEW U PROVE Graph!Cardinality(U) = Cardinality(U)
BY DEF Graph!Cardinality, Cardinality

LEMMA Interval == ASSUME NEW m \in Nat PROVE IsFiniteSet(1 .. m) /\ Cardinality(1 .. m) = m
<1>1. IsFiniteSet(1 .. m) /\ Cardinality(1 .. m) = IF 1 > m THEN 0 ELSE m - 1 + 1
  BY FS_Interval
<1> QED
  BY <1>1

\* A list that is longer than it has different values has one of them twice.
LEMMA Repeats ==
    ASSUME NEW m \in Nat, NEW n \in Nat, m < n, NEW f \in [1 .. n -> 1 .. m]
    PROVE  \E i, j \in 1 .. n : i # j /\ f[i] = f[j]
<1>1. Cardinality(1 .. m) < Cardinality(1 .. n)
  BY Interval
<1> QED
  BY <1>1, Interval, FS_PigeonHole

Entries ==
    [node : STRING, what : {"cut", "pass", "true", "false", "throw", "empty", "text"}]

Drawn(g, x, h) == {k \in DOMAIN g.edges : g.edges[k].source = x /\ g.edges[k].handle = h}

\* An edge of g goes from the entry e to x, the one e decided for where both are drawn.
LeadsTo(g, e, x) ==
    /\ \E k \in DOMAIN g.edges : g.edges[k].source = e.node /\ g.edges[k].target = x
    /\ (e.what \in {"true", "false"} /\ (\A h \in {"true", "false"} : Drawn(g, e.node, h) # {})
          /\ Drawn(g, e.node, "none") = {})
       => \E k \in Drawn(g, e.node, e.what) : g.edges[k].target = x

\* Where the run goes after the entry e: no edge leaves it, or one leads to x.
GoesTo(g, e, x) ==
    \/ x = Graph!Nowhere /\ {k \in DOMAIN g.edges : g.edges[k].source = e.node} = {}
    \/ x \in Graph!Ids(g) /\ LeadsTo(g, e, x)

Walked(g, tr) ==
    /\ \A i \in 1 .. (Len(tr) - 1) : LeadsTo(g, tr[i], tr[i + 1].node)
    /\ \A i \in 1 .. Len(tr) : tr[i].node \in Graph!Ids(g)

\* No node of the walk has answered.
Silent(tr) == \A i \in 1 .. Len(tr) : tr[i].what # "text"

Running(g, tr, x, n, a) ==
    /\ Graph!Valid(g) /\ n = Len(tr) /\ a = Graph!Nowhere /\ Silent(tr)
    /\ IF tr = <<>> THEN x \in Graph!Ids(g) ELSE GoesTo(g, tr[Len(tr)], x)

Ended(g, tr, a, how) ==
    /\ \A i \in 1 .. Len(tr) : tr[i].what = "text" => i = Len(tr)
    /\ how = "answered" => Len(tr) > 0 /\ a = tr[Len(tr)].node
    /\ how = "no_answer" =>
          {k \in DOMAIN g.edges : g.edges[k].source = tr[Len(tr)].node} = {}
    /\ (how = "max_steps" /\ MaxSteps >= Len(g.nodes)) =>
          \E i, j \in 1 .. Len(tr) : i # j /\ tr[i].node = tr[j].node

GraphInv ==
    /\ graph \in Graphs /\ trace \in Seq(Entries)
    /\ outcome = "start" => trace = <<>> /\ steps = 0 /\ answer = Graph!Nowhere
    /\ outcome # "start" => Walked(graph, trace)
    /\ outcome = "run" => Running(graph, trace, current, steps, answer)
    /\ outcome \notin {"start", "run"} => Ended(graph, trace, answer, outcome)

LEMMA Saved ==
    ASSUME NEW g \in Graphs
    PROVE  /\ DOMAIN g.edges = 1 .. Len(g.edges) /\ Len(g.edges) \in Nat
           /\ DOMAIN g.nodes = 1 .. Len(g.nodes) /\ Len(g.nodes) \in Nat
           /\ \A i \in DOMAIN g.nodes : g.nodes[i].id \in STRING \ {Graph!Nowhere}
           /\ \A k \in DOMAIN g.edges : g.edges[k].handle \in STRING
           /\ Graph!Ids(g) \subseteq STRING \ {Graph!Nowhere}
<1>1. g \in Graph!Drawings
  BY Assumed DEF Graph!GraphAssumption
<1>2. PICK N : N = [id : STRING \ {Graph!Nowhere}, type : STRING]
  OBVIOUS
<1>3. PICK E : E = [source : STRING, handle : STRING, target : STRING]
  OBVIOUS
<1>4. g.nodes \in Seq(N) /\ g.edges \in Seq(E)
  BY <1>1, <1>2, <1>3 DEF Graph!Drawings
<1>5. \A i \in DOMAIN g.nodes : g.nodes[i].id \in STRING \ {Graph!Nowhere}
  <2>1. \A i \in DOMAIN g.nodes : g.nodes[i] \in N
    BY <1>4
  <2> QED
    BY <1>2, <2>1
<1>6. \A k \in DOMAIN g.edges : g.edges[k].handle \in STRING
  <2>1. \A k \in DOMAIN g.edges : g.edges[k] \in E
    BY <1>4
  <2> QED
    BY <1>3, <2>1
<1> QED
  BY <1>4, <1>5, <1>6 DEF Graph!Ids

\* The edge `outgoing` follows is one that leaves the node, if any does, and one with
\* the handle it is asked for where both handles are drawn and no edge is without.
LEMMA OutgoingLeads ==
    ASSUME graph \in Graphs, Graph!Valid(graph), NEW x, NEW h \in {"none", "true", "false"},
           NEW y, y = Graph!Outgoing(x, h)
    PROVE  IF Graph!Leaving(x) = {} THEN y = Graph!Nowhere
           ELSE /\ y \in Graph!Ids(graph)
                /\ \E k \in Graph!Leaving(x) : graph.edges[k].target = y
                /\ (h # "none" /\ Drawn(graph, x, h) # {} /\ Drawn(graph, x, "none") = {})
                   => \E k \in Drawn(graph, x, h) : graph.edges[k].target = y
<1> DEFINE hit == {k \in Graph!Leaving(x) : h # "none" /\ Graph!Handle(k) = h}
           bare == {k \in Graph!Leaving(x) : graph.edges[k].handle \in {"none", "default"}}
<1>1. Graph!Leaving(x) \subseteq DOMAIN graph.edges /\ DOMAIN graph.edges \subseteq Nat
  BY Saved DEF Graph!Leaving
<1>2. ASSUME NEW K \in SUBSET Graph!Leaving(x), K # {}
      PROVE  \E k \in K : Graph!FirstTarget(K) = graph.edges[k].target
  <2>1. \E u \in K : \A v \in K : u <= v
    BY <1>1, <1>2, Least
  <2>2. Graph!Min(K) \in K
    BY <2>1 DEF Graph!Min
  <2> QED
    BY <2>2 DEF Graph!FirstTarget
<1>3. y = IF hit # {} THEN Graph!FirstTarget(hit)
          ELSE IF bare # {} THEN Graph!FirstTarget(bare)
          ELSE IF Graph!Leaving(x) # {} THEN Graph!FirstTarget(Graph!Leaving(x))
          ELSE Graph!Nowhere
  BY DEF Graph!Outgoing
<1>4. hit \subseteq Graph!Leaving(x) /\ bare \subseteq Graph!Leaving(x)
  OBVIOUS
<1>5. CASE Graph!Leaving(x) = {}
  BY <1>3, <1>4, <1>5
<1>6. CASE Graph!Leaving(x) # {}
  <2>1. \E k \in Graph!Leaving(x) : graph.edges[k].target = y
    <3>1. CASE hit # {}
      BY <1>2, <1>3, <1>4, <3>1
    <3>2. CASE hit = {} /\ bare # {}
      BY <1>2, <1>3, <1>4, <3>2
    <3>3. CASE hit = {} /\ bare = {}
      BY <1>2, <1>3, <1>6, <3>3
    <3> QED
      BY <3>1, <3>2, <3>3
  <2>2. y \in Graph!Ids(graph)
    BY <1>1, <2>1 DEF Graph!Valid
  <2>3. ASSUME h # "none", Drawn(graph, x, h) # {}, Drawn(graph, x, "none") = {}
        PROVE  \E k \in Drawn(graph, x, h) : graph.edges[k].target = y
    <3>1. hit = Drawn(graph, x, h)
      BY <2>3 DEF Drawn, Graph!Leaving, Graph!Handle
    <3> QED
      BY <1>2, <1>3, <1>4, <2>3, <3>1
  <2> QED
    BY <1>6, <2>1, <2>2, <2>3
<1> QED
  BY <1>5, <1>6

LEMMA GraphInitHolds == ASSUME Graph!GraphInit PROVE GraphInv
BY DEF Graph!GraphInit, GraphInv

\* The edge a condition takes leads where the condition says.
LEMMA BranchLeads ==
    ASSUME graph \in Graphs, Graph!Valid(graph), NEW x, NEW ok \in BOOLEAN,
           NEW y, y = Graph!Branch(x, ok), NEW e \in Entries, e.node = x,
           e.what = IF ok THEN "true" ELSE "false"
    PROVE  GoesTo(graph, e, y)
<1>1. PICK h \in {"true", "false"} : h = IF ok THEN "true" ELSE "false"
  OBVIOUS
<1>2. PICK h2 \in {"true", "false"} : h2 = IF ~ok THEN "true" ELSE "false"
  OBVIOUS
<1>3. PICK y1 : y1 = Graph!Outgoing(x, h)
  OBVIOUS
<1>4. PICK y2 : y2 = Graph!Outgoing(x, h2)
  OBVIOUS
<1>5. y = IF y1 # Graph!Nowhere THEN y1 ELSE y2
  BY <1>1, <1>2, <1>3, <1>4 DEF Graph!Branch
<1>6. IF Graph!Leaving(x) = {} THEN y2 = Graph!Nowhere ELSE TRUE
  BY <1>4, OutgoingLeads
<1>7. IF Graph!Leaving(x) = {} THEN y1 = Graph!Nowhere
      ELSE /\ y1 \in Graph!Ids(graph)
           /\ \E k \in Graph!Leaving(x) : graph.edges[k].target = y1
           /\ (Drawn(graph, x, h) # {} /\ Drawn(graph, x, "none") = {})
              => \E k \in Drawn(graph, x, h) : graph.edges[k].target = y1
  BY <1>3, OutgoingLeads
<1>8. Graph!Leaving(x) = {k \in DOMAIN graph.edges : graph.edges[k].source = e.node}
  BY DEF Graph!Leaving
<1>9. CASE Graph!Leaving(x) = {}
  BY <1>5, <1>6, <1>7, <1>8, <1>9 DEF GoesTo
<1>10. CASE Graph!Leaving(x) # {}
  <2>1. y1 \in Graph!Ids(graph) /\ y1 # Graph!Nowhere
    BY <1>7, <1>10, Saved
  <2>2. y = y1
    BY <1>5, <2>1
  <2>3. \E k \in DOMAIN graph.edges : graph.edges[k].source = e.node /\ graph.edges[k].target = y
    BY <1>7, <1>8, <1>10, <2>2
  <2>4. (Drawn(graph, e.node, h) # {} /\ Drawn(graph, e.node, "none") = {})
        => \E k \in Drawn(graph, e.node, e.what) : graph.edges[k].target = y
    BY <1>1, <1>7, <1>10, <2>2
  <2>5. LeadsTo(graph, e, y)
    BY <1>1, <2>3, <2>4 DEF LeadsTo
  <2> QED
    BY <2>1, <2>2, <2>5 DEF GoesTo
<1> QED
  BY <1>9, <1>10

\* Any other node passes on to an edge that leaves it.
LEMMA PassLeads ==
    ASSUME graph \in Graphs, Graph!Valid(graph), NEW x,
           NEW y, y = Graph!Outgoing(x, "none"), NEW e \in Entries, e.node = x,
           e.what \notin {"true", "false"}
    PROVE  GoesTo(graph, e, y)
<1>1. IF Graph!Leaving(x) = {} THEN y = Graph!Nowhere
      ELSE y \in Graph!Ids(graph) /\ \E k \in Graph!Leaving(x) : graph.edges[k].target = y
  BY OutgoingLeads
<1>2. Graph!Leaving(x) = {k \in DOMAIN graph.edges : graph.edges[k].source = e.node}
  BY DEF Graph!Leaving
<1>3. CASE Graph!Leaving(x) = {}
  BY <1>1, <1>2, <1>3 DEF GoesTo
<1>4. CASE Graph!Leaving(x) # {}
  BY <1>1, <1>2, <1>4 DEF GoesTo, LeadsTo
<1> QED
  BY <1>3, <1>4

\* The walk that enters the node it came to.
LEMMA Entered ==
    ASSUME NEW g \in Graphs, NEW tr \in Seq(Entries), NEW x, NEW n, NEW a,
           Walked(g, tr), Running(g, tr, x, n, a), x # Graph!Nowhere,
           NEW e \in Entries, e.node = x
    PROVE  LET new == Append(tr, e)
           IN  /\ new \in Seq(Entries)
               /\ Len(new) = Len(tr) + 1 /\ new # <<>> /\ new[Len(new)] = e
               /\ Walked(g, new) /\ x \in Graph!Ids(g)
               /\ \A i \in 1 .. Len(tr) : new[i] = tr[i] /\ new[i].what # "text"
<1> DEFINE new == Append(tr, e)
<1>1. x \in Graph!Ids(g) /\ (tr # <<>> => LeadsTo(g, tr[Len(tr)], x))
  BY DEF Running, GoesTo
<1>4. /\ new \in Seq(Entries) /\ Len(new) = Len(tr) + 1 /\ new[Len(tr) + 1] = e /\ Len(tr) \in Nat
      /\ \A i \in 1 .. Len(tr) : new[i] = tr[i]
  OBVIOUS
<1> HIDE DEF new
<1>5. \A i \in 1 .. Len(new) : new[i].node \in Graph!Ids(g)
  BY <1>1, <1>4 DEF Walked
<1>6. ASSUME NEW i \in 1 .. (Len(new) - 1) PROVE LeadsTo(g, new[i], new[i + 1].node)
  <2>1. CASE i < Len(tr)
    <3>1. i \in 1 .. (Len(tr) - 1) /\ new[i] = tr[i] /\ new[i + 1] = tr[i + 1]
      BY <1>4, <1>6, <2>1
    <3> QED
      BY <3>1 DEF Walked
  <2>2. CASE i = Len(tr)
    <3>1. new[i] = tr[Len(tr)] /\ new[i + 1].node = x /\ tr # <<>>
      BY <1>4, <1>6, <2>2
    <3> QED
      BY <1>1, <3>1
  <2> QED
    BY <1>4, <1>6, <2>1, <2>2
<1>7. Walked(g, new)
  BY <1>5, <1>6 DEF Walked
<1>8. \A i \in 1 .. Len(tr) : new[i].what # "text"
  BY <1>4 DEF Running, Silent
<1>9. new # <<>> /\ new[Len(new)] = e
  BY <1>4
<1> QED
  BY <1>1, <1>4, <1>7, <1>8, <1>9 DEF new

\* A node that does not answer leads on.
LEMMA GoesOnKeeps ==
    ASSUME GraphInv, outcome = "run", current # Graph!Nowhere, NEW e \in Entries,
           e.node = current, e.what # "text",
           trace' = Append(trace, e), steps' = steps + 1, UNCHANGED <<graph, answer, outcome>>,
           GoesTo(graph, e, current')
    PROVE  GraphInv'
<1>1. /\ graph \in Graphs /\ trace \in Seq(Entries) /\ Walked(graph, trace)
      /\ Running(graph, trace, current, steps, answer)
  BY DEF GraphInv
<1>2. PICK new : new = Append(trace, e)
  OBVIOUS
<1>3. /\ new \in Seq(Entries) /\ Len(new) = Len(trace) + 1 /\ new # <<>>
      /\ new[Len(new)] = e /\ Walked(graph, new) /\ Len(trace) \in Nat
      /\ \A i \in 1 .. Len(trace) : new[i].what # "text"
  BY <1>1, <1>2, Entered
<1>4. Silent(new)
  <2> SUFFICES ASSUME NEW i \in 1 .. Len(new) PROVE new[i].what # "text"
    BY DEF Silent
  <2>1. i \in 1 .. Len(trace) \/ i = Len(new)
    BY <1>3
  <2> QED
    BY <1>3, <2>1
<1>5. Running(graph, new, current', steps', answer)
  BY <1>1, <1>3, <1>4 DEF Running
<1> QED
  BY <1>1, <1>2, <1>3, <1>5 DEF GraphInv

\* A node that ends the run leaves its entry as the last.
LEMMA EndsKeeps ==
    ASSUME GraphInv, outcome = "run", current # Graph!Nowhere, NEW e \in Entries,
           e.node = current,
           trace' = Append(trace, e), UNCHANGED graph,
           outcome' \notin {"start", "run", "no_answer"},
           outcome' = "answered" => answer' = current,
           outcome' = "max_steps" => MaxSteps <= Len(trace)
    PROVE  GraphInv'
<1>1. /\ graph \in Graphs /\ trace \in Seq(Entries) /\ Walked(graph, trace)
      /\ Running(graph, trace, current, steps, answer)
  BY DEF GraphInv
<1>2. PICK new : new = Append(trace, e)
  OBVIOUS
<1>3. /\ new \in Seq(Entries) /\ Len(new) = Len(trace) + 1 /\ new # <<>>
      /\ new[Len(new)] = e /\ Walked(graph, new) /\ Len(trace) \in Nat
      /\ \A i \in 1 .. Len(trace) : new[i].what # "text"
  BY <1>1, <1>2, Entered
<1>4. \A i \in 1 .. Len(new) : new[i].what = "text" => i = Len(new)
  <2> SUFFICES ASSUME NEW i \in 1 .. Len(new), i # Len(new) PROVE new[i].what # "text"
    OBVIOUS
  <2>1. i \in 1 .. Len(trace)
    BY <1>3
  <2> QED
    BY <1>3, <2>1
<1>5. ASSUME MaxSteps <= Len(trace), MaxSteps >= Len(graph.nodes)
      PROVE  \E i, j \in 1 .. Len(new) : i # j /\ new[i].node = new[j].node
  <2>1. Len(graph.nodes) \in Nat /\ DOMAIN graph.nodes = 1 .. Len(graph.nodes) /\ MaxSteps \in Nat
    BY <1>1, Saved, Assumed DEF Graph!GraphAssumption, Graph!GraphConstants
  <2>2. \A i \in 1 .. Len(new) : \E j \in 1 .. Len(graph.nodes) : graph.nodes[j].id = new[i].node
    BY <1>3, <2>1 DEF Walked, Graph!Ids
  <2> DEFINE spot == [i \in 1 .. Len(new) |->
                         CHOOSE j \in 1 .. Len(graph.nodes) : graph.nodes[j].id = new[i].node]
  <2>3. \A i \in 1 .. Len(new) : /\ spot[i] \in 1 .. Len(graph.nodes)
                                 /\ graph.nodes[spot[i]].id = new[i].node
    BY <2>2
  <2>4. spot \in [1 .. Len(new) -> 1 .. Len(graph.nodes)]
    BY <2>3
  <2> HIDE DEF spot
  <2>5. Len(graph.nodes) < Len(new) /\ Len(new) \in Nat
    BY <1>3, <1>5, <2>1
  <2>6. \E i, j \in 1 .. Len(new) : i # j /\ spot[i] = spot[j]
    BY <2>1, <2>4, <2>5, Repeats
  <2> QED
    BY <2>3, <2>6
<1>6. Ended(graph, new, answer', outcome')
  <2>1. outcome' = "answered" => Len(new) > 0 /\ answer' = new[Len(new)].node
    BY <1>3
  <2>2. (outcome' = "max_steps" /\ MaxSteps >= Len(graph.nodes)) =>
           \E i, j \in 1 .. Len(new) : i # j /\ new[i].node = new[j].node
    BY <1>5
  <2> QED
    BY <1>4, <2>1, <2>2 DEF Ended
<1> QED
  BY <1>1, <1>2, <1>3, <1>6 DEF GraphInv

LEMMA GraphKeeps ==
    ASSUME GraphInv, [Graph!GraphNext]_(Graph!graphVars) PROVE GraphInv'
<1>0. /\ graph \in Graphs /\ MaxSteps \in Nat
      /\ outcome = "run" => /\ Graph!Valid(graph) /\ trace \in Seq(Entries) /\ steps = Len(trace)
                            /\ Running(graph, trace, current, steps, answer)
      /\ outcome = "run" /\ current # Graph!Nowhere => current \in STRING
  <2>1. graph \in Graphs /\ MaxSteps \in Nat
    BY Assumed DEF GraphInv, Graph!GraphAssumption, Graph!GraphConstants
  <2>2. outcome = "run" => /\ Graph!Valid(graph) /\ trace \in Seq(Entries) /\ steps = Len(trace)
                           /\ Running(graph, trace, current, steps, answer)
    BY DEF GraphInv, Running
  <2>3. outcome = "run" /\ current # Graph!Nowhere => current \in Graph!Ids(graph)
    BY <2>2 DEF Running, GoesTo
  <2> QED
    BY <2>1, <2>2, <2>3, Saved
<1>1. CASE UNCHANGED Graph!graphVars
  BY <1>1 DEF Graph!graphVars, GraphInv
<1>2. CASE Graph!Begin
  <2>1. outcome = "start" /\ trace = <<>> /\ answer = Graph!Nowhere /\ steps = 0
    BY <1>2 DEF Graph!Begin, GraphInv
  <2>2. /\ UNCHANGED <<graph, steps, answer, trace>>
        /\ IF Graph!Valid(graph)
           THEN /\ outcome' = "run"
                /\ current' = graph.nodes[CHOOSE i \in Graph!OfType(graph, "start") : TRUE].id
           ELSE outcome' = "invalid_graph"
    BY <1>2 DEF Graph!Begin, Graph!Ends
  <2>3. Len(trace) = 0 /\ Walked(graph, trace) /\ Silent(trace)
    BY <2>1 DEF Walked, Silent
  <2>4. CASE Graph!Valid(graph)
    <3>1. Graph!OfType(graph, "start") # {}
      <4>1. Cardinality({}) = 0
        BY FS_EmptySet
      <4>2. Cardinality(Graph!OfType(graph, "start")) = 1
        BY <2>4, Counts DEF Graph!Valid
      <4> QED
        BY <4>1, <4>2
    <3>2. current' \in Graph!Ids(graph)
      <4>1. PICK i : i = CHOOSE j \in Graph!OfType(graph, "start") : TRUE
        OBVIOUS
      <4>2. i \in Graph!OfType(graph, "start")
        BY <3>1, <4>1
      <4>3. i \in DOMAIN graph.nodes
        BY <4>2 DEF Graph!OfType
      <4> QED
        BY <2>2, <2>4, <4>1, <4>3 DEF Graph!Ids
    <3>3. Running(graph, trace, current', steps, answer)
      BY <2>1, <2>3, <2>4, <3>2 DEF Running
    <3> QED
      BY <1>0, <2>1, <2>2, <2>3, <2>4, <3>3 DEF GraphInv
  <2>5. CASE ~Graph!Valid(graph)
    <3>1. Ended(graph, trace, answer, "invalid_graph")
      BY <2>3 DEF Ended
    <3> QED
      BY <1>0, <2>1, <2>2, <2>3, <2>5, <3>1 DEF GraphInv
  <2> QED
    BY <2>4, <2>5
<1>3. CASE Graph!OutOfSteps
  <2>1. PICK e : e = [node |-> current, what |-> "cut"]
    OBVIOUS
  <2>2. /\ outcome = "run" /\ current # Graph!Nowhere /\ trace' = Append(trace, e)
        /\ UNCHANGED <<graph, steps, answer>> /\ outcome' = "max_steps" /\ steps + 1 > MaxSteps
    BY <1>3, <2>1 DEF Graph!OutOfSteps, Graph!TooMany, Graph!Ends
  <2>3. MaxSteps <= Len(trace)
    BY <1>0, <2>2
  <2>4. e \in Entries /\ e.node = current
    <3>1. current \in STRING
      BY <1>0, <2>2
    <3> QED
      BY <2>1, <3>1 DEF Entries
  <2> QED
    BY <2>2, <2>3, <2>4, EndsKeeps
<1>4. CASE Graph!PassOn
  <2>1. PICK e : e = [node |-> current, what |-> "pass"]
    OBVIOUS
  <2>2. /\ outcome = "run" /\ current # Graph!Nowhere /\ trace' = Append(trace, e)
        /\ steps' = steps + 1 /\ UNCHANGED <<graph, answer, outcome>>
        /\ current' = Graph!Outgoing(current, "none")
    BY <1>4, <2>1 DEF Graph!PassOn, Graph!Enter, Graph!GoesOn
  <2>3. e \in Entries /\ e.node = current /\ e.what = "pass"
    <3>1. current \in STRING
      BY <1>0, <2>2
    <3> QED
      BY <2>1, <3>1 DEF Entries
  <2>4. GoesTo(graph, e, current')
    BY <1>0, <2>2, <2>3, PassLeads
  <2> QED
    BY <2>2, <2>3, <2>4, GoesOnKeeps
<1>5. CASE Graph!AskModel
  <2>1. PICK e : e = [node |-> current, what |-> "pass"]
    OBVIOUS
  <2>2. /\ outcome = "run" /\ current # Graph!Nowhere /\ trace' = Append(trace, e)
        /\ steps' = steps + 1 /\ UNCHANGED <<graph, answer, outcome>>
        /\ current' = Graph!Outgoing(current, "none")
    BY <1>5, <2>1 DEF Graph!AskModel, Graph!Enter, Graph!GoesOn
  <2>3. e \in Entries /\ e.node = current /\ e.what = "pass"
    <3>1. current \in STRING
      BY <1>0, <2>2
    <3> QED
      BY <2>1, <3>1 DEF Entries
  <2>4. GoesTo(graph, e, current')
    BY <1>0, <2>2, <2>3, PassLeads
  <2> QED
    BY <2>2, <2>3, <2>4, GoesOnKeeps
<1>6. CASE Graph!Decide
  <2>1. PICK ok \in BOOLEAN :
           /\ Graph!Enter({"if-else"}, IF ok THEN "true" ELSE "false")
           /\ Graph!GoesOn(Graph!Branch(current, ok))
           /\ UNCHANGED <<graph, answer, tokens>>
    BY <1>6 DEF Graph!Decide
  <2>2. PICK w \in {"true", "false"} : w = IF ok THEN "true" ELSE "false"
    OBVIOUS
  <2>3. PICK e : e = [node |-> current, what |-> w]
    OBVIOUS
  <2>4. /\ outcome = "run" /\ current # Graph!Nowhere /\ trace' = Append(trace, e)
        /\ steps' = steps + 1 /\ UNCHANGED <<graph, answer, outcome>>
        /\ current' = Graph!Branch(current, ok)
    BY <2>1, <2>2, <2>3 DEF Graph!Enter, Graph!GoesOn
  <2>5. e \in Entries /\ e.node = current /\ e.what = w
    <3>1. current \in STRING
      BY <1>0, <2>4
    <3> QED
      BY <2>3, <3>1 DEF Entries
  <2>6. GoesTo(graph, e, current')
    BY <1>0, <2>2, <2>4, <2>5, BranchLeads
  <2> QED
    BY <2>2, <2>4, <2>5, <2>6, GoesOnKeeps
<1>7. CASE Graph!Search
  <2>1. PICK e : e = [node |-> current, what |-> "pass"]
    OBVIOUS
  <2>2. /\ outcome = "run" /\ current # Graph!Nowhere /\ trace' = Append(trace, e)
        /\ steps' = steps + 1 /\ UNCHANGED <<graph, answer>>
    BY <1>7, <2>1 DEF Graph!Search, Graph!Enter
  <2>3. e \in Entries /\ e.node = current /\ e.what = "pass"
    <3>1. current \in STRING
      BY <1>0, <2>2
    <3> QED
      BY <2>1, <3>1 DEF Entries
  <2>4. CASE SearchAllowed
    <3>1. current' = Graph!Outgoing(current, "none") /\ UNCHANGED outcome
      BY <1>7, <2>4 DEF Graph!Search, Graph!GoesOn
    <3>2. GoesTo(graph, e, current')
      BY <1>0, <2>2, <2>3, <3>1, PassLeads
    <3> QED
      BY <2>2, <2>3, <3>1, <3>2, GoesOnKeeps
  <2>5. CASE ~SearchAllowed
    <3>1. outcome' = "search_disabled"
      BY <1>7, <2>5 DEF Graph!Search, Graph!Ends
    <3> QED
      BY <2>2, <2>3, <3>1, EndsKeeps
  <2> QED
    BY <2>4, <2>5
<1>8. CASE Graph!Throws
  <2>1. PICK e : e = [node |-> current, what |-> "throw"]
    OBVIOUS
  <2>2. /\ outcome = "run" /\ current # Graph!Nowhere /\ trace' = Append(trace, e)
        /\ UNCHANGED graph /\ outcome' = "threw"
    BY <1>8, <2>1 DEF Graph!Throws, Graph!Enter, Graph!Ends
  <2>3. e \in Entries /\ e.node = current
    <3>1. current \in STRING
      BY <1>0, <2>2
    <3> QED
      BY <2>1, <3>1 DEF Entries
  <2> QED
    BY <2>2, <2>3, EndsKeeps
<1>9. CASE Graph!GivesAnswer
  <2>1. PICK empty \in BOOLEAN :
           /\ Graph!Enter({"answer"}, IF empty THEN "empty" ELSE "text")
           /\ answer' = IF empty THEN answer ELSE current
           /\ IF empty THEN Graph!GoesOn(Graph!Outgoing(current, "none")) ELSE Graph!Ends("answered")
           /\ UNCHANGED <<graph, tokens>>
    BY <1>9 DEF Graph!GivesAnswer
  <2>2. CASE empty
    <3>1. PICK e : e = [node |-> current, what |-> "empty"]
      OBVIOUS
    <3>2. /\ outcome = "run" /\ current # Graph!Nowhere /\ trace' = Append(trace, e)
          /\ steps' = steps + 1 /\ UNCHANGED <<graph, answer, outcome>>
          /\ current' = Graph!Outgoing(current, "none")
      BY <2>1, <2>2, <3>1 DEF Graph!Enter, Graph!GoesOn
    <3>3. e \in Entries /\ e.node = current /\ e.what = "empty"
      <4>1. current \in STRING
        BY <1>0, <3>2
      <4> QED
        BY <3>1, <4>1 DEF Entries
    <3>4. GoesTo(graph, e, current')
      BY <1>0, <3>2, <3>3, PassLeads
    <3> QED
      BY <3>2, <3>3, <3>4, GoesOnKeeps
  <2>3. CASE ~empty
    <3>1. PICK e : e = [node |-> current, what |-> "text"]
      OBVIOUS
    <3>2. /\ outcome = "run" /\ current # Graph!Nowhere /\ trace' = Append(trace, e)
          /\ UNCHANGED graph /\ outcome' = "answered" /\ answer' = current
      BY <2>1, <2>3, <3>1 DEF Graph!Enter, Graph!Ends
    <3>3. e \in Entries /\ e.node = current
      <4>1. current \in STRING
        BY <1>0, <3>2
      <4> QED
        BY <3>1, <4>1 DEF Entries
    <3> QED
      BY <3>2, <3>3, EndsKeeps
  <2> QED
    BY <2>2, <2>3
<1>10. CASE Graph!DeadEnd
  <2>1. /\ outcome = "run" /\ current = Graph!Nowhere /\ answer = Graph!Nowhere
        /\ UNCHANGED <<graph, steps, answer, trace, tokens>>
        /\ outcome' = IF answer = Graph!Nowhere THEN "no_answer" ELSE "answered"
    BY <1>0, <1>10 DEF Graph!DeadEnd, Graph!Ends, Running
  <2>2. Silent(trace) /\ Walked(graph, trace) /\ outcome' = "no_answer"
    BY <1>0, <2>1 DEF Running, GraphInv
  <2>3. Graph!Nowhere \notin Graph!Ids(graph)
    BY <1>0, Saved
  <2>4. {k \in DOMAIN graph.edges : graph.edges[k].source = trace[Len(trace)].node} = {}
    BY <1>0, <2>1, <2>3 DEF Running, GoesTo
  <2>5. Ended(graph, trace, answer, outcome')
    BY <2>2, <2>4 DEF Ended, Silent
  <2> QED
    BY <1>0, <2>1, <2>2, <2>5 DEF GraphInv
<1> QED
  BY <1>1, <1>2, <1>3, <1>4, <1>5, <1>6, <1>7, <1>8, <1>9, <1>10 DEF Graph!GraphNext

\* A run that is not under way is nowhere, and bills a call of a model for a step at most.
GraphTypes ==
    /\ outcome \in {"start", "run", "invalid_graph", "max_steps", "search_disabled", "threw",
                    "no_answer", "answered"}
    /\ outcome # "run" => current = Graph!Nowhere
    /\ answer \in Graph!Ids(graph) \cup {Graph!Nowhere}
    /\ steps \in 0 .. MaxSteps /\ tokens \in 0 .. steps

LEMMA Whereabouts ==
    ASSUME GraphInv, GraphTypes PROVE current \in Graph!Ids(graph) \cup {Graph!Nowhere}
BY DEF GraphInv, GraphTypes, Running, GoesTo

LEMMA GraphTyped ==
    ASSUME GraphInv, GraphTypes, [Graph!GraphNext]_(Graph!graphVars) PROVE GraphTypes'
<1>0. MaxSteps \in Nat /\ steps \in 0 .. MaxSteps /\ tokens \in 0 .. steps
  BY Assumed DEF Graph!GraphAssumption, Graph!GraphConstants, GraphTypes
<1>1. ASSUME NEW T, NEW what, Graph!Enter(T, what)
      PROVE  /\ outcome = "run" /\ current \in Graph!Ids(graph)
             /\ steps' = steps + 1 /\ steps' \in 0 .. MaxSteps /\ steps \in 0 .. steps'
  BY <1>0, <1>1, Whereabouts DEF Graph!Enter, Graph!TooMany
<1>2. CASE UNCHANGED Graph!graphVars
  BY <1>2 DEF Graph!graphVars, GraphTypes
<1>3. CASE Graph!Begin
  BY <1>3 DEF Graph!Begin, Graph!Ends, GraphTypes
<1>4. CASE Graph!OutOfSteps
  BY <1>4 DEF Graph!OutOfSteps, Graph!Ends, GraphTypes
<1>5. ASSUME NEW T, NEW what, Graph!Enter(T, what), UNCHANGED <<graph, answer, tokens>>,
             (\E to : Graph!GoesOn(to)) \/ \E how \in {"search_disabled", "threw"} : Graph!Ends(how)
      PROVE  GraphTypes'
  <2>1. outcome' = "run" \/ (outcome' \in {"search_disabled", "threw"} /\ current' = Graph!Nowhere)
    BY <1>1, <1>5 DEF Graph!GoesOn, Graph!Ends
  <2>2. tokens' \in 0 .. steps' /\ steps' \in 0 .. MaxSteps
    BY <1>0, <1>1, <1>5
  <2> QED
    BY <1>5, <2>1, <2>2 DEF GraphTypes
<1>6. CASE Graph!PassOn
  BY <1>5, <1>6 DEF Graph!PassOn
<1>7. CASE Graph!Decide
  BY <1>5, <1>7 DEF Graph!Decide
<1>8. CASE Graph!Search
  BY <1>5, <1>8 DEF Graph!Search
<1>9. CASE Graph!Throws
  BY <1>5, <1>9 DEF Graph!Throws
<1>10. CASE Graph!AskModel
  <2>1. Graph!Enter({"llm"}, "pass") /\ outcome' = outcome /\ tokens' = tokens + 1
        /\ UNCHANGED <<graph, answer>>
    BY <1>10 DEF Graph!AskModel, Graph!GoesOn
  <2>2. outcome' = "run" /\ tokens' \in 0 .. steps' /\ steps' \in 0 .. MaxSteps
    BY <1>0, <1>1, <2>1
  <2> QED
    BY <2>1, <2>2 DEF GraphTypes
<1>11. CASE Graph!GivesAnswer
  <2>1. PICK empty \in BOOLEAN :
           /\ Graph!Enter({"answer"}, IF empty THEN "empty" ELSE "text")
           /\ answer' = IF empty THEN answer ELSE current
           /\ IF empty THEN Graph!GoesOn(Graph!Outgoing(current, "none")) ELSE Graph!Ends("answered")
           /\ UNCHANGED <<graph, tokens>>
    BY <1>11 DEF Graph!GivesAnswer
  <2>2. outcome' = "run" \/ (outcome' = "answered" /\ current' = Graph!Nowhere)
    BY <1>1, <2>1 DEF Graph!GoesOn, Graph!Ends
  <2>3. current \in Graph!Ids(graph) /\ tokens' \in 0 .. steps' /\ steps' \in 0 .. MaxSteps
    BY <1>0, <1>1, <2>1
  <2> QED
    BY <2>1, <2>2, <2>3 DEF GraphTypes
<1>12. CASE Graph!DeadEnd
  BY <1>12 DEF Graph!DeadEnd, Graph!Ends, GraphTypes
<1> QED
  BY <1>2, <1>3, <1>4, <1>6, <1>7, <1>8, <1>9, <1>10, <1>11, <1>12 DEF Graph!GraphNext

LEMMA GraphWell == GraphInv /\ GraphTypes => Graph!GraphTypeOK
<1> SUFFICES ASSUME GraphInv, GraphTypes PROVE Graph!GraphTypeOK
  OBVIOUS
<1>1. MaxSteps \in Nat /\ steps \in 0 .. MaxSteps /\ tokens \in 0 .. MaxSteps
  BY Assumed DEF Graph!GraphAssumption, Graph!GraphConstants, GraphTypes
<1> QED
  BY <1>1, Whereabouts DEF GraphInv, GraphTypes, Graph!GraphTypeOK

\* For any graphs and any caps: a run goes along the edges drawn, takes the way its
\* conditions say where both are drawn, is answered by its last node, ends without an
\* answer only where no edge leaves, and is cut off only in a loop when as many steps
\* are allowed as there are nodes.
THEOREM GraphsWalked == ConversationSpec => []GraphAnswers
<1> DEFINE I == InGraph => GraphInv
<1>1. ConversationInit => I
  BY GraphInitHolds DEF ConversationInit, InGraph
<1>2. I /\ [ConversationNext]_conversationVars => I'
  <2> SUFFICES ASSUME I, [ConversationNext]_conversationVars, InGraph' PROVE GraphInv'
    OBVIOUS
  <2>1. InGraph /\ [Graph!GraphNext]_(Graph!graphVars)
    BY PartSteps DEF InGraph
  <2> QED
    BY <2>1, GraphKeeps
<1>3. I => GraphAnswers
  <2> SUFFICES ASSUME GraphInv PROVE Graph!GraphAnswers
    BY DEF GraphAnswers
  <2>1. graph \in Graphs /\ trace \in Seq(Entries) /\ Len(trace) \in Nat
    BY DEF GraphInv
  <2>2. \A i \in 1 .. (Len(trace) - 1) : LeadsTo(graph, trace[i], trace[i + 1].node)
    <3>1. CASE outcome = "start"
      <4>1. Len(trace) = 0
        BY <3>1 DEF GraphInv
      <4> QED
        BY <4>1
    <3>2. CASE outcome # "start"
      BY <3>2 DEF GraphInv, Walked
    <3> QED
      BY <3>1, <3>2
  <2>3. \A i \in 1 .. Len(trace) : trace[i].what = "text" => i = Len(trace)
    <3>1. CASE outcome = "start"
      <4>1. Len(trace) = 0
        BY <3>1 DEF GraphInv
      <4> QED
        BY <4>1
    <3>2. CASE outcome = "run"
      BY <3>2 DEF GraphInv, Running, Silent
    <3>3. CASE outcome \notin {"start", "run"}
      BY <3>3 DEF GraphInv, Ended
    <3> QED
      BY <3>1, <3>2, <3>3
  <2>4. outcome \in {"answered", "no_answer", "max_steps"} => Ended(graph, trace, answer, outcome)
    BY DEF GraphInv
  <2> QED
    BY <2>2, <2>3, <2>4 DEF Graph!GraphAnswers, LeadsTo, Drawn, Ended, Graph!Leaving
<1> QED
  BY <1>1, <1>2, <1>3, PTL DEF ConversationSpec

-----------------------------------------------------------------------------
(* ReplyJob *)

Posted == [what : {"rate", "p2p", "notice", "unreadable", "reject", "part", "sorry"}, part : Nat]

\* The posts of the reply itself.
Sent(ps) == {i \in 1 .. Len(ps) : ps[i].what = "part"}

InOrder(ps) == \A i, j \in Sent(ps) : i < j => ps[i].part < ps[j].part

\* Each text of the reply before its part n has arrived.
Complete(ps, rs, n) ==
    \A k \in 1 .. (n - 1) : rs[k] = "text" => \E j \in Sent(ps) : ps[j].part = k

Gapless(ps, rs) == \A i \in Sent(ps) : Complete(ps, rs, ps[i].part)

PartsBelow(ps, n) == \A i \in Sent(ps) : ps[i].part < n

Sorry(ps) == {i \in 1 .. Len(ps) : ps[i].what = "sorry"}

\* How a job of each stage has been counted.
JobCounted(c, at0, job, bad) ==
    CASE at0 \in {"begin", "remote", "ordinary", "chat", "parts", "part"} -> c = Replying!Zero
      [] at0 = "sorry" -> c.processed + c.failed = 1
      [] OTHER -> c.processed + c.failed = 1 \/ (job.preflight /\ bad /\ c = Replying!Zero)

\* The chat is due.
Due(job) ==
    /\ job.client /\ ~job.limited /\ ~job.p2p /\ ~job.preflight /\ job.text
    /\ \E i \in DOMAIN job.items : job.items[i] = "request"

Stages == {"begin", "remote", "ordinary", "chat", "parts", "part", "sorry", "clear", "over"}

JobInv ==
    /\ stage \in Stages /\ posts \in Seq(Posted) /\ next \in Nat \ {0}
    /\ InOrder(posts) /\ Gapless(posts, parts) /\ PartsBelow(posts, next)
    /\ stage \in {"begin", "remote", "ordinary", "chat"} => Sent(posts) = {} /\ next = 1
    /\ stage \in {"parts", "part"} => Complete(posts, parts, next)
    /\ stage \notin {"clear", "over"} => Sorry(posts) = {}
    /\ Sorry(posts) # {} => failed /\ Sorry(posts) = {Len(posts)}
    /\ stage = "sorry" => failed
    /\ JobCounted(counted, stage, jobIn, failed)
    /\ stage \in {"chat", "parts", "part", "sorry"} => asked
    /\ stage \in {"remote"} => jobIn.p2p
    /\ stage \in {"clear", "over"} => (Due(jobIn) => asked)

LEMMA PostAppended ==
    ASSUME NEW ps \in Seq(Posted), NEW x \in Posted
    PROVE  /\ Append(ps, x) \in Seq(Posted) /\ Len(Append(ps, x)) = Len(ps) + 1 /\ Len(ps) \in Nat
           /\ Append(ps, x)[Len(ps) + 1] = x
           /\ \A i \in 1 .. Len(ps) : Append(ps, x)[i] = ps[i] /\ ps[i] \in Posted
           /\ Sent(Append(ps, x)) = IF x.what = "part" THEN Sent(ps) \cup {Len(ps) + 1} ELSE Sent(ps)
           /\ Sorry(Append(ps, x)) = IF x.what = "sorry" THEN Sorry(ps) \cup {Len(ps) + 1} ELSE Sorry(ps)
<1> DEFINE new == Append(ps, x)
<1>1. /\ new \in Seq(Posted) /\ Len(new) = Len(ps) + 1 /\ Len(ps) \in Nat /\ new[Len(ps) + 1] = x
      /\ \A i \in 1 .. Len(ps) : new[i] = ps[i] /\ ps[i] \in Posted
  OBVIOUS
<1> HIDE DEF new
<1>2. \A i : i \in 1 .. Len(new) <=> i \in 1 .. Len(ps) \/ i = Len(ps) + 1
  BY <1>1
<1>3. Sent(new) = IF x.what = "part" THEN Sent(ps) \cup {Len(ps) + 1} ELSE Sent(ps)
  BY <1>1, <1>2 DEF Sent
<1>4. Sorry(new) = IF x.what = "sorry" THEN Sorry(ps) \cup {Len(ps) + 1} ELSE Sorry(ps)
  BY <1>1, <1>2 DEF Sorry
<1> QED
  BY <1>1, <1>3, <1>4 DEF new

\* A notice changes nothing about the parts.
LEMMA NoticeKeeps ==
    ASSUME NEW ps \in Seq(Posted), NEW x \in Posted, x.what # "part", NEW rs, NEW n \in Nat,
           NEW new, new = Append(ps, x)
    PROVE  /\ InOrder(ps) => InOrder(new)
           /\ Gapless(ps, rs) => Gapless(new, rs)
           /\ PartsBelow(ps, n) => PartsBelow(new, n)
           /\ Complete(ps, rs, n) => Complete(new, rs, n)
<1>1. Sent(new) = Sent(ps) /\ \A i \in Sent(ps) : new[i] = ps[i]
  BY PostAppended DEF Sent
<1>2. \A k : Complete(ps, rs, k) => Complete(new, rs, k)
  BY <1>1 DEF Complete
<1> QED
  BY <1>1, <1>2 DEF InOrder, Gapless, PartsBelow

\* A part is posted after all before it.
LEMMA PartKeeps ==
    ASSUME NEW ps \in Seq(Posted), NEW n \in Nat \ {0}, NEW x \in Posted, x.what = "part",
           x.part = n, NEW rs, InOrder(ps), Gapless(ps, rs), PartsBelow(ps, n), Complete(ps, rs, n),
           NEW new, new = Append(ps, x)
    PROVE  InOrder(new) /\ Gapless(new, rs) /\ PartsBelow(new, n + 1) /\ Complete(new, rs, n + 1)
<1>1. /\ Sent(new) = Sent(ps) \cup {Len(ps) + 1} /\ \A i \in Sent(ps) : new[i] = ps[i]
      /\ new[Len(ps) + 1] = x /\ Len(ps) \in Nat
  BY PostAppended DEF Sent
<1>2. \A i \in Sent(ps) : i \in Nat /\ i < Len(ps) + 1 /\ ps[i].part \in Nat /\ ps[i].part < n
  <2> SUFFICES ASSUME NEW i \in Sent(ps) PROVE i \in Nat /\ i < Len(ps) + 1 /\ ps[i].part \in Nat /\ ps[i].part < n
    OBVIOUS
  <2>1. i \in 1 .. Len(ps) /\ ps[i] \in Posted
    BY PostAppended DEF Sent
  <2> QED
    BY <1>1, <2>1 DEF Posted, PartsBelow
<1>3. \A k : Complete(ps, rs, k) => Complete(new, rs, k)
  BY <1>1 DEF Complete
<1>4. InOrder(new)
  <2> SUFFICES ASSUME NEW i \in Sent(new), NEW j \in Sent(new), i < j
               PROVE  new[i].part < new[j].part
    BY DEF InOrder
  <2>1. i \in Sent(ps)
    <3>1. j \in Sent(ps) \/ j = Len(ps) + 1
      BY <1>1
    <3>2. i # Len(ps) + 1
      BY <1>2, <3>1
    <3> QED
      BY <1>1, <3>2
  <2>2. CASE j \in Sent(ps)
    BY <1>1, <2>1, <2>2 DEF InOrder
  <2>3. CASE j = Len(ps) + 1
    BY <1>1, <1>2, <2>1, <2>3
  <2> QED
    BY <1>1, <2>2, <2>3
<1>5. Gapless(new, rs)
  BY <1>1, <1>3 DEF Gapless
<1>6. PartsBelow(new, n + 1)
  <2> SUFFICES ASSUME NEW i \in Sent(new) PROVE new[i].part < n + 1
    BY DEF PartsBelow
  <2>1. CASE i \in Sent(ps)
    <3>1. PICK m : m = ps[i].part
      OBVIOUS
    <3>2. m \in Nat /\ m < n
      BY <1>2, <2>1, <3>1
    <3>3. new[i].part = m
      BY <1>1, <2>1, <3>1
    <3> QED
      BY <3>2, <3>3
  <2>2. CASE i = Len(ps) + 1
    BY <1>1, <2>2
  <2> QED
    BY <1>1, <2>1, <2>2
<1>7. Complete(new, rs, n + 1)
  <2> SUFFICES ASSUME NEW k \in 1 .. ((n + 1) - 1), rs[k] = "text"
               PROVE  \E j \in Sent(new) : new[j].part = k
    BY DEF Complete
  <2>1. CASE k = n
    BY <1>1, <2>1
  <2>2. CASE k # n
    <3>1. k \in 1 .. (n - 1)
      BY <2>2
    <3> QED
      BY <1>3, <3>1 DEF Complete
  <2> QED
    BY <2>1, <2>2
<1> QED
  BY <1>4, <1>5, <1>6, <1>7

\* A part that did not arrive is passed over; only a text is missed.
LEMMA PassedOver ==
    ASSUME NEW ps \in Seq(Posted), NEW n \in Nat \ {0}, NEW rs, PartsBelow(ps, n)
    PROVE  PartsBelow(ps, n + 1) /\ (rs[n] # "text" /\ Complete(ps, rs, n) => Complete(ps, rs, n + 1))
<1>1. PartsBelow(ps, n + 1)
  <2> SUFFICES ASSUME NEW i \in Sent(ps) PROVE ps[i].part < n + 1
    BY DEF PartsBelow
  <2>1. ps[i] \in Posted /\ ps[i].part < n
    BY PostAppended DEF Sent, PartsBelow
  <2> QED
    BY <2>1 DEF Posted
<1>2. ASSUME rs[n] # "text", Complete(ps, rs, n) PROVE Complete(ps, rs, n + 1)
  <2> SUFFICES ASSUME NEW k \in 1 .. ((n + 1) - 1), rs[k] = "text"
               PROVE  \E j \in Sent(ps) : ps[j].part = k
    BY DEF Complete
  <2>1. k \in 1 .. (n - 1)
    BY <1>2
  <2> QED
    BY <1>2, <2>1 DEF Complete
<1> QED
  BY <1>1, <1>2

LEMMA JobInitHolds == ASSUME Replying!JobInit PROVE JobInv
<1>1. /\ stage = "begin" /\ next = 1 /\ posts = <<>> /\ counted = Replying!Zero
  BY DEF Replying!JobInit
<1>2. Len(posts) = 0 /\ posts \in Seq(Posted) /\ Sent(posts) = {} /\ Sorry(posts) = {}
  BY <1>1 DEF Sent, Sorry
<1>3. InOrder(posts) /\ Gapless(posts, parts) /\ PartsBelow(posts, next)
  BY <1>2 DEF InOrder, Gapless, PartsBelow
<1>4. JobCounted(counted, stage, jobIn, failed)
  BY <1>1 DEF JobCounted
<1> QED
  BY <1>1, <1>2, <1>3, <1>4 DEF JobInv, Stages

\* A job not counted yet is counted once, or not at all.
LEMMA CountsOnce ==
    ASSUME counted = Replying!Zero, NEW w \in {"processed", "failed", "none"}, Replying!Counts(w)
    PROVE  IF w = "none" THEN counted' = Replying!Zero ELSE counted'.processed + counted'.failed = 1
<1>1. counted.processed = 0 /\ counted.failed = 0 /\ DOMAIN counted = {"processed", "failed"}
      /\ counted \in [{"processed", "failed"} -> {0}]
  BY DEF Replying!Zero
<1>2. counted' = IF w = "none" THEN counted ELSE [counted EXCEPT ![w] = @ + 1]
  BY DEF Replying!Counts
<1>3. PICK c : c = counted
  OBVIOUS
<1>4. /\ c \in [{"processed", "failed"} -> {0}]
      /\ c["processed"] = 0 /\ c["failed"] = 0
  BY <1>1, <1>3
<1>5. CASE w = "none"
  BY <1>2, <1>5
<1>6. CASE w # "none"
  <2>1. counted' = [c EXCEPT ![w] = c[w] + 1]
    BY <1>2, <1>3, <1>6
  <2> HIDE <1>1, <1>2, <1>3
  <2>2. CASE w = "processed"
    <3>1. counted'["processed"] = 1 /\ counted'["failed"] = 0
      BY <1>4, <2>1, <2>2
    <3> QED
      BY <2>2, <3>1
  <2>3. CASE w = "failed"
    <3>1. counted'["processed"] = 0 /\ counted'["failed"] = 1
      BY <1>4, <2>1, <2>3
    <3> QED
      BY <2>3, <3>1
  <2> QED
    BY <1>6, <2>2, <2>3
<1> QED
  BY <1>5, <1>6

\* A send arrives, or fails and may have arrived.
LEMMA SendDoes ==
    ASSUME NEW x, NEW ok \in BOOLEAN, Replying!Send(x, ok)
    PROVE  /\ posts' = Append(posts, x) \/ (posts' = posts /\ ~ok)
           /\ ~ok => failed'
           /\ failed => failed'
BY DEF Replying!Send

\* A stage that posts a notice, at most, and ends the job or goes on to the chat.
LEMMA NoticeSent ==
    ASSUME JobInv, NEW x \in Posted, x.what \notin {"part", "sorry"}, NEW ok \in BOOLEAN,
           Replying!Send(x, ok), UNCHANGED <<jobIn, parts, next, asked>>,
           stage \in {"begin", "ordinary", "chat"},
           stage' \in {"clear", "sorry", "remote", "ordinary"},
           stage' = "sorry" => asked /\ ~ok,
           stage' = "clear" => (Due(jobIn) => asked),
           stage' = "remote" => jobIn.p2p,
           JobCounted(counted', stage', jobIn, failed'),
           stage' \in {"remote", "ordinary"} => stage = "begin"
    PROVE  JobInv'
<1>1. /\ posts \in Seq(Posted) /\ next = 1 /\ InOrder(posts) /\ Gapless(posts, parts)
      /\ PartsBelow(posts, next) /\ Sent(posts) = {} /\ Sorry(posts) = {}
  BY DEF JobInv
<1>2. posts' = Append(posts, x) \/ posts' = posts
  BY SendDoes
<1>3. /\ posts' \in Seq(Posted) /\ InOrder(posts') /\ Gapless(posts', parts) /\ PartsBelow(posts', next)
      /\ Sent(posts') = {} /\ Sorry(posts') = {}
  <2>1. CASE posts' = Append(posts, x)
    BY <1>1, <2>1, PostAppended, NoticeKeeps
  <2>2. CASE posts' = posts
    BY <1>1, <2>2
  <2> QED
    BY <1>2, <2>1, <2>2
<1>4. stage' = "sorry" => failed'
  BY SendDoes
<1> QED
  BY <1>1, <1>3, <1>4 DEF JobInv, Stages

\* A stage that posts nothing and leaves the parts alone.
LEMMA QuietKeeps ==
    ASSUME JobInv, UNCHANGED <<jobIn, parts, next, posts>>, stage' \in Stages,
           stage \notin {"sorry", "clear", "over"} \/ UNCHANGED <<failed, counted, asked>>,
           stage = "sorry" => stage' = "sorry",
           stage \in {"clear", "over"} => stage' \in {"clear", "over"},
           stage' \in {"begin", "remote", "ordinary", "chat"} =>
               stage \in {"begin", "remote", "ordinary", "chat"},
           stage' \in {"parts", "part"} => stage \in {"parts", "part"},
           stage' = "sorry" => failed' /\ asked',
           stage' \in {"chat", "parts", "part"} => asked',
           stage' = "remote" => jobIn.p2p,
           stage' \in {"clear", "over"} => (Due(jobIn) => asked'),
           JobCounted(counted', stage', jobIn, failed')
    PROVE  JobInv'
<1>1. Sorry(posts) # {} => failed'
  BY DEF JobInv
<1> QED
  BY <1>1 DEF JobInv

LEMMA JobKeeps ==
    ASSUME JobInv, [Replying!JobNext]_(Replying!jobVars) PROVE JobInv'
<1>0. /\ stage \in {"begin", "remote", "ordinary", "chat", "parts", "part"} => counted = Replying!Zero
      /\ posts \in Seq(Posted)
  BY DEF JobInv, JobCounted
<1>1. CASE UNCHANGED Replying!jobVars
  BY <1>1 DEF Replying!jobVars, JobInv
<1>2. CASE Replying!NoClient
  <2>1. /\ stage = "begin" /\ stage' = "over" /\ ~jobIn.client /\ Replying!Counts("failed")
        /\ UNCHANGED <<jobIn, parts, next, posts, asked, failed>>
    BY <1>2 DEF Replying!NoClient, Replying!Goes
  <2>2. JobCounted(counted', stage', jobIn, failed')
    BY <1>0, <2>1, CountsOnce DEF JobCounted
  <2> QED
    BY <2>1, <2>2, QuietKeeps DEF Stages, Due
<1>3. CASE Replying!RateLimited
  <2>1. PICK ok \in BOOLEAN :
           /\ stage = "begin" /\ jobIn.limited /\ Replying!Send(Replying!Post("rate", 0), ok)
           /\ Replying!Counts(IF ok THEN "processed" ELSE "failed") /\ stage' = "clear"
           /\ UNCHANGED <<jobIn, parts, next, asked>>
    BY <1>3 DEF Replying!RateLimited, Replying!Goes
  <2>2. PICK x : x = Replying!Post("rate", 0)
    OBVIOUS
  <2>3. x \in Posted /\ x.what = "rate"
    BY <2>2 DEF Replying!Post, Posted
  <2>4. PICK w \in {"processed", "failed"} : w = IF ok THEN "processed" ELSE "failed"
    OBVIOUS
  <2>5. JobCounted(counted', stage', jobIn, failed')
    BY <1>0, <2>1, <2>4, CountsOnce DEF JobCounted
  <2> QED
    BY <2>1, <2>2, <2>3, <2>5, NoticeSent DEF Due
<1>4. CASE Replying!P2PHandled
  <2>1. PICK ok \in BOOLEAN :
           /\ stage = "begin" /\ jobIn.p2p /\ Replying!Send(Replying!Post("p2p", 0), ok)
           /\ stage' = IF ok THEN "remote" ELSE "ordinary"
           /\ UNCHANGED <<jobIn, parts, next, asked, counted>>
    BY <1>4 DEF Replying!P2PHandled, Replying!Goes
  <2>2. PICK x : x = Replying!Post("p2p", 0)
    OBVIOUS
  <2>3. x \in Posted /\ x.what = "p2p"
    BY <2>2 DEF Replying!Post, Posted
  <2>4. JobCounted(counted', stage', jobIn, failed')
    BY <1>0, <2>1 DEF JobCounted
  <2> QED
    BY <2>1, <2>2, <2>3, <2>4, NoticeSent
<1>5. CASE Replying!RemoteSends
  <2>1. /\ stage = "remote" /\ stage' = "clear" /\ Replying!Counts("processed")
        /\ UNCHANGED <<jobIn, parts, next, posts, asked, failed>> /\ jobIn.p2p
    BY <1>5 DEF Replying!RemoteSends, Replying!Goes, JobInv
  <2>2. JobCounted(counted', stage', jobIn, failed')
    BY <1>0, <2>1, CountsOnce DEF JobCounted
  <2> QED
    BY <2>1, <2>2, QuietKeeps DEF Stages, Due
<1>6. CASE Replying!NoP2P
  <2>1. /\ stage = "begin" /\ stage' = "ordinary"
        /\ UNCHANGED <<jobIn, parts, next, posts, counted, asked, failed>>
    BY <1>6 DEF Replying!NoP2P, Replying!Goes
  <2>2. JobCounted(counted', stage', jobIn, failed')
    BY <1>0, <2>1 DEF JobCounted
  <2> QED
    BY <2>1, <2>2, QuietKeeps DEF Stages
<1>7. CASE Replying!Preflight
  <2>1. PICK ok \in BOOLEAN :
           /\ stage = "ordinary" /\ jobIn.preflight /\ Replying!Send(Replying!Post("notice", 0), ok)
           /\ Replying!Counts(IF ok THEN "processed" ELSE "none") /\ stage' = "clear"
           /\ UNCHANGED <<jobIn, parts, next, asked>>
    BY <1>7 DEF Replying!Preflight, Replying!Goes
  <2>2. PICK x : x = Replying!Post("notice", 0)
    OBVIOUS
  <2>3. x \in Posted /\ x.what = "notice"
    BY <2>2 DEF Replying!Post, Posted
  <2>4. PICK w \in {"processed", "none"} : w = IF ok THEN "processed" ELSE "none"
    OBVIOUS
  <2>5. w = "none" => failed'
    BY <2>1, <2>4, SendDoes
  <2>6. JobCounted(counted', stage', jobIn, failed')
    BY <1>0, <2>1, <2>4, <2>5, CountsOnce DEF JobCounted
  <2> QED
    BY <2>1, <2>2, <2>3, <2>6, NoticeSent DEF Due
<1>8. CASE Replying!SkipBatch
  <2>1. /\ stage = "ordinary" /\ stage' = "clear" /\ Replying!Counts("processed")
        /\ UNCHANGED <<jobIn, parts, next, posts, asked, failed>> /\ Replying!Obliged = {}
    BY <1>8 DEF Replying!SkipBatch, Replying!Goes, Replying!Skips
  <2>2. JobCounted(counted', stage', jobIn, failed')
    BY <1>0, <2>1, CountsOnce DEF JobCounted
  <2>3. ~Due(jobIn)
    BY <2>1 DEF Due, Replying!Obliged
  <2> QED
    BY <2>1, <2>2, <2>3, QuietKeeps DEF Stages
<1>9. CASE Replying!Unreadable
  <2>1. PICK ok \in BOOLEAN :
           /\ stage = "ordinary" /\ ~jobIn.text /\ Replying!Send(Replying!Post("unreadable", 0), ok)
           /\ Replying!Counts(IF ok THEN "processed" ELSE "failed") /\ stage' = "clear"
           /\ UNCHANGED <<jobIn, parts, next, asked>>
    BY <1>9 DEF Replying!Unreadable, Replying!Goes
  <2>2. PICK x : x = Replying!Post("unreadable", 0)
    OBVIOUS
  <2>3. x \in Posted /\ x.what = "unreadable"
    BY <2>2 DEF Replying!Post, Posted
  <2>4. PICK w \in {"processed", "failed"} : w = IF ok THEN "processed" ELSE "failed"
    OBVIOUS
  <2>5. JobCounted(counted', stage', jobIn, failed')
    BY <1>0, <2>1, <2>4, CountsOnce DEF JobCounted
  <2> QED
    BY <2>1, <2>2, <2>3, <2>5, NoticeSent DEF Due
<1>10. CASE Replying!AskChat
  <2>1. /\ stage = "ordinary" /\ stage' = "chat" /\ asked' = TRUE
        /\ UNCHANGED <<jobIn, parts, next, posts, counted, failed>>
    BY <1>10 DEF Replying!AskChat, Replying!Goes
  <2>2. JobCounted(counted', stage', jobIn, failed')
    BY <1>0, <2>1 DEF JobCounted
  <2> QED
    BY <2>1, <2>2, QuietKeeps DEF Stages
<1>11. ASSUME NEW r \in Replies, Replying!Chats(r) PROVE JobInv'
  <2>1. /\ stage = "chat" /\ stage' = "parts"
        /\ UNCHANGED <<jobIn, next, posts, counted, asked, failed>>
    BY <1>11 DEF Replying!Chats, Replying!Goes
  <2>2. Sent(posts) = {} /\ next = 1 /\ asked
    BY <2>1 DEF JobInv
  <2>3. Gapless(posts, parts') /\ Complete(posts, parts', next)
    BY <2>2 DEF Gapless, Complete
  <2>4. JobCounted(counted', stage', jobIn, failed')
    BY <1>0, <2>1 DEF JobCounted
  <2> QED
    BY <2>1, <2>2, <2>3, <2>4 DEF JobInv, Stages
<1>12. CASE Replying!Rejected
  <2>1. PICK ok \in BOOLEAN :
           /\ stage = "chat" /\ Replying!Send(Replying!Post("reject", 0), ok)
           /\ stage' = IF ok THEN "clear" ELSE "sorry"
           /\ Replying!Counts(IF ok THEN "processed" ELSE "failed")
           /\ UNCHANGED <<jobIn, parts, next, asked>>
    BY <1>12 DEF Replying!Rejected, Replying!Goes
  <2>2. PICK x : x = Replying!Post("reject", 0)
    OBVIOUS
  <2>3. x \in Posted /\ x.what = "reject"
    BY <2>2 DEF Replying!Post, Posted
  <2>4. PICK w \in {"processed", "failed"} : w = IF ok THEN "processed" ELSE "failed"
    OBVIOUS
  <2>5. JobCounted(counted', stage', jobIn, failed')
    BY <1>0, <2>1, <2>4, CountsOnce DEF JobCounted
  <2>6. asked
    BY <2>1 DEF JobInv
  <2> QED
    BY <2>1, <2>2, <2>3, <2>5, <2>6, NoticeSent
<1>13. CASE Replying!ChatFails
  <2>1. /\ stage = "chat" /\ stage' = "sorry" /\ Replying!Counts("failed") /\ failed' = TRUE
        /\ UNCHANGED <<jobIn, parts, next, posts, asked>> /\ asked
    BY <1>13 DEF Replying!ChatFails, Replying!Goes, JobInv
  <2>2. JobCounted(counted', stage', jobIn, failed')
    BY <1>0, <2>1, CountsOnce DEF JobCounted
  <2> QED
    BY <2>1, <2>2, QuietKeeps DEF Stages
<1>14. CASE Replying!Announce
  <2>1. /\ stage = "parts" /\ stage' = "part" /\ asked
        /\ UNCHANGED <<jobIn, parts, next, posts, counted, asked, failed>>
    BY <1>14 DEF Replying!Announce, Replying!Goes, JobInv
  <2>2. JobCounted(counted', stage', jobIn, failed')
    BY <1>0, <2>1 DEF JobCounted
  <2> QED
    BY <2>1, <2>2, QuietKeeps DEF Stages
<1>15. CASE Replying!SendText
  <2>1. PICK ok \in BOOLEAN :
           /\ stage \in {"parts", "part"} /\ parts[next] = "text"
           /\ Replying!Send(Replying!Post("part", next), ok) /\ next' = next + 1
           /\ stage' = IF ok THEN "parts" ELSE "sorry"
           /\ Replying!Counts(IF ok THEN "none" ELSE "failed")
           /\ UNCHANGED <<jobIn, parts, asked>>
    BY <1>15 DEF Replying!SendText, Replying!Goes, Replying!AfterFailure
  <2>2. /\ next \in Nat \ {0} /\ InOrder(posts) /\ Gapless(posts, parts) /\ PartsBelow(posts, next)
        /\ Complete(posts, parts, next) /\ Sorry(posts) = {} /\ asked
    BY <2>1 DEF JobInv
  <2>3. PICK x : x = Replying!Post("part", next)
    OBVIOUS
  <2>4. x \in Posted /\ x.what = "part" /\ x.part = next
    BY <2>2, <2>3 DEF Replying!Post, Posted
  <2>5. /\ posts' = Append(posts, x) \/ (posts' = posts /\ ~ok)
        /\ ~ok => failed'
    BY <2>1, <2>3, SendDoes
  <2>6. /\ posts' \in Seq(Posted) /\ InOrder(posts') /\ Gapless(posts', parts)
        /\ PartsBelow(posts', next + 1) /\ Sorry(posts') = {}
        /\ ok => Complete(posts', parts, next + 1)
    <3>1. CASE posts' = Append(posts, x)
      BY <1>0, <2>2, <2>4, <3>1, PartKeeps, PostAppended
    <3>2. CASE posts' = posts /\ ~ok
      BY <1>0, <2>2, <3>2, PassedOver
    <3> QED
      BY <2>5, <3>1, <3>2
  <2>7. PICK w \in {"none", "failed"} : w = IF ok THEN "none" ELSE "failed"
    OBVIOUS
  <2>8. JobCounted(counted', stage', jobIn, failed')
    BY <1>0, <2>1, <2>7, CountsOnce DEF JobCounted
  <2>9. next' \in Nat \ {0} /\ stage' \in {"parts", "sorry"} /\ (stage' = "parts" <=> ok)
    BY <2>1, <2>2
  <2> QED
    BY <2>1, <2>2, <2>5, <2>6, <2>8, <2>9 DEF JobInv, Stages
<1>16. CASE Replying!SendSticker
  <2>1. /\ stage \in {"parts", "part"} /\ parts[next] = "sticker"
        /\ posts' = Append(posts, Replying!Post("part", next)) \/ posts' = posts
        /\ next' = next + 1 /\ stage' = "parts"
        /\ UNCHANGED <<jobIn, parts, counted, asked, failed>>
    BY <1>16 DEF Replying!SendSticker, Replying!Goes
  <2>2. /\ next \in Nat \ {0} /\ InOrder(posts) /\ Gapless(posts, parts) /\ PartsBelow(posts, next)
        /\ Complete(posts, parts, next) /\ Sorry(posts) = {} /\ asked
    BY <2>1 DEF JobInv
  <2>3. PICK x : x = Replying!Post("part", next)
    OBVIOUS
  <2>4. x \in Posted /\ x.what = "part" /\ x.part = next
    BY <2>2, <2>3 DEF Replying!Post, Posted
  <2>5. /\ posts' \in Seq(Posted) /\ InOrder(posts') /\ Gapless(posts', parts)
        /\ PartsBelow(posts', next + 1) /\ Sorry(posts') = {} /\ Complete(posts', parts, next + 1)
    <3>1. CASE posts' = Append(posts, x)
      BY <1>0, <2>2, <2>4, <3>1, PartKeeps, PostAppended
    <3>2. CASE posts' = posts
      <4>1. parts[next] # "text"
        BY <2>1
      <4> QED
        BY <1>0, <2>2, <3>2, <4>1, PassedOver
    <3> QED
      BY <2>1, <2>3, <3>1, <3>2
  <2>6. JobCounted(counted', stage', jobIn, failed')
    BY <1>0, <2>1 DEF JobCounted
  <2>7. next' \in Nat \ {0}
    BY <2>1, <2>2
  <2> QED
    BY <2>1, <2>2, <2>5, <2>6, <2>7 DEF JobInv, Stages
<1>17. CASE Replying!AllSent
  <2>1. /\ stage = "parts" /\ stage' = "clear" /\ Replying!Counts("processed") /\ asked
        /\ UNCHANGED <<jobIn, parts, next, posts, asked, failed>>
    BY <1>17 DEF Replying!AllSent, Replying!Goes, JobInv
  <2>2. JobCounted(counted', stage', jobIn, failed')
    BY <1>0, <2>1, CountsOnce DEF JobCounted
  <2> QED
    BY <2>1, <2>2, QuietKeeps DEF Stages
<1>18. CASE Replying!Apologize
  <2>1. PICK ok \in BOOLEAN :
           /\ stage = "sorry" /\ Replying!Send(Replying!Post("sorry", 0), ok) /\ stage' = "clear"
           /\ UNCHANGED <<jobIn, parts, next, counted, asked>>
    BY <1>18 DEF Replying!Apologize, Replying!Goes
  <2>2. /\ next \in Nat \ {0} /\ InOrder(posts) /\ Gapless(posts, parts) /\ PartsBelow(posts, next)
        /\ Sorry(posts) = {} /\ asked /\ failed /\ counted.processed + counted.failed = 1
    BY <2>1 DEF JobInv, JobCounted
  <2>3. PICK x : x = Replying!Post("sorry", 0)
    OBVIOUS
  <2>4. x \in Posted /\ x.what = "sorry"
    BY <2>3 DEF Replying!Post, Posted
  <2>5. (posts' = Append(posts, x) \/ posts' = posts) /\ failed'
    BY <2>1, <2>2, <2>3, SendDoes
  <2>6. /\ posts' \in Seq(Posted) /\ InOrder(posts') /\ Gapless(posts', parts) /\ PartsBelow(posts', next)
        /\ Sorry(posts') # {} => Sorry(posts') = {Len(posts')}
    <3>1. CASE posts' = Append(posts, x)
      BY <1>0, <2>2, <2>4, <3>1, NoticeKeeps, PostAppended
    <3>2. CASE posts' = posts
      BY <1>0, <2>2, <3>2
    <3> QED
      BY <2>5, <3>1, <3>2
  <2>7. JobCounted(counted', stage', jobIn, failed')
    BY <2>1, <2>2 DEF JobCounted
  <2> QED
    BY <2>1, <2>2, <2>5, <2>6, <2>7 DEF JobInv, Stages
<1>19. CASE Replying!StopTyping
  <2>1. /\ stage = "clear" /\ stage' = "over"
        /\ UNCHANGED <<jobIn, parts, next, posts, counted, asked, failed>>
    BY <1>19 DEF Replying!StopTyping, Replying!Goes
  <2>2. JobCounted(counted', stage', jobIn, failed')
    BY <2>1 DEF JobCounted, JobInv
  <2>3. Due(jobIn) => asked
    BY <2>1 DEF JobInv
  <2> QED
    BY <2>1, <2>2, <2>3, QuietKeeps DEF Stages
<1>20. CASE Replying!TypingArrives
  BY <1>20 DEF Replying!TypingArrives, JobInv
<1> QED
  BY <1>1, <1>2, <1>3, <1>4, <1>5, <1>6, <1>7, <1>8, <1>9, <1>10, <1>11, <1>12, <1>13, <1>14,
     <1>15, <1>16, <1>17, <1>18, <1>19, <1>20 DEF Replying!JobNext

CountTypes == [{"processed", "failed"} -> 0 .. 1]

\* No more posts of the typing indicator are under way than parts were come to, and one
\* more while a part waits for its indicator.
JobTypes ==
    /\ jobIn \in Jobs /\ plannedBias \in {"off", "mild", "strong"}
    /\ parts \in Seq({"text", "sticker"}) /\ Len(parts) <= 4 /\ next \in 1 .. (Len(parts) + 1)
    /\ counted \in CountTypes
    /\ asked \in BOOLEAN /\ failed \in BOOLEAN /\ typing \in BOOLEAN /\ starting \in Nat
    /\ stage \in {"begin", "remote", "ordinary"} => starting = 0
    /\ IF stage = "part" THEN next <= Len(parts) /\ starting <= next + 1 ELSE starting <= next

LEMMA CountTyped ==
    ASSUME JobInv, stage \notin {"sorry", "clear", "over"},
           NEW w \in {"processed", "failed", "none"}, Replying!Counts(w)
    PROVE  counted' \in CountTypes
<1>1. counted = Replying!Zero
  BY DEF JobInv, Stages, JobCounted
<1>2. counted \in [{"processed", "failed"} -> {0}]
  BY <1>1 DEF Replying!Zero
<1>3. counted' = counted \/ counted' = [counted EXCEPT ![w] = counted[w] + 1]
  BY DEF Replying!Counts
<1> HIDE <1>1
<1>4. CASE counted' = counted
  BY <1>2, <1>4 DEF CountTypes
<1>5. CASE counted' = [counted EXCEPT ![w] = counted[w] + 1]
  <2>1. PICK c : c = counted
    OBVIOUS
  <2>2. PICK n : n = c[w] + 1
    OBVIOUS
  <2>3. c \in [{"processed", "failed"} -> 0 .. 1] /\ (w \in {"processed", "failed"} => n \in 0 .. 1)
    BY <1>2, <2>1, <2>2
  <2>4. counted' = [c EXCEPT ![w] = n]
    BY <1>5, <2>1, <2>2
  <2> QED
    BY <2>3, <2>4 DEF CountTypes
<1> QED
  BY <1>3, <1>4, <1>5

\* A step that leaves the parts and the indicator alone.
LEMMA StepTyped ==
    ASSUME JobTypes, UNCHANGED <<jobIn, plannedBias, parts, next, typing, starting>>,
           stage # "part", stage' # "part",
           stage' \in {"begin", "remote", "ordinary"} => stage \in {"begin", "remote", "ordinary"},
           counted' \in CountTypes, asked' \in BOOLEAN, failed' \in BOOLEAN
    PROVE  JobTypes'
BY DEF JobTypes

LEMMA SendTyped ==
    ASSUME NEW x, NEW ok \in BOOLEAN, Replying!Send(x, ok) PROVE failed' \in BOOLEAN
BY DEF Replying!Send

\* A part is sent, or passed over.
LEMMA PartTyped ==
    ASSUME JobTypes, UNCHANGED <<jobIn, plannedBias, parts, asked, typing, starting>>,
           stage = "part" \/ (stage = "parts" /\ Len(parts) = 1 /\ next = 1),
           next' = next + 1, stage' \in {"parts", "sorry"},
           counted' \in CountTypes, failed' \in BOOLEAN
    PROVE  JobTypes'
<1>1. next <= Len(parts) /\ next \in Nat /\ Len(parts) \in Nat
  BY DEF JobTypes
<1>2. next' \in 1 .. (Len(parts) + 1) /\ starting <= next'
  BY <1>1 DEF JobTypes
<1> QED
  BY <1>2 DEF JobTypes

LEMMA JobTyped ==
    ASSUME JobInv, JobTypes, [Replying!JobNext]_(Replying!jobVars) PROVE JobTypes'
<1> USE DEF Replying!Quiet, Replying!Goes
<1>0. /\ counted \in CountTypes /\ asked \in BOOLEAN /\ failed \in BOOLEAN /\ starting \in Nat
      /\ parts \in Seq({"text", "sticker"}) /\ Len(parts) \in Nat /\ next \in Nat
  BY DEF JobTypes
<1>1. CASE UNCHANGED Replying!jobVars
  BY <1>1 DEF Replying!jobVars, JobTypes
<1>2. CASE Replying!NoClient
  BY <1>0, <1>2, CountTyped, StepTyped DEF Replying!NoClient
<1>3. CASE Replying!RateLimited
  <2>1. PICK ok \in BOOLEAN :
           /\ stage = "begin" /\ stage' = "clear" /\ Replying!Send(Replying!Post("rate", 0), ok)
           /\ Replying!Counts(IF ok THEN "processed" ELSE "failed")
           /\ UNCHANGED <<jobIn, plannedBias, parts, next, asked, typing, starting>>
    BY <1>3 DEF Replying!RateLimited
  <2>2. counted' \in CountTypes /\ failed' \in BOOLEAN
    BY <2>1, CountTyped, SendTyped
  <2> QED
    BY <1>0, <2>1, <2>2, StepTyped
<1>4. CASE Replying!P2PHandled
  <2>1. PICK ok \in BOOLEAN :
           /\ stage = "begin" /\ stage' \in {"remote", "ordinary"}
           /\ Replying!Send(Replying!Post("p2p", 0), ok)
           /\ UNCHANGED <<jobIn, plannedBias, parts, next, counted, asked, typing, starting>>
    BY <1>4 DEF Replying!P2PHandled
  <2>2. failed' \in BOOLEAN
    BY <2>1, SendTyped
  <2> QED
    BY <1>0, <2>1, <2>2, StepTyped
<1>5. CASE Replying!RemoteSends
  BY <1>0, <1>5, CountTyped, StepTyped DEF Replying!RemoteSends
<1>6. CASE Replying!NoP2P
  BY <1>0, <1>6, StepTyped DEF Replying!NoP2P
<1>7. CASE Replying!Preflight
  <2>1. PICK ok \in BOOLEAN :
           /\ stage = "ordinary" /\ stage' = "clear" /\ Replying!Send(Replying!Post("notice", 0), ok)
           /\ Replying!Counts(IF ok THEN "processed" ELSE "none")
           /\ UNCHANGED <<jobIn, plannedBias, parts, next, asked, typing, starting>>
    BY <1>7 DEF Replying!Preflight
  <2>2. counted' \in CountTypes /\ failed' \in BOOLEAN
    BY <2>1, CountTyped, SendTyped
  <2> QED
    BY <1>0, <2>1, <2>2, StepTyped
<1>8. CASE Replying!SkipBatch
  BY <1>0, <1>8, CountTyped, StepTyped DEF Replying!SkipBatch
<1>9. CASE Replying!Unreadable
  <2>1. PICK ok \in BOOLEAN :
           /\ stage = "ordinary" /\ stage' = "clear"
           /\ Replying!Send(Replying!Post("unreadable", 0), ok)
           /\ Replying!Counts(IF ok THEN "processed" ELSE "failed")
           /\ UNCHANGED <<jobIn, plannedBias, parts, next, asked, typing, starting>>
    BY <1>9 DEF Replying!Unreadable
  <2>2. counted' \in CountTypes /\ failed' \in BOOLEAN
    BY <2>1, CountTyped, SendTyped
  <2> QED
    BY <1>0, <2>1, <2>2, StepTyped
<1>10. CASE Replying!AskChat
  <2>1. /\ stage = "ordinary" /\ stage' = "chat" /\ asked' = TRUE /\ starting' = starting + 1
        /\ UNCHANGED <<jobIn, plannedBias, parts, next, counted, failed, typing>>
    BY <1>10 DEF Replying!AskChat
  <2>2. starting' = 1 /\ next >= 1
    BY <2>1 DEF JobTypes
  <2> QED
    BY <2>1, <2>2 DEF JobTypes
<1>11. ASSUME NEW r \in Replies, Replying!Chats(r) PROVE JobTypes'
  <2>1. /\ stage = "chat" /\ stage' = "parts" /\ parts' = IF Len(r) > 4 THEN <<>> ELSE r
        /\ UNCHANGED <<jobIn, plannedBias, next, counted, asked, failed, typing, starting>>
    BY <1>11 DEF Replying!Chats
  <2>2. r \in Seq({"text", "sticker"}) /\ Len(r) \in Nat
    BY Assumed DEF Replying!ReplyAssumption
  <2>3. parts' \in Seq({"text", "sticker"}) /\ Len(parts') <= 4 /\ Len(parts') \in Nat
    BY <2>1, <2>2
  <2>4. next = 1
    BY <2>1 DEF JobInv
  <2> QED
    BY <2>1, <2>3, <2>4 DEF JobTypes
<1>12. CASE Replying!Rejected
  <2>1. PICK ok \in BOOLEAN :
           /\ stage = "chat" /\ stage' \in {"clear", "sorry"}
           /\ Replying!Send(Replying!Post("reject", 0), ok)
           /\ Replying!Counts(IF ok THEN "processed" ELSE "failed")
           /\ UNCHANGED <<jobIn, plannedBias, parts, next, asked, typing, starting>>
    BY <1>12 DEF Replying!Rejected
  <2>2. counted' \in CountTypes /\ failed' \in BOOLEAN
    BY <2>1, CountTyped, SendTyped
  <2> QED
    BY <1>0, <2>1, <2>2, StepTyped
<1>13. CASE Replying!ChatFails
  BY <1>0, <1>13, CountTyped, StepTyped DEF Replying!ChatFails
<1>14. CASE Replying!Announce
  <2>1. /\ stage = "parts" /\ next <= Len(parts) /\ stage' = "part" /\ starting' = starting + 1
        /\ UNCHANGED <<jobIn, plannedBias, parts, next, counted, asked, failed, typing>>
    BY <1>14 DEF Replying!Announce
  <2>2. starting' \in Nat /\ starting' <= next + 1
    BY <1>0, <2>1 DEF JobTypes
  <2> QED
    BY <2>1, <2>2 DEF JobTypes
<1>15. CASE Replying!SendText
  <2>1. PICK ok \in BOOLEAN :
           /\ stage = "part" \/ (stage = "parts" /\ Len(parts) = 1 /\ next = 1)
           /\ Replying!Send(Replying!Post("part", next), ok) /\ next' = next + 1
           /\ stage' = IF ok THEN "parts" ELSE Replying!AfterFailure
           /\ Replying!Counts(IF ok THEN "none" ELSE "failed")
           /\ UNCHANGED <<jobIn, plannedBias, parts, asked, typing, starting>>
    BY <1>15 DEF Replying!SendText
  <2>2. counted' \in CountTypes /\ failed' \in BOOLEAN /\ stage' \in {"parts", "sorry"}
    BY <2>1, CountTyped, SendTyped DEF Replying!AfterFailure
  <2> QED
    BY <2>1, <2>2, PartTyped
<1>16. CASE Replying!SendSticker
  <2>1. /\ stage = "part" \/ (stage = "parts" /\ Len(parts) = 1 /\ next = 1)
        /\ next' = next + 1 /\ stage' = "parts"
        /\ UNCHANGED <<jobIn, plannedBias, parts, counted, asked, failed, typing, starting>>
    BY <1>16 DEF Replying!SendSticker
  <2> QED
    BY <1>0, <2>1, PartTyped
<1>17. CASE Replying!AllSent
  BY <1>0, <1>17, CountTyped, StepTyped DEF Replying!AllSent
<1>18. CASE Replying!Apologize
  <2>1. PICK ok \in BOOLEAN :
           /\ stage = "sorry" /\ stage' = "clear" /\ Replying!Send(Replying!Post("sorry", 0), ok)
           /\ UNCHANGED <<jobIn, plannedBias, parts, next, counted, asked, typing, starting>>
    BY <1>18 DEF Replying!Apologize
  <2>2. failed' \in BOOLEAN
    BY <2>1, SendTyped
  <2> QED
    BY <1>0, <2>1, <2>2, StepTyped
<1>19. CASE Replying!StopTyping
  BY <1>19 DEF Replying!StopTyping, JobTypes
<1>20. CASE Replying!TypingArrives
  <2>1. PICK shown \in BOOLEAN :
           /\ starting > 0 /\ starting' = starting - 1 /\ typing' = (typing \/ shown)
           /\ UNCHANGED <<jobIn, plannedBias, stage, parts, next, counted, asked, failed>>
    BY <1>20 DEF Replying!TypingArrives
  <2>2. starting' \in Nat /\ starting' <= starting /\ starting # 0 /\ typing' \in BOOLEAN
    BY <1>0, <2>1
  <2> QED
    BY <1>0, <2>1, <2>2 DEF JobTypes
<1> QED
  BY <1>1, <1>2, <1>3, <1>4, <1>5, <1>6, <1>7, <1>8, <1>9, <1>10, <1>11, <1>12, <1>13, <1>14,
     <1>15, <1>16, <1>17, <1>18, <1>19, <1>20 DEF Replying!JobNext

LEMMA JobTypesInit == ASSUME Replying!JobInit PROVE JobTypes
<1>1. counted \in CountTypes
  BY DEF Replying!JobInit, Replying!Zero, CountTypes
<1> QED
  <2>1. parts = <<>> /\ next = 1 /\ starting = 0 /\ stage = "begin" /\ Len(<<>>) = 0
    BY DEF Replying!JobInit
  <2>2. parts \in Seq({"text", "sticker"}) /\ Len(parts) = 0
    BY <2>1
  <2>3. /\ jobIn \in Jobs /\ plannedBias \in {"off", "mild", "strong"}
        /\ asked \in BOOLEAN /\ failed \in BOOLEAN /\ typing \in BOOLEAN
    BY DEF Replying!JobInit
  <2> QED
    BY <1>1, <2>1, <2>2, <2>3 DEF JobTypes

LEMMA JobWell == JobInv /\ JobTypes => Replying!JobTypeOK
<1> SUFFICES ASSUME JobInv, JobTypes PROVE Replying!JobTypeOK
  OBVIOUS
<1>1. starting \in 0 .. 5
  BY DEF JobTypes
<1> QED
  BY <1>1 DEF JobInv, Stages, JobTypes, CountTypes, Replying!JobTypeOK

\* For any jobs, replies and failures of sends: the parts of a reply arrive in order,
\* none twice and no text left out for a later part; an apology follows a failure and
\* is the last; a job is counted once; and what asks for an answer reaches the chat.
THEOREM JobsAnswered == ConversationSpec => []RepliesInOrder
<1> DEFINE I == InJob => JobInv
<1>1. ConversationInit => I
  BY JobInitHolds DEF ConversationInit, InJob
<1>2. I /\ [ConversationNext]_conversationVars => I'
  <2> SUFFICES ASSUME I, [ConversationNext]_conversationVars, InJob' PROVE JobInv'
    OBVIOUS
  <2>1. InJob /\ [Replying!JobNext]_(Replying!jobVars)
    BY PartSteps DEF InJob
  <2> QED
    BY <2>1, JobKeeps
<1>3. I => RepliesInOrder
  <2> SUFFICES ASSUME JobInv PROVE Replying!RepliesInOrder
    BY DEF RepliesInOrder
  <2>1. DOMAIN posts = 1 .. Len(posts) /\ Sent(posts) = {i \in DOMAIN posts : posts[i].what = "part"}
    BY DEF JobInv, Sent
  <2>2. \A i, j \in Sent(posts) : i < j => posts[i].part < posts[j].part
    BY DEF JobInv, InOrder
  <2>3. \A i \in Sent(posts) : \A k \in 1 .. (posts[i].part - 1) :
           parts[k] = "text" => \E j \in Sent(posts) : posts[j].part = k
    BY DEF JobInv, Gapless, Complete
  <2>4. \A i \in DOMAIN posts : posts[i].what = "sorry" => failed /\ i = Len(posts)
    BY <2>1 DEF JobInv, Sorry
  <2>5. stage = "over" => \/ counted.processed + counted.failed = 1
                          \/ jobIn.preflight /\ failed /\ counted = Replying!Zero
    BY DEF JobInv, JobCounted
  <2>6. stage \in {"clear", "over"} => (Due(jobIn) => asked)
    BY DEF JobInv
  <2> QED
    BY <2>1, <2>2, <2>3, <2>4, <2>5, <2>6 DEF Replying!RepliesInOrder, Due
<1> QED
  BY <1>1, <1>2, <1>3, PTL DEF ConversationSpec
-----------------------------------------------------------------------------
(* ChatTurn *)

\* What a closure on a peer's chain may be.
Closures ==
    [work : {"none", "turn", "nudge"},
     at : {"end", "create", "store", "model", "touch", "mark", "send", "sent", "count"},
     got : Chat!PeerRows \cup {NoRow}]
TurnBegun(c) == c.work # "none" /\ ~(c.work = "turn" /\ c.at = "create")
Carrying(c) == \/ c.work = "turn" /\ c.at \in {"store", "touch"}
               \/ c.work = "nudge" /\ c.at \in {"mark", "touch", "sent"}
ClosureSound(c) ==
    /\ c \in Closures
    /\ c.work = "none" => c = Chat!Free
    /\ c.work = "turn" => c.at \in {"create", "store", "model", "touch"}
    /\ c.work = "nudge" => c.at \in {"model", "mark", "touch", "send", "sent", "count"}
    /\ Carrying(c) <=> c.got # NoRow
Asks == [what : {"none", "approve", "on", "off"}, at : {"end", "create", "write", "index"},
         got : Chat!PeerRows \cup {NoRow}]
AskSound(q) ==
    /\ q \in Asks
    /\ q.at = "write" => q.got # NoRow
    /\ q.at # "end" => q.what # "none"

ChatTypes ==
    /\ peerRow \in Chat!PeerRows \cup {NoRow}
    /\ inIndex \in BOOLEAN /\ token \in BOOLEAN /\ locked \in BOOLEAN
    /\ granted \in BOOLEAN /\ stale \in BOOLEAN
    /\ dayCount \in [Chat!Days -> Nat] /\ nudged \in [Chat!Days -> Nat]
    /\ home \in Nodes /\ clock \in Chat!Hours /\ upsets \in Nat
    /\ chain \in [Nodes -> Closures] /\ \A n \in Nodes : ClosureSound(chain[n])
    /\ scan \in [Nodes -> {Chat!NoScan, "lock", "wait"}]
    /\ ask \in [Requests -> Asks] /\ \A a \in Requests : AskSound(ask[a])
    /\ owed \in [graph : Int, rest : {0}]

\* A closure past the making of the row has one to write to, and so has a tick; a
\* nudge is one of a tick that holds the lock, or thinks so.
RowsThere ==
    \A n \in Nodes : /\ TurnBegun(chain[n]) => peerRow # NoRow
                     /\ scan[n] # Chat!NoScan => peerRow # NoRow
                     /\ chain[n].work = "nudge" => scan[n] = "wait"

\* Once an approval was written while nobody was behind, nobody gets behind:
\* whoever reads the row has an approved copy to write back.
Approval ==
    granted /\ ~stale =>
        /\ peerRow # NoRow /\ peerRow.approved
        /\ \A n \in Nodes : ~Chat!Behind(chain[n])
        /\ \A a \in Requests : ~Chat!Behind(ask[a])

\* The ticks under way on nodes that no longer poll the bot, the nudges that
\* were sent and are not counted, and those that may yet be sent.
Away == {n \in Nodes : scan[n] # Chat!NoScan /\ n # home}
Uncounted == {n \in Nodes : chain[n].work = "nudge" /\ chain[n].at \in {"sent", "count"}}
Unsent == {n \in Nodes : scan[n] # Chat!NoScan} \ Uncounted

NudgeCounts ==
    /\ IsFiniteSet(Away) /\ IsFiniteSet(Uncounted) /\ IsFiniteSet(Unsent)
    /\ Cardinality(Away) <= upsets
    /\ nudged[Chat!Today] + Cardinality(Away) <= dayCount[Chat!Today] + Cardinality(Uncounted) + upsets
    /\ nudged[Chat!Today] + Cardinality(Unsent) <= MaxPerDay + upsets
    /\ \A d \in Chat!Days :
         /\ d > Chat!Today => nudged[d] = 0
         /\ d < Chat!Today => nudged[d] <= MaxPerDay + upsets

ChatInv == ChatTypes /\ RowsThere /\ Approval /\ NudgeCounts


LEMMA ChatFacts ==
    /\ MaxPerDay \in Nat \ {0} /\ DayHours \in Nat \ {0} /\ MaxClock \in Nat
    /\ NoRow \notin Chat!PeerRows
    /\ Chat!Free \in Closures /\ Chat!Free.work = "none" /\ ClosureSound(Chat!Free)
    /\ ~Chat!Behind(Chat!Free) /\ ~TurnBegun(Chat!Free) /\ ~Carrying(Chat!Free)
    /\ AskSound(Chat!NoAsk) /\ ~Chat!Behind(Chat!NoAsk)
<1>1. Chat!ChatAssumption
  BY ConversationAssumption
<1>2. MaxPerDay \in Nat \ {0} /\ DayHours \in Nat \ {0} /\ MaxClock \in Nat /\ NoRow \notin Chat!PeerRows
  BY <1>1 DEF Chat!ChatAssumption
<1>3. /\ Chat!Free \in Closures /\ Chat!Free.work = "none" /\ ClosureSound(Chat!Free)
      /\ ~Chat!Behind(Chat!Free) /\ ~TurnBegun(Chat!Free) /\ ~Carrying(Chat!Free)
  BY DEF Chat!Free, Closures, ClosureSound, Carrying, Chat!Behind, TurnBegun
<1>4. AskSound(Chat!NoAsk) /\ ~Chat!Behind(Chat!NoAsk)
  BY DEF Chat!NoAsk, Asks, AskSound, Chat!Behind
<1> QED
  BY <1>2, <1>3, <1>4

\* A closure is behind when it makes the row, or carries an unapproved one.
LEMMA BehindIs ==
    ASSUME NEW c, ClosureSound(c)
    PROVE  /\ ~Chat!Behind(c) => ~(c.work = "turn" /\ c.at = "create") /\ (Carrying(c) => c.got.approved)
           /\ c.at # "create" /\ ~Carrying(c) => ~Chat!Behind(c)
           /\ c.at # "create" /\ c.got.approved => ~Chat!Behind(c)
BY DEF ClosureSound, Chat!Behind

\* Days follow on one another as the hours do.
LEMMA DayOf ==
    ASSUME NEW h \in Chat!Hours
    PROVE  /\ h \div DayHours \in Chat!Days /\ h \div DayHours \in Nat
           /\ h + 1 \in Chat!Hours => (h + 1) \div DayHours \in {h \div DayHours, h \div DayHours + 1}
<1>1. h \in Nat /\ DayHours \in Nat \ {0}
  BY ChatFacts DEF Chat!Hours
<1>2. h \div DayHours \in Chat!Days
  BY DEF Chat!Days
<1>3. h \div DayHours \in Nat
  BY <1>1
<1>4. (h + 1) \div DayHours \in {h \div DayHours, h \div DayHours + 1}
  <2> DEFINE q == h \div DayHours
  <2> DEFINE r == h % DayHours
  <2>1. q \in Nat /\ r \in 0 .. DayHours - 1 /\ h = DayHours * q + r
    BY <1>1, SMT
  <2>2. CASE r + 1 < DayHours
    <3>1. h + 1 = DayHours * q + (r + 1)
      BY <1>1, <2>1
    <3> QED
      BY <1>1, <2>1, <2>2, <3>1, SMT
  <2>3. CASE r + 1 = DayHours
    <3>1. h + 1 = DayHours * (q + 1)
      BY <1>1, <2>1, <2>3, SMT
    <3> QED
      BY <1>1, <2>1, <3>1, SMT
  <2> QED
    BY <1>1, <2>1, <2>2, <2>3
<1> QED
  BY <1>2, <1>3, <1>4

\* A row that is written back keeps its approval.
LEMMA RowFacts ==
    ASSUME clock \in Chat!Hours
    PROVE  /\ Chat!NewPeer \in Chat!PeerRows /\ ~Chat!NewPeer.approved
           /\ \A row \in Chat!PeerRows :
                /\ Chat!Touched(row) \in Chat!PeerRows /\ Chat!Touched(row).approved = row.approved
                /\ Chat!Tried(row) \in Chat!PeerRows /\ Chat!Tried(row).approved = row.approved
                /\ Chat!Sent(row) \in Chat!PeerRows /\ Chat!Sent(row).approved = row.approved
                /\ row.approved \in BOOLEAN
BY DEF Chat!NewPeer, Chat!PeerRows, Chat!Touched, Chat!Tried, Chat!Sent

LEMMA RowsOf ==
    ASSUME ChatTypes
    PROVE  /\ peerRow # NoRow => peerRow \in Chat!PeerRows
           /\ \A n \in Nodes : /\ chain[n] \in Closures /\ ClosureSound(chain[n])
                               /\ Carrying(chain[n]) => chain[n].got \in Chat!PeerRows
           /\ \A a \in Requests : /\ ask[a] \in Asks /\ AskSound(ask[a])
                                  /\ ask[a].at = "write" => ask[a].got \in Chat!PeerRows
BY DEF ChatTypes, ClosureSound, Closures, Asks, AskSound

\* The sizes of sets to which one element is added or from which one is taken.
LEMMA SizeMoves ==
    ASSUME NEW S, IsFiniteSet(S), NEW T, NEW x, T \subseteq S \cup {x}
    PROVE  /\ IsFiniteSet(T) /\ Cardinality(T) \in Nat /\ Cardinality(S) \in Nat
           /\ Cardinality(T) <= Cardinality(S) + 1
           /\ T \subseteq S => Cardinality(T) <= Cardinality(S)
           /\ T \subseteq S \ {x} /\ x \in S => Cardinality(T) <= Cardinality(S) - 1
<1>1. IsFiniteSet(S \cup {x}) /\ Cardinality(S) \in Nat /\ Cardinality(S \cup {x}) <= Cardinality(S) + 1
  <2>1. /\ IsFiniteSet(S \cup {x})
        /\ Cardinality(S \cup {x}) = IF x \in S THEN Cardinality(S) ELSE Cardinality(S) + 1
    BY FS_AddElement, Zenon
  <2>2. Cardinality(S) \in Nat
    BY FS_CardinalityType
  <2> QED
    BY <2>1, <2>2
<1>2. IsFiniteSet(T) /\ Cardinality(T) <= Cardinality(S \cup {x}) /\ Cardinality(T) \in Nat
      /\ Cardinality(S \cup {x}) \in Nat
  BY <1>1, FS_Subset, FS_CardinalityType
<1>3. ASSUME T \subseteq S PROVE Cardinality(T) <= Cardinality(S)
  BY <1>3, FS_Subset
<1>4. ASSUME T \subseteq S \ {x}, x \in S PROVE Cardinality(T) <= Cardinality(S) - 1
  BY <1>4, FS_RemoveElement, FS_Subset, FS_CardinalityType
<1> QED
  BY <1>1, <1>2, <1>3, <1>4

\* The counts while no nudge is sent or counted, no tick begins or ends and the
\* bot does not move.
LEMMA CountsStay ==
    ASSUME NudgeCounts, Uncounted' = Uncounted,
           UNCHANGED <<scan, home, nudged, dayCount, clock, upsets>>
    PROVE  NudgeCounts'
<1>1. Away' = Away /\ Unsent' = Unsent /\ Chat!Today' = Chat!Today
  BY DEF Away, Unsent, Chat!Today
<1> QED
  BY <1>1 DEF NudgeCounts

\* The chain of one node moves on.
LEMMA ChainMoves ==
    ASSUME ChatTypes, NEW n \in Nodes, NEW c, ClosureSound(c), Chat!Now(n, c)
    PROVE  /\ chain' \in [Nodes -> Closures] /\ chain'[n] = c
           /\ \A m \in Nodes : m # n => chain'[m] = chain[m]
           /\ \A m \in Nodes : ClosureSound(chain'[m])
BY DEF ChatTypes, Chat!Now, ClosureSound

\* A step of a turn: its chain goes on to a closure that is no nudge, and the row
\* stays or is written.
LEMMA TurnMoves ==
    ASSUME ChatInv, NEW n \in Nodes, NEW c, ClosureSound(c), Chat!Now(n, c),
           chain[n].work # "nudge", c.work # "nudge",
           peerRow' \in Chat!PeerRows \cup {NoRow}, peerRow # NoRow => peerRow' # NoRow,
           TurnBegun(c) => peerRow' # NoRow,
           granted /\ ~stale => peerRow' # NoRow /\ peerRow'.approved /\ ~Chat!Behind(c),
           token' \in BOOLEAN, owed' \in [graph : Int, rest : {0}],
           UNCHANGED <<clock, home, ask, upsets, granted, stale, inIndex, dayCount, locked, scan, nudged>>
    PROVE  ChatInv'
<1>1. /\ chain' \in [Nodes -> Closures] /\ chain'[n] = c
      /\ \A m \in Nodes : m # n => chain'[m] = chain[m]
      /\ \A m \in Nodes : ClosureSound(chain'[m])
  BY ChainMoves DEF ChatInv
<1>2. ChatTypes'
  BY <1>1 DEF ChatInv, ChatTypes
<1>3. RowsThere'
  BY <1>1 DEF ChatInv, RowsThere
<1>4. Approval'
  BY <1>1 DEF ChatInv, Approval, Chat!Behind
<1>5. NudgeCounts'
  <2>1. Uncounted' = Uncounted
    BY <1>1 DEF Uncounted
  <2> QED
    BY <2>1, CountsStay DEF ChatInv
<1> QED
  BY <1>2, <1>3, <1>4, <1>5 DEF ChatInv

LEMMA ArriveKeeps == ASSUME ChatInv, NEW n \in Nodes, Chat!Arrive(n) PROVE ChatInv'
<1> USE ChatFacts, RowsOf
<1>1. chain[n] = Chat!Free /\ token' = TRUE
      /\ UNCHANGED <<clock, home, ask, upsets, granted, peerRow, inIndex, dayCount, locked, scan, stale, nudged, owed>>
  BY DEF Chat!Arrive, Chat!Grounds
<1>2. ChatTypes /\ owed \in [graph : Int, rest : {0}] /\ stale \in BOOLEAN
  BY DEF ChatInv, ChatTypes
<1>3. CASE peerRow = NoRow
  <2> DEFINE c == [Chat!Free EXCEPT !.work = "turn", !.at = "create"]
  <2>1. Chat!Now(n, c)
    BY <1>3 DEF Chat!Arrive
  <2>2. ClosureSound(c) /\ ~TurnBegun(c) /\ c.work # "nudge"
    BY DEF Chat!Free, ClosureSound, Closures, TurnBegun, Carrying
  <2>3. ~(granted /\ ~stale)
    BY <1>3 DEF ChatInv, Approval
  <2> QED
    BY <1>1, <1>2, <1>3, <2>1, <2>2, <2>3, TurnMoves
<1>4. CASE peerRow # NoRow
  <2> DEFINE c == [work |-> "turn", at |-> "store", got |-> peerRow]
  <2>1. Chat!Now(n, c) \/ Chat!Now(n, Chat!Free)
    BY <1>4 DEF Chat!Arrive
  <2>2. peerRow \in Chat!PeerRows
    BY <1>2, <1>4
  <2>3. ClosureSound(c) /\ c.work # "nudge" /\ c.got = peerRow /\ c.at # "create"
    BY <1>4, <2>2 DEF ClosureSound, Closures, Carrying
  <2>4. granted /\ ~stale => peerRow.approved /\ ~Chat!Behind(c)
    BY <2>3, BehindIs DEF ChatInv, Approval
  <2> QED
    BY <1>1, <1>2, <1>4, <2>1, <2>2, <2>3, <2>4, TurnMoves
<1> QED
  BY <1>3, <1>4

LEMMA CreateKeeps == ASSUME ChatInv, NEW n \in Nodes, Chat!Create(n) PROVE ChatInv'
<1> USE ChatFacts, RowsOf
<1>1. /\ chain[n].work = "turn" /\ chain[n].at = "create" /\ peerRow' = Chat!NewPeer
      /\ UNCHANGED <<clock, home, ask, upsets, granted, stale, inIndex, token, dayCount, locked, scan, nudged, owed>>
  BY DEF Chat!Create, Chat!On, Chat!Grounds
<1>2. /\ ChatTypes /\ owed \in [graph : Int, rest : {0}] /\ token \in BOOLEAN
      /\ clock \in Chat!Hours
  BY DEF ChatInv, ChatTypes
<1>3. Chat!NewPeer \in Chat!PeerRows /\ ~Chat!NewPeer.approved /\ Chat!NewPeer # NoRow
  BY <1>2, RowFacts
<1>4. ~(granted /\ ~stale)
  BY <1>1 DEF ChatInv, Approval, Chat!Behind
<1>5. PICK c : Chat!Now(n, c) /\ ClosureSound(c) /\ c.work # "nudge"
  <2> DEFINE c == [chain[n] EXCEPT !.at = "store", !.got = Chat!NewPeer]
  <2>1. Chat!Now(n, c) \/ Chat!Now(n, Chat!Free)
    BY DEF Chat!Create
  <2>2. ClosureSound(c) /\ c.work # "nudge"
    BY <1>1, <1>2, <1>3 DEF ClosureSound, Closures, Carrying
  <2> QED
    BY <2>1, <2>2
<1> QED
  BY <1>1, <1>2, <1>3, <1>4, <1>5, TurnMoves

\* What a closure that writes a row back has in hand.
LEMMA Carried ==
    ASSUME ChatInv, NEW n \in Nodes, Carrying(chain[n])
    PROVE  /\ chain[n].got \in Chat!PeerRows /\ TurnBegun(chain[n])
           /\ peerRow # NoRow
           /\ granted /\ ~stale => chain[n].got.approved
<1>1. chain[n].got \in Chat!PeerRows
  BY RowsOf DEF ChatInv
<1>2. TurnBegun(chain[n])
  BY DEF TurnBegun, Carrying
<1>3. granted /\ ~stale => chain[n].got.approved
  BY RowsOf, BehindIs DEF ChatInv, Approval
<1> QED
  BY <1>1, <1>2, <1>3 DEF ChatInv, RowsThere

LEMMA StoreTouchKeeps == ASSUME ChatInv, NEW n \in Nodes, Chat!Store(n) \/ Chat!Touch(n) PROVE ChatInv'
<1> USE ChatFacts
<1>1. /\ chain[n].work = "turn" /\ peerRow' = Chat!Touched(chain[n].got)
      /\ Carrying(chain[n])
      /\ UNCHANGED <<clock, home, ask, upsets, granted, inIndex, token, dayCount, locked, scan, stale, nudged, owed>>
  BY DEF Chat!Store, Chat!Touch, Chat!On, Chat!Grounds, Carrying
<1>2. /\ ChatTypes /\ owed \in [graph : Int, rest : {0}] /\ stale \in BOOLEAN /\ token \in BOOLEAN
      /\ clock \in Chat!Hours
  BY DEF ChatInv, ChatTypes
<1>3. /\ chain[n].got \in Chat!PeerRows /\ peerRow # NoRow
      /\ granted /\ ~stale => chain[n].got.approved
  BY <1>1, Carried
<1>4. peerRow' \in Chat!PeerRows /\ peerRow' # NoRow /\ peerRow'.approved = chain[n].got.approved
  BY <1>1, <1>2, <1>3, RowFacts
<1>5. PICK c : Chat!Now(n, c) /\ ClosureSound(c) /\ c.work # "nudge" /\ ~Chat!Behind(c)
  <2>1. CASE Chat!Store(n)
    <3> DEFINE c == [chain[n] EXCEPT !.at = "model", !.got = NoRow]
    <3>1. Chat!Now(n, c)
      BY <2>1 DEF Chat!Store
    <3>2. ClosureSound(c) /\ c.work # "nudge" /\ ~Chat!Behind(c)
      BY <1>1, <1>2, RowsOf DEF ClosureSound, Closures, Carrying, Chat!Behind
    <3> QED
      BY <3>1, <3>2
  <2>2. CASE Chat!Touch(n)
    BY <2>2 DEF Chat!Touch
  <2> QED
    BY <2>1, <2>2
<1> QED
  BY <1>1, <1>2, <1>3, <1>4, <1>5, TurnMoves

\* Whichever way a turn of the models goes, each call it made is billed, but for
\* the empty planned answer of a graph.
LEMMA Billed ==
    ASSUME NEW flow \in BOOLEAN, NEW first
    PROVE  /\ Chat!Calls(flow, first) - Chat!BilledCalls(flow, first) - Chat!BilledAtEnd(flow) = 0
           /\ Chat!Calls(flow, first) - (Chat!BilledCalls(flow, first) + Chat!BilledAtEnd(flow)) = 0
           /\ ~flow => Chat!Calls(flow, first) - (Chat!BilledCalls(flow, first) + 0) = 0
           /\ flow => Chat!Calls(flow, first) - (Chat!BilledCalls(flow, first) + 0) = 1
BY DEF Chat!Calls, Chat!BilledCalls, Chat!BilledAtEnd, Chat!Repaired

LEMMA AnswerKeeps ==
    ASSUME ChatInv, NEW n \in Nodes, Chat!Skip(n) \/ Chat!Reply(n)
    PROVE  ChatInv'
<1> USE ChatFacts
<1>1. /\ chain[n].work = "turn" /\ chain[n].at = "model"
      /\ UNCHANGED <<clock, home, ask, upsets, granted, peerRow, inIndex, token, dayCount, locked, scan, stale, nudged>>
  BY DEF Chat!Skip, Chat!Reply, Chat!On, Chat!TurnOnly, Chat!Grounds
<1>2. ChatTypes /\ owed \in [graph : Int, rest : {0}] /\ stale \in BOOLEAN /\ token \in BOOLEAN
  BY DEF ChatInv, ChatTypes
<1>3. peerRow \in Chat!PeerRows /\ peerRow # NoRow
  <2>1. TurnBegun(chain[n])
    BY <1>1 DEF TurnBegun
  <2> QED
    BY <1>2, <2>1, RowsOf DEF ChatInv, RowsThere, Approval, ChatTypes
<1>4. owed' \in [graph : Int, rest : {0}]
  <2>2. CASE Chat!Skip(n)
    <3>1. PICK flow \in BOOLEAN, planned \in BOOLEAN, first \in Chat!Drafts : \E second \in Chat!Seconds(flow, first) :
            LET draft == Chat!Final(flow, first, second)
                early == planned /\ draft = "empty"
                bills == Chat!BilledCalls(flow, first) + (IF early THEN 0 ELSE Chat!BilledAtEnd(flow))
                owes == Chat!Calls(flow, first) - bills
            IN  /\ draft = "empty" \/ (~flow /\ Chat!Score(draft) > 0)
                /\ owed' = IF early /\ flow THEN [owed EXCEPT !.graph = @ + owes]
                                            ELSE [owed EXCEPT !.rest = @ + owes]
      BY <2>2 DEF Chat!Skip
    <3>2. PICK early \in BOOLEAN :
            LET owes == Chat!Calls(flow, first)
                          - (Chat!BilledCalls(flow, first) + (IF early THEN 0 ELSE Chat!BilledAtEnd(flow)))
            IN  owed' = IF early /\ flow THEN [owed EXCEPT !.graph = @ + owes]
                                         ELSE [owed EXCEPT !.rest = @ + owes]
      BY <3>1
    <3>3. CASE early /\ flow
      <4>1. owed' = [owed EXCEPT !.graph = @ + 1]
        BY <3>2, <3>3, Billed
      <4> QED
        BY <1>2, <4>1
    <3>4. CASE ~(early /\ flow)
      <4>1. owed' = [owed EXCEPT !.rest = @ + 0]
        BY <3>2, <3>4, Billed
      <4> QED
        BY <1>2, <4>1
    <3> QED
      BY <3>3, <3>4
  <2>3. CASE Chat!Reply(n)
    <3>1. PICK flow \in BOOLEAN, first \in Chat!Drafts :
            owed' = [owed EXCEPT !.rest = @ + Chat!Calls(flow, first)
                                     - Chat!BilledCalls(flow, first) - Chat!BilledAtEnd(flow)]
      BY <2>3, Zenon DEF Chat!Reply
    <3>2. owed.rest + Chat!Calls(flow, first) - Chat!BilledCalls(flow, first) - Chat!BilledAtEnd(flow) = 0
      BY <1>2 DEF Chat!Calls, Chat!BilledCalls, Chat!BilledAtEnd, Chat!Repaired
    <3> QED
      BY <1>2, <3>1, <3>2
  <2> QED
    BY <2>2, <2>3
<1>5. PICK c : /\ Chat!Now(n, c) /\ ClosureSound(c) /\ c.work # "nudge"
               /\ c.at # "create" /\ (Carrying(c) => c.got = peerRow)
  <2>1. CASE Chat!Skip(n)
    BY <2>1 DEF Chat!Skip, Chat!Free
  <2>2. CASE Chat!Reply(n)
    <3> DEFINE c == [chain[n] EXCEPT !.at = "touch", !.got = peerRow]
    <3>1. Chat!Now(n, c)
      BY <2>2 DEF Chat!Reply
    <3>2. ClosureSound(c) /\ c.work # "nudge" /\ c.at # "create" /\ c.got = peerRow
      BY <1>1, <1>2, <1>3, RowsOf DEF ClosureSound, Closures, Carrying
    <3> QED
      BY <3>1, <3>2
  <2> QED
    BY <2>1, <2>2
<1>6. granted /\ ~stale => peerRow.approved /\ ~Chat!Behind(c)
  BY <1>5, BehindIs DEF ChatInv, Approval
<1> QED
  BY <1>1, <1>2, <1>3, <1>4, <1>5, <1>6, TurnMoves

\* A turn that fails is over; its write was made, or not.
LEMMA TurnFailsKeeps == ASSUME ChatInv, NEW n \in Nodes, Chat!TurnFails(n) PROVE ChatInv'
<1> USE ChatFacts
<1>1. /\ chain[n].work = "turn" /\ Chat!Now(n, Chat!Free)
      /\ UNCHANGED <<clock, home, ask, upsets, granted, stale, inIndex, token, dayCount, locked, scan, nudged, owed>>
  BY DEF Chat!TurnFails, Chat!Grounds
<1>2. /\ ChatTypes /\ owed \in [graph : Int, rest : {0}] /\ token \in BOOLEAN
      /\ clock \in Chat!Hours /\ peerRow \in Chat!PeerRows \cup {NoRow}
      /\ chain[n].at \in {"create", "store", "model", "touch"}
  BY <1>1 DEF ChatInv, ChatTypes, ClosureSound
<1>3. granted /\ ~stale => peerRow # NoRow /\ peerRow.approved /\ ~Chat!Behind(chain[n])
  BY DEF ChatInv, Approval
<1>4. CASE peerRow' = peerRow
  BY <1>1, <1>2, <1>3, <1>4, TurnMoves
<1>5. CASE chain[n].at = "create" /\ peerRow' = Chat!NewPeer
  <2>1. ~(granted /\ ~stale)
    BY <1>3, <1>5 DEF Chat!Behind
  <2> QED
    BY <1>1, <1>2, <1>5, <2>1, RowFacts, TurnMoves
<1>6. CASE chain[n].at \in {"store", "touch"} /\ peerRow' = Chat!Touched(chain[n].got)
  <2>1. Carrying(chain[n])
    BY <1>1, <1>6 DEF Carrying
  <2>2. /\ chain[n].got \in Chat!PeerRows
        /\ granted /\ ~stale => chain[n].got.approved
    BY <2>1, Carried
  <2>3. peerRow' \in Chat!PeerRows /\ peerRow' # NoRow /\ peerRow'.approved = chain[n].got.approved
    BY <1>2, <1>6, <2>2, RowFacts
  <2> QED
    BY <1>1, <1>2, <2>2, <2>3, TurnMoves
<1> QED
  BY <1>2, <1>4, <1>5, <1>6 DEF Chat!TurnFails

\* A step of a nudge: what its chain goes on to, and the row it may write.
LEMMA NudgeMoves ==
    ASSUME ChatInv, NEW n \in Nodes, NEW c, ClosureSound(c), Chat!Now(n, c),
           scan[n] = "wait", c.work # "turn",
           peerRow' \in Chat!PeerRows,
           granted /\ ~stale => peerRow'.approved /\ ~Chat!Behind(c),
           c.work = "nudge" => scan'[n] = "wait",
           scan' \in [Nodes -> {Chat!NoScan, "lock", "wait"}], \A m \in Nodes : m # n => scan'[m] = scan[m],
           dayCount' \in [Chat!Days -> Nat], nudged' \in [Chat!Days -> Nat], locked' \in BOOLEAN,
           upsets' \in Nat, UNCHANGED <<clock, home, ask, granted, inIndex, token, stale, owed>>,
           NudgeCounts'
    PROVE  ChatInv'
<1> USE ChatFacts
<1>1. /\ chain' \in [Nodes -> Closures] /\ chain'[n] = c
      /\ \A m \in Nodes : m # n => chain'[m] = chain[m]
      /\ \A m \in Nodes : ClosureSound(chain'[m])
  BY ChainMoves DEF ChatInv
<1>2. peerRow' # NoRow
  OBVIOUS
<1>3. ChatTypes'
  BY <1>1 DEF ChatInv, ChatTypes
<1>4. RowsThere'
  BY <1>1, <1>2 DEF ChatInv, RowsThere
<1>5. Approval'
  BY <1>1, <1>2 DEF ChatInv, Approval, Chat!Behind
<1> QED
  BY <1>3, <1>4, <1>5 DEF ChatInv

\* What is known of the tick whose nudge runs.
LEMMA NudgeFacts ==
    ASSUME ChatInv, NEW n \in Nodes, chain[n].work = "nudge" \/ scan[n] = "wait"
    PROVE  /\ scan[n] = "wait" /\ upsets \in Nat
           /\ granted /\ ~stale => peerRow.approved
           /\ chain[n] \in Closures /\ ClosureSound(chain[n]) /\ clock \in Chat!Hours
           /\ peerRow \in Chat!PeerRows /\ peerRow # NoRow
           /\ scan \in [Nodes -> {Chat!NoScan, "lock", "wait"}] /\ locked \in BOOLEAN
           /\ dayCount \in [Chat!Days -> Nat] /\ nudged \in [Chat!Days -> Nat]
           /\ Chat!Today \in Chat!Days
<1>1. scan[n] = "wait"
  BY DEF ChatInv, RowsThere
<1>2. peerRow # NoRow
  BY <1>1 DEF ChatInv, RowsThere, Chat!NoScan
<1>3. granted /\ ~stale => peerRow.approved
  BY DEF ChatInv, Approval
<1>4. Chat!Today \in Chat!Days
  BY DayOf DEF ChatInv, ChatTypes, Chat!Today
<1> QED
  BY <1>1, <1>2, <1>3, <1>4 DEF ChatInv, ChatTypes

LEMMA NudgeGoesOn ==
    ASSUME ChatInv, NEW n \in Nodes, Chat!BeginNudge(n) \/ Chat!Declined(n) \/ Chat!Composed(n)
    PROVE  ChatInv'
<1>1. /\ (chain[n].work = "nudge" /\ chain[n].at = "model") \/ chain[n] = Chat!Free
      /\ chain[n].work = "nudge" \/ scan[n] = "wait"
      /\ UNCHANGED <<clock, home, ask, upsets, granted, peerRow, inIndex, token, dayCount, locked, scan,
                     stale, nudged, owed>>
  BY DEF Chat!BeginNudge, Chat!Declined, Chat!Composed, Chat!On, Chat!Grounds, Chat!NudgeOnly, Chat!Nudging
<1>2. peerRow # NoRow
  BY <1>1, NudgeFacts
<1>3. PICK c : /\ Chat!Now(n, c) /\ ClosureSound(c) /\ c.work = "nudge" /\ c.at \notin {"sent", "count"}
               /\ Carrying(c) => c.got = peerRow
  <2>1. peerRow \in Chat!PeerRows
    BY <1>1, <1>2, NudgeFacts
  <2>2. CASE Chat!BeginNudge(n)
    <3> DEFINE c == [Chat!Free EXCEPT !.work = "nudge", !.at = "model"]
               d == [[Chat!Free EXCEPT !.work = "nudge", !.at = "mark"] EXCEPT !.got = peerRow]
    <3>1. Chat!Now(n, c) \/ Chat!Now(n, d)
      BY <2>2 DEF Chat!BeginNudge, Chat!Nudging
    <3>2. ClosureSound(c) /\ c.work = "nudge" /\ c.at = "model" /\ ~Carrying(c)
      BY DEF ClosureSound, Closures, Carrying, Chat!Free
    <3>3. ClosureSound(d) /\ d.work = "nudge" /\ d.at = "mark" /\ d.got = peerRow
      BY <1>2, <2>1 DEF ClosureSound, Closures, Carrying, Chat!Free
    <3> QED
      BY <3>1, <3>2, <3>3
  <2>3. CASE Chat!Declined(n) \/ Chat!Composed(n)
    <3> DEFINE c == [chain[n] EXCEPT !.at = "mark", !.got = peerRow]
               d == [chain[n] EXCEPT !.at = "touch", !.got = peerRow]
    <3>1. Chat!Now(n, c) \/ Chat!Now(n, d)
      BY <2>3 DEF Chat!Declined, Chat!Composed, Chat!Nudging
    <3>2. chain[n].work = "nudge" /\ chain[n] \in Closures
      BY <2>3, <1>1, NudgeFacts DEF Chat!Declined, Chat!Composed, Chat!On
    <3>3. ClosureSound(c) /\ c.work = "nudge" /\ c.at = "mark" /\ c.got = peerRow
      BY <1>2, <2>1, <3>2 DEF ClosureSound, Closures, Carrying
    <3>4. ClosureSound(d) /\ d.work = "nudge" /\ d.at = "touch" /\ d.got = peerRow
      BY <1>2, <2>1, <3>2 DEF ClosureSound, Closures, Carrying
    <3> QED
      BY <3>1, <3>3, <3>4
  <2> QED
    BY <2>2, <2>3
<1>4. Uncounted' = Uncounted
  <2>1. /\ chain'[n] = c /\ \A m \in Nodes : m # n => chain'[m] = chain[m]
    BY <1>3, ChainMoves DEF ChatInv
  <2>2. n \notin Uncounted
    BY <1>1, ChatFacts DEF Uncounted
  <2> QED
    BY <1>3, <2>1, <2>2 DEF Uncounted
<1>5. NudgeCounts'
  BY <1>1, <1>4, CountsStay DEF ChatInv
<1>6. granted /\ ~stale => peerRow.approved /\ ~Chat!Behind(c)
  BY <1>1, <1>3, BehindIs, NudgeFacts DEF ClosureSound
<1> QED
  BY <1>1, <1>2, <1>3, <1>5, <1>6, NudgeFacts, NudgeMoves

\* The row of a nudge is written back, and the nudge goes on.
LEMMA NudgeWrites ==
    ASSUME ChatInv, NEW n \in Nodes, Chat!NudgeTouch(n) \/ Chat!MarkSent(n)
    PROVE  ChatInv'
<1>1. /\ chain[n].work = "nudge" /\ Carrying(chain[n])
      /\ UNCHANGED <<clock, home, ask, upsets, granted, inIndex, token, dayCount, locked, scan,
                     stale, nudged, owed>>
  BY DEF Chat!NudgeTouch, Chat!MarkSent, Chat!On, Chat!Grounds, Chat!NudgeOnly, Chat!Nudging, Carrying
<1>2. chain[n].got \in Chat!PeerRows /\ (granted /\ ~stale => chain[n].got.approved)
  BY <1>1, Carried
<1>3. peerRow' \in Chat!PeerRows /\ peerRow'.approved = chain[n].got.approved
  BY <1>1, <1>2, NudgeFacts, RowFacts DEF Chat!NudgeTouch, Chat!MarkSent
<1>4. PICK c : /\ Chat!Now(n, c) /\ ClosureSound(c) /\ c.work = "nudge" /\ ~Carrying(c)
               /\ c.at \in {"sent", "count"} <=> chain[n].at \in {"sent", "count"}
  <2> DEFINE c == [chain[n] EXCEPT !.at = "send", !.got = NoRow]
             d == [chain[n] EXCEPT !.at = "count", !.got = NoRow]
  <2>1. chain[n] \in Closures
    BY <1>1, NudgeFacts
  <2>2. ClosureSound(c) /\ c.work = "nudge" /\ c.at = "send" /\ ~Carrying(c)
    BY <1>1, <2>1 DEF ClosureSound, Closures, Carrying
  <2>3. ClosureSound(d) /\ d.work = "nudge" /\ d.at = "count" /\ ~Carrying(d)
    BY <1>1, <2>1 DEF ClosureSound, Closures, Carrying
  <2>4. CASE Chat!NudgeTouch(n)
    BY <2>2, <2>4 DEF Chat!NudgeTouch, Chat!Nudging, Chat!On
  <2>5. CASE Chat!MarkSent(n)
    BY <2>3, <2>5 DEF Chat!MarkSent, Chat!Nudging, Chat!On
  <2> QED
    BY <2>4, <2>5
<1>5. Uncounted' = Uncounted
  <2>1. /\ chain'[n] = c /\ \A m \in Nodes : m # n => chain'[m] = chain[m]
    BY <1>4, ChainMoves DEF ChatInv
  <2> QED
    BY <1>1, <1>4, <2>1 DEF Uncounted
<1>6. NudgeCounts'
  BY <1>1, <1>5, CountsStay DEF ChatInv
<1>7. ~Chat!Behind(c)
  BY <1>4, BehindIs DEF ClosureSound
<1> QED
  BY <1>1, <1>2, <1>3, <1>4, <1>6, <1>7, NudgeFacts, NudgeMoves

\* A nudge is sent: it may no longer be, and is to be counted.
LEMMA SendNudgeKeeps == ASSUME ChatInv, NEW n \in Nodes, Chat!Send(n) PROVE ChatInv'
<1>1. /\ chain[n].work = "nudge" /\ chain[n].at = "send"
      /\ nudged' = [nudged EXCEPT ![Chat!Today] = @ + 1]
      /\ UNCHANGED <<clock, home, ask, upsets, granted, peerRow, inIndex, token, dayCount, locked, scan,
                     stale, owed>>
  BY DEF Chat!Send, Chat!On, Chat!Grounds, Chat!NudgeOnly, Chat!Nudging
<1>2. /\ scan[n] = "wait" /\ chain[n] \in Closures /\ peerRow \in Chat!PeerRows /\ peerRow # NoRow
      /\ granted /\ ~stale => peerRow.approved
      /\ nudged \in [Chat!Days -> Nat] /\ dayCount \in [Chat!Days -> Nat] /\ Chat!Today \in Chat!Days
      /\ scan \in [Nodes -> {Chat!NoScan, "lock", "wait"}] /\ locked \in BOOLEAN
  BY <1>1, NudgeFacts
<1> DEFINE c == [chain[n] EXCEPT !.at = "sent", !.got = peerRow]
<1>3. ClosureSound(c) /\ c.work = "nudge" /\ c.at = "sent" /\ c.got = peerRow
  BY <1>1, <1>2 DEF ClosureSound, Closures, Carrying
<1>4. Chat!Now(n, c)
  BY DEF Chat!Send, Chat!Nudging
<1> HIDE DEF c
<1>5. chain'[n] = c /\ \A m \in Nodes : m # n => chain'[m] = chain[m]
  BY <1>3, <1>4, ChainMoves DEF ChatInv
<1>6. Uncounted' = Uncounted \cup {n} /\ n \notin Uncounted
  BY <1>1, <1>3, <1>5 DEF Uncounted
<1>7. Unsent' = Unsent \ {n} /\ n \in Unsent
  BY <1>1, <1>2, <1>6 DEF Unsent, Chat!NoScan
<1>8. Away' = Away /\ Chat!Today' = Chat!Today
  BY <1>1 DEF Away, Chat!Today
<1>9. NudgeCounts'
  <2>1. /\ IsFiniteSet(Away) /\ IsFiniteSet(Uncounted) /\ IsFiniteSet(Unsent)
        /\ Cardinality(Away) \in Nat /\ Cardinality(Uncounted) \in Nat /\ Cardinality(Unsent) \in Nat
    BY FS_CardinalityType DEF ChatInv, NudgeCounts
  <2>2. IsFiniteSet(Uncounted') /\ Cardinality(Uncounted') = Cardinality(Uncounted) + 1
    BY <1>6, <2>1, FS_AddElement
  <2>3. IsFiniteSet(Unsent') /\ Cardinality(Unsent') = Cardinality(Unsent) - 1
    BY <1>7, <2>1, FS_RemoveElement
  <2>4. nudged'[Chat!Today] = nudged[Chat!Today] + 1 /\ nudged[Chat!Today] \in Nat
        /\ \A d \in Chat!Days : d # Chat!Today => nudged'[d] = nudged[d]
    BY <1>1, <1>2
  <2>5. MaxPerDay \in Nat /\ upsets \in Nat /\ dayCount[Chat!Today] \in Nat
    BY <1>2, ChatFacts DEF ChatInv, ChatTypes
  <2>6. \A d \in Chat!Days : d \in Int
    BY DayOf DEF Chat!Days
  <2>7. nudged'[Chat!Today] + Cardinality(Away) <= dayCount[Chat!Today] + Cardinality(Uncounted') + upsets
    BY <2>1, <2>2, <2>4, <2>5 DEF ChatInv, NudgeCounts
  <2>8. nudged'[Chat!Today] + Cardinality(Unsent') <= MaxPerDay + upsets
    BY <2>1, <2>3, <2>4, <2>5 DEF ChatInv, NudgeCounts
  <2>9. \A d \in Chat!Days : /\ d > Chat!Today => nudged'[d] = 0
                             /\ d < Chat!Today => nudged'[d] <= MaxPerDay + upsets
    BY <1>2, <2>4, <2>6 DEF ChatInv, NudgeCounts
  <2> QED
    BY <1>1, <1>8, <2>1, <2>2, <2>3, <2>7, <2>8, <2>9 DEF ChatInv, NudgeCounts
<1>10. nudged' \in [Chat!Days -> Nat] /\ upsets \in Nat
  BY <1>1, <1>2, NudgeFacts
<1>11. granted /\ ~stale => ~Chat!Behind(c)
  BY <1>2, <1>3, BehindIs
<1> QED
  BY <1>1, <1>2, <1>3, <1>4, <1>9, <1>10, <1>11, NudgeMoves

\* A closure of the scheduler ends: its tick is over.
LEMMA TickEnds ==
    ASSUME ChatInv, NEW n \in Nodes, scan[n] = "wait", Chat!NudgeEnds(n),
           UNCHANGED <<clock, home, ask, upsets, granted, inIndex, token, stale, owed, nudged>>,
           peerRow' \in Chat!PeerRows, granted /\ ~stale => peerRow'.approved,
           \/ dayCount' = dayCount /\ chain[n].at \notin {"sent", "count"}
           \/ /\ dayCount' = [dayCount EXCEPT ![Chat!Today] = @ + 1]
              /\ chain[n].work = "nudge" /\ chain[n].at = "count"
    PROVE  ChatInv'
<1>1. /\ Chat!Now(n, Chat!Free) /\ scan' = [scan EXCEPT ![n] = Chat!NoScan] /\ locked' \in BOOLEAN
  BY NudgeFacts DEF Chat!NudgeEnds
<1>2. chain'[n] = Chat!Free /\ \A m \in Nodes : m # n => chain'[m] = chain[m]
  BY <1>1, ChatFacts, ChainMoves DEF ChatInv
<1>3. /\ nudged \in [Chat!Days -> Nat] /\ dayCount \in [Chat!Days -> Nat] /\ Chat!Today \in Chat!Days
      /\ scan \in [Nodes -> {Chat!NoScan, "lock", "wait"}]
  BY NudgeFacts
<1>4. scan'[n] = Chat!NoScan /\ \A m \in Nodes : m # n => scan'[m] = scan[m]
  BY <1>1, <1>3
<1>5. Away' \subseteq Away
  BY <1>4 DEF Away
<1>6. Uncounted' = Uncounted \ {n}
  BY <1>2, ChatFacts DEF Uncounted
<1>7. Unsent' = Unsent \ {n}
  BY <1>4, <1>6 DEF Unsent
<1>8. Chat!Today' = Chat!Today
  BY DEF Chat!Today
<1>9. dayCount' \in [Chat!Days -> Nat]
  BY <1>3
<1>10. NudgeCounts'
  <2>1. /\ IsFiniteSet(Away) /\ IsFiniteSet(Uncounted) /\ IsFiniteSet(Unsent)
        /\ Cardinality(Away) \in Nat /\ Cardinality(Uncounted) \in Nat /\ Cardinality(Unsent) \in Nat
    BY FS_CardinalityType DEF ChatInv, NudgeCounts
  <2>2. IsFiniteSet(Away') /\ Cardinality(Away') <= Cardinality(Away) /\ Cardinality(Away') \in Nat
    BY <1>5, <2>1, FS_Subset, FS_CardinalityType
  <2>3. IsFiniteSet(Unsent') /\ Cardinality(Unsent') <= Cardinality(Unsent) /\ Cardinality(Unsent') \in Nat
    BY <1>7, <2>1, FS_Subset, FS_CardinalityType
  <2>4. /\ IsFiniteSet(Uncounted') /\ Cardinality(Uncounted') \in Nat
        /\ dayCount[Chat!Today] + Cardinality(Uncounted) <= dayCount'[Chat!Today] + Cardinality(Uncounted')
    <3>1. CASE dayCount' = dayCount /\ chain[n].at \notin {"sent", "count"}
      <4>1. Uncounted' = Uncounted
        BY <1>6, <3>1 DEF Uncounted
      <4> QED
        BY <1>3, <2>1, <3>1, <4>1
    <3>2. CASE /\ dayCount' = [dayCount EXCEPT ![Chat!Today] = @ + 1]
               /\ chain[n].work = "nudge" /\ chain[n].at = "count"
      <4>1. n \in Uncounted
        BY <3>2 DEF Uncounted
      <4>2. IsFiniteSet(Uncounted') /\ Cardinality(Uncounted') = Cardinality(Uncounted) - 1
        BY <1>6, <2>1, <4>1, FS_RemoveElement
      <4>3. Cardinality(Uncounted') \in Nat
        BY <4>2, FS_CardinalityType
      <4> QED
        BY <1>3, <2>1, <3>2, <4>2, <4>3
    <3> QED
      BY <3>1, <3>2
  <2>5. MaxPerDay \in Nat /\ upsets \in Nat /\ nudged[Chat!Today] \in Nat
        /\ dayCount[Chat!Today] \in Nat /\ dayCount'[Chat!Today] \in Nat
    BY <1>3, <1>9, ChatFacts DEF ChatInv, ChatTypes
  <2>6. Cardinality(Away') <= upsets
    BY <2>1, <2>2, <2>5 DEF ChatInv, NudgeCounts
  <2>7. nudged[Chat!Today] + Cardinality(Away') <= dayCount'[Chat!Today] + Cardinality(Uncounted') + upsets
    BY <2>1, <2>2, <2>4, <2>5 DEF ChatInv, NudgeCounts
  <2>8. nudged[Chat!Today] + Cardinality(Unsent') <= MaxPerDay + upsets
    BY <2>1, <2>3, <2>5 DEF ChatInv, NudgeCounts
  <2> QED
    BY <1>8, <2>2, <2>3, <2>4, <2>6, <2>7, <2>8 DEF ChatInv, NudgeCounts
<1> QED
  BY <1>1, <1>3, <1>4, <1>9, <1>10, ChatFacts, NudgeFacts, NudgeMoves

LEMMA NudgeEndsKeeps ==
    ASSUME ChatInv, NEW n \in Nodes, Chat!NudgeFails(n) \/ Chat!MarkTried(n) \/ Chat!Count(n)
    PROVE  ChatInv'
<1>1. /\ chain[n].work = "nudge" \/ scan[n] = "wait"
      /\ Chat!NudgeEnds(n)
      /\ UNCHANGED <<clock, home, ask, upsets, granted, inIndex, token, stale, owed, nudged>>
  BY DEF Chat!NudgeFails, Chat!MarkTried, Chat!Count, Chat!On, Chat!Grounds, Chat!NudgeOnly
<1>2. /\ scan[n] = "wait" /\ peerRow \in Chat!PeerRows /\ clock \in Chat!Hours
      /\ granted /\ ~stale => peerRow.approved
  BY <1>1, NudgeFacts
<1>3. peerRow' \in Chat!PeerRows /\ (granted /\ ~stale => peerRow'.approved)
  <2>1. CASE peerRow' = peerRow
    BY <1>2, <2>1
  <2>2. CASE /\ Carrying(chain[n])
             /\ peerRow' \in {Chat!Touched(chain[n].got), Chat!Tried(chain[n].got)}
    <3>1. chain[n].got \in Chat!PeerRows /\ (granted /\ ~stale => chain[n].got.approved)
      BY <2>2, Carried
    <3> QED
      BY <1>2, <2>2, <3>1, RowFacts
  <2> QED
    BY <2>1, <2>2 DEF Chat!NudgeFails, Chat!MarkTried, Chat!Count, Chat!On, Carrying
<1>4. \/ dayCount' = dayCount /\ chain[n].at \notin {"sent", "count"}
      \/ /\ dayCount' = [dayCount EXCEPT ![Chat!Today] = @ + 1]
         /\ chain[n].work = "nudge" /\ chain[n].at = "count"
  BY DEF Chat!NudgeFails, Chat!MarkTried, Chat!Count, Chat!On, Chat!Free
<1> QED
  BY <1>1, <1>2, <1>3, <1>4, TickEnds

\* A nudge lapses: one that was delivered is not counted, which costs an upset.
LEMMA LapseKeeps == ASSUME ChatInv, NEW n \in Nodes, Chat!NudgeLapses(n) PROVE ChatInv'
<1>1. /\ chain[n].work = "nudge" /\ chain[n].at \in {"send", "sent", "count"}
      /\ upsets' = upsets + 1 /\ Chat!NudgeEnds(n)
      /\ UNCHANGED <<clock, home, ask, granted, inIndex, token, stale, owed, dayCount>>
  BY DEF Chat!NudgeLapses, Chat!On
<1>2. /\ scan[n] = "wait" /\ peerRow \in Chat!PeerRows /\ clock \in Chat!Hours /\ upsets \in Nat
      /\ granted /\ ~stale => peerRow.approved
      /\ nudged \in [Chat!Days -> Nat] /\ dayCount \in [Chat!Days -> Nat] /\ Chat!Today \in Chat!Days
      /\ scan \in [Nodes -> {Chat!NoScan, "lock", "wait"}] /\ locked \in BOOLEAN
  BY <1>1, NudgeFacts
<1>3. peerRow' \in Chat!PeerRows /\ (granted /\ ~stale => peerRow'.approved)
  <2>1. CASE peerRow' = peerRow
    BY <1>2, <2>1
  <2>2. CASE Carrying(chain[n]) /\ peerRow' = Chat!Sent(chain[n].got)
    <3>1. chain[n].got \in Chat!PeerRows /\ (granted /\ ~stale => chain[n].got.approved)
      BY <2>2, Carried
    <3> QED
      BY <1>2, <2>2, <3>1, RowFacts
  <2> QED
    BY <2>1, <2>2 DEF Chat!NudgeLapses, Chat!On, Carrying
<1>4. /\ Chat!Now(n, Chat!Free) /\ scan' = [scan EXCEPT ![n] = Chat!NoScan] /\ locked' \in BOOLEAN
  BY <1>1, <1>2 DEF Chat!NudgeEnds
<1>5. chain'[n] = Chat!Free /\ \A m \in Nodes : m # n => chain'[m] = chain[m]
  BY <1>4, ChatFacts, ChainMoves DEF ChatInv
<1>6. scan'[n] = Chat!NoScan /\ \A m \in Nodes : m # n => scan'[m] = scan[m]
  BY <1>2, <1>4
<1>7. /\ Away' \subseteq Away /\ Chat!Today' = Chat!Today
      /\ Uncounted' = Uncounted \ {n} /\ Unsent' \subseteq Unsent
  <2>1. Uncounted' = Uncounted \ {n}
    BY <1>5, ChatFacts DEF Uncounted
  <2> QED
    BY <1>1, <1>6, <2>1 DEF Away, Unsent, Chat!Today
<1>8. /\ nudged' \in [Chat!Days -> Nat] /\ \A d \in Chat!Days : d # Chat!Today => nudged'[d] = nudged[d]
      /\ \/ nudged'[Chat!Today] = nudged[Chat!Today]
         \/ nudged'[Chat!Today] = nudged[Chat!Today] + 1 /\ n \notin Uncounted
  <2>1. CASE nudged' = nudged
    BY <1>2, <2>1
  <2>2. CASE nudged' = [nudged EXCEPT ![Chat!Today] = @ + 1] /\ chain[n].at = "send"
    BY <1>2, <2>2 DEF Uncounted
  <2> QED
    BY <2>1, <2>2 DEF Chat!NudgeLapses, Chat!On
<1>9. NudgeCounts'
  <2>1. /\ IsFiniteSet(Away) /\ IsFiniteSet(Uncounted) /\ IsFiniteSet(Unsent)
        /\ Cardinality(Away) \in Nat /\ Cardinality(Uncounted) \in Nat /\ Cardinality(Unsent) \in Nat
    BY FS_CardinalityType DEF ChatInv, NudgeCounts
  <2>2. IsFiniteSet(Away') /\ Cardinality(Away') <= Cardinality(Away) /\ Cardinality(Away') \in Nat
    BY <1>7, <2>1, FS_Subset, FS_CardinalityType
  <2>3. IsFiniteSet(Unsent') /\ Cardinality(Unsent') <= Cardinality(Unsent) /\ Cardinality(Unsent') \in Nat
    BY <1>7, <2>1, FS_Subset, FS_CardinalityType
  <2>4. /\ IsFiniteSet(Uncounted') /\ Cardinality(Uncounted') \in Nat
        /\ Cardinality(Uncounted) <= Cardinality(Uncounted') + 1
        /\ n \notin Uncounted => Cardinality(Uncounted) = Cardinality(Uncounted')
    <3>1. IsFiniteSet(Uncounted') /\ Uncounted \subseteq Uncounted' \cup {n}
      BY <1>7, <2>1, FS_Subset
    <3>2. n \notin Uncounted => Uncounted' = Uncounted
      BY <1>7
    <3> QED
      BY <3>1, <3>2, SizeMoves, FS_CardinalityType
  <2>5. MaxPerDay \in Nat /\ upsets \in Nat /\ nudged[Chat!Today] \in Nat /\ dayCount[Chat!Today] \in Nat
    BY <1>2, ChatFacts
  <2>6. /\ Cardinality(Away) <= upsets
        /\ nudged[Chat!Today] + Cardinality(Away) <= dayCount[Chat!Today] + Cardinality(Uncounted) + upsets
        /\ nudged[Chat!Today] + Cardinality(Unsent) <= MaxPerDay + upsets
    BY DEF ChatInv, NudgeCounts
  <2>7. nudged'[Chat!Today] + Cardinality(Away') <= dayCount[Chat!Today] + Cardinality(Uncounted') + (upsets + 1)
    BY <1>8, <2>1, <2>2, <2>4, <2>5, <2>6
  <2>8. nudged'[Chat!Today] + Cardinality(Unsent') <= MaxPerDay + (upsets + 1)
    BY <1>8, <2>1, <2>3, <2>5, <2>6
  <2>9. \A d \in Chat!Days : /\ d > Chat!Today => nudged'[d] = 0
                             /\ d < Chat!Today => nudged'[d] <= MaxPerDay + (upsets + 1)
    <3>1. \A d \in Chat!Days : d \in Int /\ nudged[d] \in Nat
      BY <1>2, DayOf DEF Chat!Days
    <3> QED
      BY <1>2, <1>8, <2>5, <3>1 DEF ChatInv, NudgeCounts
  <2>10. Cardinality(Away') <= upsets + 1
    BY <2>1, <2>2, <2>5, <2>6
  <2> QED
    BY <1>1, <1>7, <2>2, <2>3, <2>4, <2>7, <2>8, <2>9, <2>10 DEF NudgeCounts
<1> QED
  BY <1>1, <1>2, <1>3, <1>4, <1>6, <1>8, <1>9, ChatFacts, NudgeMoves

\* A tick begins to look at the peer: one more nudge may be sent, and none is
\* under way on the node the bot is on.
LEMMA LookKeeps == ASSUME ChatInv, NEW n \in Nodes, Chat!Look(n) PROVE ChatInv'
<1>1. /\ n = home /\ scan[n] = Chat!NoScan /\ Chat!Eligible
      /\ scan' = [scan EXCEPT ![n] = "lock"]
      /\ UNCHANGED <<clock, home, ask, upsets, granted, peerRow, inIndex, token, dayCount, locked, chain,
                     stale, nudged, owed>>
  BY DEF Chat!Look, Chat!Grounds
<1>2. dayCount[Chat!Today] < MaxPerDay /\ peerRow # NoRow /\ peerRow.approved
  BY <1>1 DEF Chat!Eligible, Chat!UnderCap
<1>4. scan \in [Nodes -> {Chat!NoScan, "lock", "wait"}]
  BY DEF ChatInv, ChatTypes
<1>5. scan'[n] = "lock" /\ \A m \in Nodes : m # n => scan'[m] = scan[m]
  BY <1>1, <1>4
<1>6. chain[n].work # "nudge"
  BY <1>1 DEF ChatInv, RowsThere, Chat!NoScan
<1>7. ChatTypes'
  BY <1>1, <1>4 DEF ChatInv, ChatTypes
<1>8. RowsThere'
  BY <1>1, <1>2, <1>5, <1>6 DEF ChatInv, RowsThere
<1>9. Approval'
  BY <1>1 DEF ChatInv, Approval, Chat!Behind
<1>10. Away' = Away /\ Uncounted' = Uncounted /\ Unsent' \subseteq Unsent \cup {n} /\ Chat!Today' = Chat!Today
  BY <1>1, <1>5, <1>6 DEF Away, Uncounted, Unsent, Chat!Today, Chat!NoScan
<1>11. Away = Uncounted \cup Unsent /\ Uncounted \cap Unsent = {}
  BY <1>1 DEF Away, Uncounted, Unsent, ChatInv, RowsThere, Chat!NoScan
<1>12. NudgeCounts'
  <2>1. /\ IsFiniteSet(Away) /\ IsFiniteSet(Uncounted) /\ IsFiniteSet(Unsent)
        /\ Cardinality(Away) \in Nat /\ Cardinality(Uncounted) \in Nat /\ Cardinality(Unsent) \in Nat
    BY FS_CardinalityType DEF ChatInv, NudgeCounts
  <2>2. Cardinality(Away) = Cardinality(Uncounted) + Cardinality(Unsent)
    <3>1. Cardinality(Uncounted \cap Unsent) = 0
      BY <1>11, FS_EmptySet
    <3>2. Cardinality(Uncounted \cup Unsent)
            = Cardinality(Uncounted) + Cardinality(Unsent) - Cardinality(Uncounted \cap Unsent)
      BY <2>1, FS_Union
    <3> QED
      BY <1>11, <2>1, <3>1, <3>2
  <2>3. /\ IsFiniteSet(Unsent') /\ Cardinality(Unsent') \in Nat
        /\ Cardinality(Unsent') <= Cardinality(Unsent) + 1
    BY <1>10, <2>1, SizeMoves
  <2>4. MaxPerDay \in Nat /\ upsets \in Nat /\ nudged[Chat!Today] \in Nat /\ dayCount[Chat!Today] \in Nat
    BY ChatFacts, DayOf DEF ChatInv, ChatTypes, Chat!Today
  <2>5. nudged[Chat!Today] + Cardinality(Unsent') <= MaxPerDay + upsets
    BY <1>2, <2>1, <2>2, <2>3, <2>4 DEF ChatInv, NudgeCounts
  <2> QED
    BY <1>1, <1>10, <2>1, <2>3, <2>5 DEF ChatInv, NudgeCounts
<1> QED
  BY <1>7, <1>8, <1>9, <1>12 DEF ChatInv

\* The lock is taken, or held and the tick is over; or it runs out.
LEMMA LockKeeps ==
    ASSUME ChatInv, (\E n \in Nodes : Chat!Lock(n)) \/ Chat!LockExpires
    PROVE  ChatInv'
<1>1. CASE Chat!LockExpires
  <2>1. /\ locked' = FALSE
        /\ UNCHANGED <<peerRow, inIndex, token, dayCount, ask, granted, stale, nudged, owed, clock, home,
                       chain, scan, upsets>>
    BY <1>1 DEF Chat!LockExpires, Chat!World
  <2>2. ChatTypes' /\ RowsThere' /\ Approval'
    BY <2>1 DEF ChatInv, ChatTypes, RowsThere, Approval, Chat!Behind
  <2>3. NudgeCounts'
    BY <2>1, CountsStay DEF ChatInv, Uncounted
  <2> QED
    BY <2>2, <2>3 DEF ChatInv
<1>2. ASSUME NEW n \in Nodes, Chat!Lock(n) PROVE ChatInv'
  <2>1. /\ scan[n] = "lock" /\ locked' = TRUE
        /\ \E s \in {Chat!NoScan, "wait"} : scan' = [scan EXCEPT ![n] = s]
        /\ UNCHANGED <<peerRow, inIndex, token, dayCount, ask, granted, stale, nudged, owed, clock, home,
                       chain, upsets>>
    BY <1>2 DEF Chat!Lock, Chat!Grounds
  <2>2. scan \in [Nodes -> {Chat!NoScan, "lock", "wait"}]
    BY DEF ChatInv, ChatTypes
  <2>3. scan'[n] \in {Chat!NoScan, "wait"} /\ \A m \in Nodes : m # n => scan'[m] = scan[m]
    BY <2>1, <2>2
  <2>4. ChatTypes'
    BY <2>1, <2>2 DEF ChatInv, ChatTypes
  <2>5. chain[n].work # "nudge" /\ peerRow # NoRow
    BY <2>1 DEF ChatInv, RowsThere, Chat!NoScan
  <2>6. RowsThere' /\ Approval'
    BY <2>1, <2>3, <2>5 DEF ChatInv, RowsThere, Approval, Chat!Behind
  <2>7. Away' \subseteq Away /\ Uncounted' = Uncounted /\ Unsent' \subseteq Unsent /\ Chat!Today' = Chat!Today
    BY <2>1, <2>3, <2>5 DEF Away, Uncounted, Unsent, Chat!Today, Chat!NoScan
  <2>8. NudgeCounts'
    <3>1. /\ IsFiniteSet(Away) /\ IsFiniteSet(Uncounted) /\ IsFiniteSet(Unsent)
          /\ Cardinality(Away) \in Nat /\ Cardinality(Uncounted) \in Nat /\ Cardinality(Unsent) \in Nat
      BY FS_CardinalityType DEF ChatInv, NudgeCounts
    <3>2. IsFiniteSet(Away') /\ Cardinality(Away') <= Cardinality(Away) /\ Cardinality(Away') \in Nat
      BY <2>7, <3>1, FS_Subset, FS_CardinalityType
    <3>3. IsFiniteSet(Unsent') /\ Cardinality(Unsent') <= Cardinality(Unsent) /\ Cardinality(Unsent') \in Nat
      BY <2>7, <3>1, FS_Subset, FS_CardinalityType
    <3>4. MaxPerDay \in Nat /\ upsets \in Nat /\ nudged[Chat!Today] \in Nat /\ dayCount[Chat!Today] \in Nat
      BY ChatFacts, DayOf DEF ChatInv, ChatTypes, Chat!Today
    <3> QED
      BY <2>1, <2>7, <3>1, <3>2, <3>3, <3>4 DEF ChatInv, NudgeCounts
  <2> QED
    BY <2>4, <2>6, <2>8 DEF ChatInv
<1> QED
  BY <1>1, <1>2

\* Besides a request nobody is behind.
NobodyElse(a) ==
    /\ \A n \in Nodes : ~Chat!Behind(chain[n])
    /\ \A b \in Requests \ {a} : ~Chat!Behind(ask[b])

\* A request of an owner moves on, and the row is written or not.
LEMMA RequestMoves ==
    ASSUME ChatInv, NEW a \in Requests, NEW q, AskSound(q), Chat!Goes(a, q),
           peerRow' \in Chat!PeerRows \cup {NoRow}, peerRow # NoRow => peerRow' # NoRow,
           granted' \in BOOLEAN, stale' \in BOOLEAN, inIndex' \in BOOLEAN,
           UNCHANGED <<clock, home, upsets, token, dayCount, locked, chain, scan, nudged, owed>>,
           granted' /\ ~stale' =>
               peerRow' # NoRow /\ peerRow'.approved /\ ~Chat!Behind(q) /\ NobodyElse(a)
    PROVE  ChatInv'
<1>1. NudgeCounts'
  BY CountsStay DEF ChatInv, Uncounted
<1>2. /\ ask' \in [Requests -> Asks] /\ ask'[a] = q
      /\ \A b \in Requests \ {a} : ask'[b] = ask[b]
  <2>1. ask \in [Requests -> Asks] /\ q \in Asks
    BY DEF ChatInv, ChatTypes, AskSound
  <2>2. ask' = [ask EXCEPT ![a] = q]
    BY DEF Chat!Goes
  <2> QED
    BY <2>1, <2>2
<1>3. ChatTypes'
  <2>1. \A b \in Requests : AskSound(ask[b])
    BY DEF ChatInv, ChatTypes
  <2>2. \A b \in Requests : AskSound(ask'[b])
    BY <1>2, <2>1
  <2> QED
    BY <1>2, <2>2 DEF ChatInv, ChatTypes, AskSound
<1>4. RowsThere'
  BY DEF ChatInv, RowsThere
<1>5. Approval'
  <2> SUFFICES ASSUME granted' /\ ~stale'
               PROVE  /\ peerRow' # NoRow /\ peerRow'.approved
                      /\ \A n \in Nodes : ~Chat!Behind(chain[n])'
                      /\ \A b \in Requests : ~Chat!Behind(ask'[b])
    BY DEF Approval, Chat!Behind
  <2>0. NobodyElse(a) /\ peerRow' # NoRow /\ peerRow'.approved /\ ~Chat!Behind(q)
    OBVIOUS
  <2>1. \A n \in Nodes : ~Chat!Behind(chain[n])'
    BY <2>0 DEF NobodyElse, Chat!Behind
  <2>2. ASSUME NEW b \in Requests PROVE ~Chat!Behind(ask'[b])
    <3>1. CASE b = a
      BY <1>2, <2>0, <3>1
    <3>2. CASE b # a
      <4>1. ~Chat!Behind(ask[b])
        BY <2>0, <3>2 DEF NobodyElse
      <4>2. ask'[b] = ask[b]
        BY <1>2, <3>2
      <4> QED
        BY <4>1, <4>2
    <3> QED
      BY <3>1, <3>2
  <2> QED
    BY <2>1, <2>2
<1> QED
  BY <1>1, <1>3, <1>4, <1>5 DEF ChatInv

LEMMA OwnerKeeps ==
    ASSUME ChatInv, NEW a \in Requests,
           \/ \E what \in {"approve", "on", "off"} : Chat!AskOwner(a, what)
           \/ Chat!AskCreates(a) \/ Chat!AskWrites(a) \/ Chat!AskIndexes(a) \/ Chat!AskFails(a)
    PROVE  ChatInv'
<1> USE ChatFacts
<1>1. UNCHANGED <<clock, home, upsets, token, dayCount, locked, chain, scan, nudged, owed>>
  BY DEF Chat!AskOwner, Chat!AskCreates, Chat!AskWrites, Chat!AskIndexes, Chat!AskFails, Chat!OwnerOnly
<1>2. /\ ChatTypes /\ clock \in Chat!Hours /\ peerRow \in Chat!PeerRows \cup {NoRow}
      /\ granted \in BOOLEAN /\ stale \in BOOLEAN /\ inIndex \in BOOLEAN
      /\ ask[a] \in Asks /\ AskSound(ask[a])
      /\ ask[a].at = "write" => ask[a].got \in Chat!PeerRows /\ ask[a].got # NoRow
      /\ ask[a].at # "end" => ask[a].what \in {"approve", "on", "off"}
  BY DEF ChatInv, ChatTypes, AskSound, Asks
<1>3. granted /\ ~stale =>
        peerRow # NoRow /\ peerRow.approved /\ ~Chat!Behind(ask[a]) /\ NobodyElse(a)
  BY DEF ChatInv, Approval, NobodyElse
<1>4. /\ Chat!NewPeer \in Chat!PeerRows /\ ~Chat!NewPeer.approved /\ Chat!NewPeer # NoRow
      /\ \A row \in Chat!PeerRows : row # NoRow
  BY <1>2, RowFacts
<1>5. ASSUME NEW what \in {"approve", "on", "off"}, Chat!AskOwner(a, what) PROVE ChatInv'
  <2> DEFINE q == [what |-> what, at |-> IF peerRow = NoRow THEN "create" ELSE "write", got |-> peerRow]
  <2>1. Chat!Goes(a, q) /\ UNCHANGED <<peerRow, inIndex, granted, stale>>
    BY <1>5 DEF Chat!AskOwner
  <2>2. AskSound(q)
    BY <1>2 DEF AskSound, Asks
  <2>3. granted /\ ~stale => ~Chat!Behind(q)
    BY <1>3 DEF Chat!Behind
  <2> HIDE DEF q
  <2> QED
    BY <1>1, <1>2, <1>3, <2>1, <2>2, <2>3, RequestMoves
<1>6. CASE Chat!AskCreates(a)
  <2> DEFINE q == [ask[a] EXCEPT !.at = "write", !.got = Chat!NewPeer]
  <2>1. /\ ask[a].at = "create" /\ peerRow' = Chat!NewPeer /\ UNCHANGED <<inIndex, granted, stale>>
        /\ Chat!Goes(a, Chat!NoAsk) \/ Chat!Goes(a, q)
    BY <1>6 DEF Chat!AskCreates
  <2>2. AskSound(q)
    BY <1>2, <1>4, <2>1 DEF AskSound, Asks
  <2> HIDE DEF q
  <2>3. ~(granted /\ ~stale)
    BY <1>3, <2>1 DEF Chat!Behind
  <2> QED
    BY <1>1, <1>2, <1>4, <2>1, <2>2, <2>3, RequestMoves
<1>7. ASSUME ask[a].at = "write"
      PROVE  LET row == Chat!Wish(ask[a].what, ask[a].got) IN
             /\ row \in Chat!PeerRows
             /\ ask[a].what = "approve" => row.approved
             /\ ask[a].got.approved => row.approved
  BY <1>2, <1>7 DEF Chat!Wish, Chat!PeerRows
<1>8. CASE Chat!AskWrites(a)
  <2>1. /\ ask[a].at = "write" /\ peerRow' = Chat!Wish(ask[a].what, ask[a].got) /\ UNCHANGED inIndex
    BY <1>8 DEF Chat!AskWrites
  <2>2. CASE ask[a].what = "approve"
    <3>1. /\ Chat!Goes(a, Chat!NoAsk) /\ granted' = TRUE
          /\ stale' = (stale \/ (\E n \in Nodes : Chat!Behind(chain[n]))
                              \/ \E b \in Requests \ {a} : Chat!Behind(ask[b]))
      BY <1>8, <2>2 DEF Chat!AskWrites
    <3>2. peerRow' \in Chat!PeerRows /\ peerRow'.approved
      BY <1>7, <2>1, <2>2
    <3>3. granted' /\ ~stale' => NobodyElse(a)
      BY <3>1 DEF NobodyElse
    <3>4. Chat!Goes(a, Chat!NoAsk) /\ granted' \in BOOLEAN /\ stale' \in BOOLEAN
      BY <1>2, <3>1
    <3> QED
      BY <1>1, <1>2, <1>4, <2>1, <3>3, <3>4, <3>2, RequestMoves
  <2>3. CASE ask[a].what # "approve"
    <3> DEFINE q == [ask[a] EXCEPT !.at = "index", !.got = NoRow]
    <3>1. Chat!Goes(a, q) /\ UNCHANGED <<granted, stale>>
      BY <1>8, <2>3 DEF Chat!AskWrites
    <3>2. AskSound(q) /\ ~Chat!Behind(q)
      BY <1>2, <2>1 DEF AskSound, Asks, Chat!Behind
    <3> HIDE DEF q
    <3>3. peerRow' \in Chat!PeerRows /\ (granted /\ ~stale => peerRow'.approved)
      <4>1. granted /\ ~stale => ask[a].got.approved
        BY <1>2, <1>3, <2>1 DEF Chat!Behind
      <4> QED
        BY <1>7, <2>1, <4>1
    <3> QED
      BY <1>1, <1>2, <1>3, <1>4, <2>1, <3>1, <3>2, <3>3, RequestMoves
  <2> QED
    BY <2>2, <2>3
<1>9. CASE Chat!AskIndexes(a)
  <2>1. Chat!Goes(a, Chat!NoAsk) /\ UNCHANGED <<peerRow, granted, stale>> /\ inIndex' \in BOOLEAN
    BY <1>9 DEF Chat!AskIndexes
  <2> QED
    BY <1>1, <1>2, <1>3, <2>1, RequestMoves
<1>10. CASE Chat!AskFails(a)
  <2>1. Chat!Goes(a, Chat!NoAsk) /\ UNCHANGED <<granted, stale>> /\ inIndex' \in BOOLEAN
    BY <1>2, <1>10 DEF Chat!AskFails
  <2>2. /\ peerRow' \in Chat!PeerRows \cup {NoRow} /\ (peerRow # NoRow => peerRow' # NoRow)
        /\ granted /\ ~stale => peerRow' # NoRow /\ peerRow'.approved
    <3>1. CASE peerRow' = peerRow
      BY <1>2, <1>3, <3>1
    <3>2. CASE ask[a].at = "create" /\ peerRow' = Chat!NewPeer
      BY <1>3, <1>4, <3>2 DEF Chat!Behind
    <3>3. CASE ask[a].at = "write" /\ peerRow' = Chat!Wish(ask[a].what, ask[a].got)
      <4>1. granted /\ ~stale => ask[a].got.approved
        BY <1>2, <1>3, <3>3 DEF Chat!Behind
      <4> QED
        BY <1>4, <1>7, <3>3, <4>1
    <3> QED
      BY <1>10, <3>1, <3>2, <3>3 DEF Chat!AskFails
  <2> QED
    BY <1>1, <1>2, <1>3, <2>1, <2>2, RequestMoves
<1> QED
  BY <1>5, <1>6, <1>8, <1>9, <1>10

\* An hour passes; on a new day no nudge was sent yet.
LEMMA HourKeeps == ASSUME ChatInv, Chat!HourPasses PROVE ChatInv'
<1>1. /\ clock < MaxClock /\ clock' = clock + 1
      /\ UNCHANGED <<peerRow, inIndex, token, dayCount, ask, granted, stale, nudged, owed, locked, home,
                     chain, scan, upsets>>
  BY DEF Chat!HourPasses, Chat!World
<1>2. clock \in Chat!Hours /\ clock' \in Chat!Hours
  BY <1>1, ChatFacts DEF ChatInv, ChatTypes, Chat!Hours
<1>3. ChatTypes' /\ RowsThere' /\ Approval'
  BY <1>1, <1>2 DEF ChatInv, ChatTypes, RowsThere, Approval, Chat!Behind
<1>4. /\ Chat!Today \in Chat!Days /\ Chat!Today \in Nat /\ Chat!Today' \in Chat!Days
      /\ Chat!Today' \in {Chat!Today, Chat!Today + 1}
  BY <1>1, <1>2, DayOf DEF Chat!Today
<1>5. Away' = Away /\ Uncounted' = Uncounted /\ Unsent' = Unsent
  BY <1>1 DEF Away, Uncounted, Unsent
<1>6. NudgeCounts'
  <2>1. /\ IsFiniteSet(Away) /\ IsFiniteSet(Uncounted) /\ IsFiniteSet(Unsent)
        /\ Cardinality(Away) \in Nat /\ Cardinality(Uncounted) \in Nat /\ Cardinality(Unsent) \in Nat
    BY FS_CardinalityType DEF ChatInv, NudgeCounts
  <2>2. MaxPerDay \in Nat \ {0} /\ upsets \in Nat /\ dayCount' = dayCount /\ nudged' = nudged /\ upsets' = upsets
        /\ \A d \in Chat!Days : nudged[d] \in Nat /\ dayCount[d] \in Nat /\ d \in Int
    BY <1>1, ChatFacts, DayOf DEF ChatInv, ChatTypes, Chat!Days
  <2>3. CASE Chat!Today' = Chat!Today
    BY <1>1, <1>5, <2>3 DEF ChatInv, NudgeCounts
  <2>4. CASE Chat!Today' = Chat!Today + 1
    <3>1. nudged[Chat!Today'] = 0
      BY <1>4, <2>4 DEF ChatInv, NudgeCounts
    <3>2. Cardinality(Unsent) <= Cardinality(Away) + 1
      <4>1. Unsent \subseteq Away \cup {home}
        BY DEF Unsent, Away
      <4> QED
        BY <2>1, <4>1, SizeMoves
    <3>3. /\ nudged[Chat!Today'] + Cardinality(Away) <= dayCount[Chat!Today'] + Cardinality(Uncounted) + upsets
          /\ nudged[Chat!Today'] + Cardinality(Unsent) <= MaxPerDay + upsets
      BY <1>4, <2>1, <2>2, <3>1, <3>2 DEF ChatInv, NudgeCounts
    <3>4. nudged[Chat!Today] <= MaxPerDay + upsets
      BY <1>4, <2>1, <2>2 DEF ChatInv, NudgeCounts
    <3>5. \A d \in Chat!Days : /\ d > Chat!Today' => nudged[d] = 0
                               /\ d < Chat!Today' => nudged[d] <= MaxPerDay + upsets
      BY <1>4, <2>2, <2>4, <3>4 DEF ChatInv, NudgeCounts
    <3> QED
      BY <1>5, <2>1, <2>2, <3>3, <3>5 DEF ChatInv, NudgeCounts
  <2> QED
    BY <1>4, <2>3, <2>4
<1> QED
  BY <1>3, <1>6 DEF ChatInv

\* The bot moves to another node, or a node dies with its tick and its closure:
\* each costs one upset.
LEMMA UpsetKeeps == ASSUME ChatInv, NEW n \in Nodes, Chat!Move(n) \/ Chat!Crash(n) PROVE ChatInv'
<1>1. /\ upsets' = upsets + 1
      /\ UNCHANGED <<peerRow, inIndex, token, dayCount, ask, granted, stale, nudged, owed, clock, locked>>
  BY DEF Chat!Move, Chat!Crash, Chat!World
<1>2. ChatTypes /\ Chat!Today' = Chat!Today
  BY <1>1 DEF ChatInv, Chat!Today
<1>3. /\ ChatTypes' /\ RowsThere' /\ Approval'
      /\ Away' \subseteq Away \cup {home}
      /\ Unsent' \subseteq Unsent /\ Uncounted' \subseteq Uncounted /\ Uncounted \subseteq Uncounted' \cup {n}
      /\ Away' \subseteq Away \/ Uncounted' = Uncounted
  <2>1. CASE Chat!Move(n)
    <3>1. home' = n /\ chain' = chain /\ scan' = scan
      BY <2>1 DEF Chat!Move
    <3>2. ChatTypes' /\ RowsThere' /\ Approval'
      BY <1>1, <1>2, <3>1 DEF ChatInv, ChatTypes, RowsThere, Approval, Chat!Behind
    <3> QED
      BY <3>1, <3>2 DEF Away, Unsent, Uncounted
  <2>2. CASE Chat!Crash(n)
    <3>1. home' = home /\ Chat!Now(n, Chat!Free) /\ scan' = [scan EXCEPT ![n] = Chat!NoScan]
      BY <2>2 DEF Chat!Crash
    <3>2. /\ chain' \in [Nodes -> Closures] /\ chain'[n] = Chat!Free
          /\ \A m \in Nodes : m # n => chain'[m] = chain[m]
          /\ \A m \in Nodes : ClosureSound(chain'[m])
      BY <1>2, <3>1, ChatFacts, ChainMoves
    <3>3. scan'[n] = Chat!NoScan /\ (\A m \in Nodes : m # n => scan'[m] = scan[m])
          /\ scan' \in [Nodes -> {Chat!NoScan, "lock", "wait"}]
      BY <1>2, <3>1 DEF ChatTypes
    <3>4. ChatTypes'
      BY <1>1, <1>2, <3>1, <3>2, <3>3 DEF ChatTypes
    <3>5. ~TurnBegun(Chat!Free) /\ ~Chat!Behind(Chat!Free) /\ Chat!Free.work # "nudge"
      BY ChatFacts
    <3>6. RowsThere' /\ Approval'
      BY <1>1, <3>1, <3>2, <3>3, <3>5 DEF ChatInv, RowsThere, Approval, Chat!Behind
    <3>7. Away' \subseteq Away /\ Uncounted' = Uncounted \ {n} /\ Unsent' \subseteq Unsent
      BY <3>1, <3>2, <3>3, <3>5 DEF Away, Uncounted, Unsent
    <3> QED
      BY <3>4, <3>6, <3>7
  <2> QED
    BY <2>1, <2>2
<1>4. NudgeCounts'
  <2>1. /\ IsFiniteSet(Away) /\ IsFiniteSet(Uncounted) /\ IsFiniteSet(Unsent)
        /\ Cardinality(Away) \in Nat /\ Cardinality(Uncounted) \in Nat /\ Cardinality(Unsent) \in Nat
    BY FS_CardinalityType DEF ChatInv, NudgeCounts
  <2>2. /\ IsFiniteSet(Away') /\ Cardinality(Away') \in Nat /\ Cardinality(Away') <= Cardinality(Away) + 1
        /\ Away' \subseteq Away => Cardinality(Away') <= Cardinality(Away)
    BY <1>3, <2>1, SizeMoves
  <2>3. /\ IsFiniteSet(Unsent') /\ Cardinality(Unsent') \in Nat /\ Cardinality(Unsent') <= Cardinality(Unsent)
    BY <1>3, <2>1, FS_Subset, FS_CardinalityType
  <2>4. /\ IsFiniteSet(Uncounted') /\ Cardinality(Uncounted') \in Nat
        /\ Cardinality(Uncounted) <= Cardinality(Uncounted') + 1
    <3>1. IsFiniteSet(Uncounted')
      BY <1>3, <2>1, FS_Subset
    <3> QED
      BY <1>3, <3>1, SizeMoves, FS_CardinalityType
  <2>5. MaxPerDay \in Nat /\ upsets \in Nat /\ nudged[Chat!Today] \in Nat /\ dayCount[Chat!Today] \in Nat
    BY ChatFacts, DayOf DEF ChatInv, ChatTypes, Chat!Today
  <2>6. Cardinality(Away') <= upsets + 1
    BY <2>1, <2>2, <2>5 DEF ChatInv, NudgeCounts
  <2>7. Cardinality(Away') - Cardinality(Uncounted') <= Cardinality(Away) - Cardinality(Uncounted) + 1
    BY <1>3, <2>1, <2>2, <2>4
  <2>8. nudged[Chat!Today] + Cardinality(Away') <= dayCount[Chat!Today] + Cardinality(Uncounted') + (upsets + 1)
    BY <2>1, <2>2, <2>4, <2>5, <2>7 DEF ChatInv, NudgeCounts
  <2>9. nudged[Chat!Today] + Cardinality(Unsent') <= MaxPerDay + (upsets + 1)
    BY <2>1, <2>3, <2>5 DEF ChatInv, NudgeCounts
  <2>10. \A d \in Chat!Days : /\ d > Chat!Today => nudged[d] = 0
                              /\ d < Chat!Today => nudged[d] <= MaxPerDay + (upsets + 1)
    <3>1. \A d \in Chat!Days : nudged[d] \in Nat
      BY <1>2 DEF ChatTypes
    <3> QED
      BY <2>5, <3>1 DEF ChatInv, NudgeCounts
  <2> QED
    BY <1>1, <1>2, <2>2, <2>3, <2>4, <2>6, <2>8, <2>9, <2>10 DEF NudgeCounts
<1> QED
  BY <1>3, <1>4 DEF ChatInv

LEMMA ChatInitHolds == ASSUME Chat!Init PROVE ChatInv
<1> USE ChatFacts
<1>1. /\ clock = 0 /\ 0 \in Chat!Hours
      /\ peerRow \in {NoRow, [Chat!NewPeer EXCEPT !.approved = TRUE, !.wanted = TRUE]}
      /\ inIndex = (peerRow # NoRow) /\ token = inIndex /\ granted = inIndex
      /\ dayCount = [d \in Chat!Days |-> 0] /\ nudged = dayCount
      /\ locked = FALSE /\ home \in Nodes /\ upsets = 0 /\ stale = FALSE
      /\ chain = [n \in Nodes |-> Chat!Free] /\ scan = [n \in Nodes |-> Chat!NoScan]
      /\ ask = [a \in Requests |-> Chat!NoAsk] /\ owed = [graph |-> 0, rest |-> 0]
  BY DEF Chat!Init, Chat!Hours
<1>2. peerRow # NoRow => peerRow \in Chat!PeerRows /\ peerRow.approved
  <2>1. clock \in Chat!Hours
    BY <1>1
  <2>2. Chat!NewPeer \in Chat!PeerRows
    BY <2>1, RowFacts
  <2> QED
    BY <1>1, <2>2 DEF Chat!PeerRows
<1>4. ChatTypes
  <2>1. dayCount \in [Chat!Days -> Nat] /\ nudged \in [Chat!Days -> Nat] /\ upsets \in Nat /\ clock \in Chat!Hours
    BY <1>1
  <2>2. chain \in [Nodes -> Closures] /\ (\A n \in Nodes : ClosureSound(chain[n]))
    BY <1>1
  <2>3. scan \in [Nodes -> {Chat!NoScan, "lock", "wait"}]
    BY <1>1
  <2>4. owed \in [graph : Int, rest : {0}]
    BY <1>1
  <2>5. ask \in [Requests -> Asks] /\ \A a \in Requests : AskSound(ask[a])
    BY <1>1 DEF AskSound
  <2>6. peerRow \in Chat!PeerRows \cup {NoRow}
    BY <1>2
  <2>7. inIndex \in BOOLEAN /\ token \in BOOLEAN /\ granted \in BOOLEAN
        /\ locked \in BOOLEAN /\ stale \in BOOLEAN /\ home \in Nodes
    BY <1>1
  <2> QED
    BY <2>1, <2>2, <2>3, <2>4, <2>5, <2>6, <2>7 DEF ChatTypes
<1>5. RowsThere /\ Approval
  BY <1>1, <1>2 DEF RowsThere, Approval
<1>6. NudgeCounts
  <2>1. Away = {} /\ Uncounted = {} /\ Unsent = {}
    BY <1>1 DEF Away, Uncounted, Unsent
  <2>2. IsFiniteSet({}) /\ Cardinality({}) = 0
    BY FS_EmptySet
  <2>3. Chat!Today \in Chat!Days /\ \A d \in Chat!Days : nudged[d] = 0 /\ dayCount[d] = 0
    BY <1>1, DayOf DEF Chat!Today
  <2> QED
    BY <1>1, <2>1, <2>2, <2>3 DEF NudgeCounts
<1> QED
  BY <1>4, <1>5, <1>6 DEF ChatInv

LEMMA ChatKeeps ==
    ASSUME ChatInv, [Chat!Next]_(Chat!chatVars)
    PROVE  ChatInv'
<1>1. CASE UNCHANGED Chat!chatVars
  BY <1>1, CountsStay DEF Chat!chatVars, ChatInv, ChatTypes, RowsThere, Approval, Chat!Behind, Uncounted
<1>2. ASSUME NEW n \in Nodes,
             \/ Chat!Arrive(n) \/ Chat!Create(n) \/ Chat!Store(n) \/ Chat!TurnFails(n)
             \/ Chat!Skip(n) \/ Chat!Reply(n) \/ Chat!Touch(n)
      PROVE  ChatInv'
  BY <1>2, ArriveKeeps, CreateKeeps, StoreTouchKeeps, AnswerKeeps, TurnFailsKeeps
<1>3. ASSUME NEW n \in Nodes,
             \/ Chat!BeginNudge(n) \/ Chat!Declined(n) \/ Chat!Composed(n)
             \/ Chat!NudgeTouch(n) \/ Chat!NudgeFails(n) \/ Chat!Send(n) \/ Chat!MarkSent(n)
             \/ Chat!MarkTried(n) \/ Chat!Count(n) \/ Chat!NudgeLapses(n)
      PROVE  ChatInv'
  BY <1>3, NudgeGoesOn, NudgeWrites, SendNudgeKeeps, NudgeEndsKeeps, LapseKeeps
<1>4. ASSUME NEW n \in Nodes, Chat!Look(n) \/ Chat!Lock(n) \/ Chat!Move(n) \/ Chat!Crash(n) PROVE ChatInv'
  BY <1>4, LookKeeps, LockKeeps, UpsetKeeps
<1>5. ASSUME NEW a \in Requests,
             \/ \E what \in {"approve", "on", "off"} : Chat!AskOwner(a, what)
             \/ Chat!AskCreates(a) \/ Chat!AskWrites(a) \/ Chat!AskIndexes(a) \/ Chat!AskFails(a)
      PROVE  ChatInv'
  BY <1>5, OwnerKeeps
<1>6. CASE Chat!HourPasses \/ Chat!LockExpires
  BY <1>6, HourKeeps, LockKeeps
<1> QED
  BY <1>1, <1>2, <1>3, <1>4, <1>5, <1>6, Zenon DEF Chat!Next

LEMMA ChatWell == ChatInv => Chat!TurnsKept /\ Chat!ChatTypeOK
<1> SUFFICES ASSUME ChatInv PROVE Chat!TurnsKept /\ Chat!ChatTypeOK
  OBVIOUS
<1>1. Chat!ApprovalKept
  BY DEF ChatInv, Approval, Chat!ApprovalKept
<1>2. Chat!DayCapKept
  <2> SUFFICES ASSUME NEW d \in Chat!Days PROVE nudged[d] <= MaxPerDay + upsets
    BY DEF Chat!DayCapKept
  <2>1. Chat!Today \in Int /\ d \in Int /\ nudged[d] \in Nat /\ MaxPerDay \in Nat /\ upsets \in Nat
    BY ChatFacts, DayOf DEF ChatInv, ChatTypes, Chat!Today, Chat!Days
  <2>2. Cardinality(Unsent) \in Nat
    BY FS_CardinalityType DEF ChatInv, NudgeCounts
  <2>3. CASE d = Chat!Today
    BY <2>1, <2>2, <2>3 DEF ChatInv, NudgeCounts
  <2>4. CASE d # Chat!Today
    BY <2>1, <2>4 DEF ChatInv, NudgeCounts
  <2> QED
    BY <2>3, <2>4
<1>3. Chat!TurnsBilled
  BY DEF ChatInv, ChatTypes, Chat!TurnsBilled
<1>4. Chat!ChatTypeOK
  BY DEF ChatInv, ChatTypes, Closures, Asks, AskSound, Chat!ChatTypeOK
<1> QED
  BY <1>1, <1>2, <1>3, <1>4 DEF Chat!TurnsKept

\* For any nodes, caps, lengths of a day, requests at once and settings of
\* allowUnapproved: an approval that was told of is not lost but to who was behind
\* when it was written (an unapproved copy in hand, or the row in the making); a day
\* sees no more nudges than its cap but for one for each upset (the bot moves, a
\* node dies, a nudge that was delivered is not counted because a call after it
\* failed); and the calls of an ended turn are billed once, but for the planned
\* empty answer of a graph.
THEOREM TurnsHold == ConversationSpec => []TurnsKept
<1> DEFINE I == InChat => ChatInv
<1>1. ConversationInit => I
  BY ChatInitHolds DEF ConversationInit, InChat
<1>2. I /\ [ConversationNext]_conversationVars => I'
  <2> SUFFICES ASSUME I, [ConversationNext]_conversationVars, InChat' PROVE ChatInv'
    OBVIOUS
  <2>1. InChat /\ [Chat!Next]_(Chat!chatVars)
    BY PartSteps DEF InChat
  <2> QED
    BY <2>1, ChatKeeps
<1>3. I => TurnsKept
  BY ChatWell DEF TurnsKept
<1> QED
  BY <1>1, <1>2, <1>3, PTL DEF ConversationSpec
-----------------------------------------------------------------------------
(* PeerMemory *)

\* What is kept of the first n of s.
Keeping(s, F, n, k) ==
    k = [i \in 0 .. n |-> IF i = 0 THEN <<>>
                          ELSE IF s[i] \in F THEN k[i - 1] ELSE Append(k[i - 1], s[i])]
Stepwise(s, F, k) ==
    k[0] = <<>> /\ \A i \in 1 .. Len(s) : k[i] = IF s[i] \in F THEN k[i - 1] ELSE Append(k[i - 1], s[i])

LEMMA KeptIs ==
    ASSUME NEW s, NEW F, Len(s) \in Nat
    PROVE  Stepwise(s, F, Memory!Kept(s, F))
<1> DEFINE Good == {n \in Nat : \E k : Keeping(s, F, n, k)}
<1>1. 0 \in Good
  <2> DEFINE k == [i \in 0 .. 0 |-> <<>>]
  <2>1. k = [i \in 0 .. 0 |-> IF i = 0 THEN <<>>
                              ELSE IF s[i] \in F THEN k[i - 1] ELSE Append(k[i - 1], s[i])]
    OBVIOUS
  <2> QED
    BY <2>1 DEF Keeping
<1>2. ASSUME NEW n \in 1 .. Len(s), n - 1 \in Good PROVE n \in Good
  <2>1. PICK g : Keeping(s, F, n - 1, g)
    BY <1>2
  <2>2. PICK last : last = IF s[n] \in F THEN g[n - 1] ELSE Append(g[n - 1], s[n])
    OBVIOUS
  <2> DEFINE k == [i \in 0 .. n |-> IF i = n THEN last ELSE g[i]]
  <2>3. \A i \in 0 .. (n - 1) :
           g[i] = IF i = 0 THEN <<>> ELSE IF s[i] \in F THEN g[i - 1] ELSE Append(g[i - 1], s[i])
    BY <2>1 DEF Keeping
  <2>4. ASSUME NEW i \in 0 .. n
        PROVE  k[i] = IF i = 0 THEN <<>>
                      ELSE IF s[i] \in F THEN k[i - 1] ELSE Append(k[i - 1], s[i])
    <3>1. n \in Nat /\ n # 0 /\ i \in Nat
      OBVIOUS
    <3>2. CASE i = 0
      <4>1. 0 \in 0 .. (n - 1)
        BY <3>1
      <4>2. g[0] = <<>>
        BY <2>3, <4>1
      <4> QED
        BY <3>1, <3>2, <4>2
    <3>3. CASE i # 0 /\ i # n
      <4>1. i \in 0 .. (n - 1) /\ i - 1 \in 0 .. n /\ i - 1 # n
        BY <3>1, <3>3
      <4> QED
        BY <2>3, <3>3, <4>1
    <3>4. CASE i = n
      <4>1. i - 1 \in 0 .. n /\ i - 1 # n
        BY <3>1, <3>4
      <4> QED
        BY <2>2, <3>1, <3>4, <4>1
    <3> QED
      BY <3>2, <3>3, <3>4
  <2> HIDE DEF k
  <2>5. k = [i \in 0 .. n |-> IF i = 0 THEN <<>>
                              ELSE IF s[i] \in F THEN k[i - 1] ELSE Append(k[i - 1], s[i])]
    <3>1. k = [i \in 0 .. n |-> k[i]]
      BY DEF k
    <3> QED
      BY <2>4, <3>1
  <2>6. n \in Nat
    OBVIOUS
  <2> QED
    BY <2>5, <2>6 DEF Keeping
<1>3. PICK g : Keeping(s, F, Len(s), g)
  <2>1. \A i \in 0 .. Len(s) : i \in Good
    <3> HIDE DEF Good
    <3> QED
      BY <1>1, <1>2, UpTo
  <2>2. Len(s) \in Good
    BY <2>1
  <2> QED
    BY <2>2
<1>4. PICK k : k = Memory!Kept(s, F)
  OBVIOUS
<1>5. k = [i \in 0 .. Len(s) |-> IF i = 0 THEN <<>>
                                 ELSE IF s[i] \in F THEN k[i - 1] ELSE Append(k[i - 1], s[i])]
  BY <1>3, <1>4 DEF Keeping, Memory!Kept
<1>6. Stepwise(s, F, k)
  <2>1. \A i \in 0 .. Len(s) :
           k[i] = IF i = 0 THEN <<>> ELSE IF s[i] \in F THEN k[i - 1] ELSE Append(k[i - 1], s[i])
    BY <1>5
  <2>2. 0 \in 0 .. Len(s) /\ \A i \in 1 .. Len(s) : i \in 0 .. Len(s) /\ i # 0
    OBVIOUS
  <2> QED
    BY <2>1, <2>2 DEF Stepwise
<1> QED
  BY <1>4, <1>6

Noted(s) == {s[i] : i \in DOMAIN s}

\* What is left of a list holds what it held but for F, and is not longer.
LEMMA WithoutIs ==
    ASSUME NEW S, NEW s \in Seq(S), NEW F
    PROVE  /\ Memory!Without(s, F) \in Seq(S) /\ Len(Memory!Without(s, F)) <= Len(s)
           /\ Noted(Memory!Without(s, F)) = Noted(s) \ F
<1>1. PICK k : k = Memory!Kept(s, F)
  OBVIOUS
<1>2. Len(s) \in Nat /\ DOMAIN s = 1 .. Len(s) /\ \A i \in 1 .. Len(s) : s[i] \in S
  OBVIOUS
<1>3. Stepwise(s, F, k)
  BY <1>1, <1>2, KeptIs
<1> DEFINE Firsts(i) == {s[j] : j \in 1 .. i}
           Good == {i \in 0 .. Len(s) : k[i] \in Seq(S) /\ Len(k[i]) <= i /\ Noted(k[i]) = Firsts(i) \ F}
<1>4. 0 \in Good
  <2>1. k[0] = <<>> /\ 0 \in 0 .. Len(s)
    BY <1>2, <1>3 DEF Stepwise
  <2>2. Firsts(0) = {}
    OBVIOUS
  <2>3. k[0] \in Seq(S) /\ Len(k[0]) = 0
    BY <2>1
  <2>4. Noted(k[0]) = {}
    BY <2>3 DEF Noted
  <2>5. Noted(k[0]) = Firsts(0) \ F
    BY <2>2, <2>4
  <2>6. Len(k[0]) <= 0
    BY <2>3
  <2> QED
    BY <2>1, <2>3, <2>5, <2>6
<1>5. ASSUME NEW i \in 1 .. Len(s), i - 1 \in Good PROVE i \in Good
  <2>1. /\ k[i - 1] \in Seq(S) /\ Len(k[i - 1]) <= i - 1 /\ Noted(k[i - 1]) = Firsts(i - 1) \ F
        /\ i \in 0 .. Len(s) /\ i \in Nat
    BY <1>5
  <2>2. Firsts(i) = Firsts(i - 1) \cup {s[i]}
    <3>1. 1 .. i = (1 .. (i - 1)) \cup {i}
      BY <2>1
    <3> QED
      BY <3>1
  <2>3. k[i] = IF s[i] \in F THEN k[i - 1] ELSE Append(k[i - 1], s[i])
    BY <1>3 DEF Stepwise
  <2>4. CASE s[i] \in F
    <3>1. k[i] = k[i - 1] /\ Firsts(i) \ F = Firsts(i - 1) \ F
      BY <2>2, <2>3, <2>4
    <3> QED
      BY <2>1, <3>1
  <2>5. CASE s[i] \notin F
    <3>1. k[i] = Append(k[i - 1], s[i]) /\ Firsts(i) \ F = (Firsts(i - 1) \ F) \cup {s[i]} /\ s[i] \in S
      BY <1>2, <2>2, <2>3, <2>5
    <3>2. ASSUME NEW q \in Seq(S), NEW x \in S
          PROVE  /\ Append(q, x) \in Seq(S) /\ Len(Append(q, x)) = Len(q) + 1
                 /\ Noted(Append(q, x)) = Noted(q) \cup {x}
      <4>1. /\ Append(q, x) \in Seq(S) /\ Len(Append(q, x)) = Len(q) + 1
            /\ \A j \in 1 .. Len(q) : Append(q, x)[j] = q[j]
            /\ Append(q, x)[Len(q) + 1] = x /\ Len(q) \in Nat
        OBVIOUS
      <4>2. DOMAIN q = 1 .. Len(q) /\ DOMAIN Append(q, x) = (1 .. Len(q)) \cup {Len(q) + 1}
        BY <4>1
      <4>3. PICK r : r = Append(q, x)
        OBVIOUS
      <4>4. Noted(r) = Noted(q) \cup {x}
        BY <4>1, <4>2, <4>3 DEF Noted
      <4> QED
        BY <4>1, <4>3, <4>4
    <3>3. /\ k[i] \in Seq(S) /\ Len(k[i]) = Len(k[i - 1]) + 1 /\ Len(k[i - 1]) \in Nat
          /\ Noted(k[i]) = Noted(k[i - 1]) \cup {s[i]}
      BY <2>1, <3>1, <3>2
    <3>4. Len(k[i]) <= i
      BY <2>1, <3>3
    <3>5. Noted(k[i]) = Firsts(i) \ F
      BY <2>1, <3>1, <3>3
    <3> QED
      BY <2>1, <3>3, <3>4, <3>5
  <2> QED
    BY <2>4, <2>5
<1>6. Len(s) \in Good
  <2> HIDE DEF Good
  <2>1. \A i \in 0 .. Len(s) : i \in Good
    BY <1>2, <1>4, <1>5, UpTo
  <2> QED
    BY <1>2, <2>1
<1>7. Firsts(Len(s)) = Noted(s)
  BY <1>2 DEF Noted
<1>8. Memory!Without(s, F) = k[Len(s)]
  BY <1>1 DEF Memory!Without
<1> QED
  BY <1>6, <1>7, <1>8

LEMMA FactsOf == ASSUME NEW S, NEW s \in Seq(S) PROVE Memory!Facts(s) = Noted(s)
BY DEF Memory!Facts, Memory!ToSet, Noted

LEMMA CutTo ==
    ASSUME NEW S, NEW s \in Seq(S), NEW n \in Nat
    PROVE  /\ Memory!LastOf(s, n) \in Seq(S) /\ Len(Memory!LastOf(s, n)) <= n
           /\ Memory!LastOf(s, n) = s \/ Len(Memory!LastOf(s, n)) = n
<1>1. CASE Len(s) > n
  <2>1. PICK m : m = Len(s) - n + 1
    OBVIOUS
  <2>2. m \in 1 .. Len(s) + 1 /\ Len(s) \in m - 1 .. Len(s) /\ Len(s) - m + 1 = n
    BY <1>1, <2>1
  <2>3. SubSeq(s, m, Len(s)) \in Seq(S) /\ Len(SubSeq(s, m, Len(s))) = n
    BY <2>2, SubSeqProperties
  <2>4. Memory!LastOf(s, n) = SubSeq(s, m, Len(s))
    BY <1>1, <2>1 DEF Memory!LastOf
  <2> QED
    BY <2>3, <2>4
<1>2. CASE ~(Len(s) > n)
  BY <1>2 DEF Memory!LastOf
<1> QED
  BY <1>1, <1>2

\* What was known is known after a merge, unless the cap was reached.
LEMMA MergedIs ==
    ASSUME NEW old \in Seq(FactIds), NEW found \in Seq(FactIds), MaxFacts \in Nat
    PROVE  /\ Memory!Learned(old, found) \in Seq(FactIds)
           /\ Len(Memory!Learned(old, found)) <= MaxFacts
           /\ \/ Noted(old) \subseteq Noted(Memory!Learned(old, found))
              \/ Len(Memory!Learned(old, found)) = MaxFacts
<1>1. PICK w : w = Memory!Without(old, Memory!Facts(found))
  OBVIOUS
<1>2. w \in Seq(FactIds) /\ Noted(w) = Noted(old) \ Noted(found)
  BY <1>1, WithoutIs, FactsOf
<1>3. PICK all : all = w \o found
  OBVIOUS
<1>4. all \in Seq(FactIds) /\ Noted(all) = Noted(w) \cup Noted(found)
  <2>1. /\ all \in Seq(FactIds) /\ Len(all) = Len(w) + Len(found) /\ Len(w) \in Nat /\ Len(found) \in Nat
        /\ \A i \in 1 .. Len(all) : all[i] = IF i <= Len(w) THEN w[i] ELSE found[i - Len(w)]
    BY <1>2, <1>3
  <2>2. DOMAIN all = 1 .. Len(all) /\ DOMAIN w = 1 .. Len(w) /\ DOMAIN found = 1 .. Len(found)
    BY <1>2, <2>1
  <2>3. ASSUME NEW x \in Noted(all) PROVE x \in Noted(w) \cup Noted(found)
    <3>1. PICK i \in 1 .. Len(all) : x = all[i]
      BY <2>2 DEF Noted
    <3>2. CASE i <= Len(w)
      BY <2>1, <2>2, <3>1, <3>2 DEF Noted
    <3>3. CASE ~(i <= Len(w))
      <4>1. i - Len(w) \in DOMAIN found /\ x = found[i - Len(w)]
        BY <2>1, <2>2, <3>1, <3>3
      <4> QED
        BY <4>1 DEF Noted
    <3> QED
      BY <3>2, <3>3
  <2>4. ASSUME NEW x \in Noted(w) PROVE x \in Noted(all)
    <3>1. PICK i \in 1 .. Len(w) : x = w[i]
      BY <2>2 DEF Noted
    <3>2. i \in DOMAIN all /\ all[i] = x
      BY <2>1, <2>2, <3>1
    <3> QED
      BY <3>2 DEF Noted
  <2>5. ASSUME NEW x \in Noted(found) PROVE x \in Noted(all)
    <3>1. PICK i \in 1 .. Len(found) : x = found[i]
      BY <2>2 DEF Noted
    <3>2. i + Len(w) \in 1 .. Len(all) /\ ~(i + Len(w) <= Len(w)) /\ (i + Len(w)) - Len(w) = i
      BY <2>1, <3>1
    <3>3. i + Len(w) \in DOMAIN all /\ all[i + Len(w)] = x
      BY <2>1, <2>2, <3>1, <3>2
    <3> QED
      BY <3>3 DEF Noted
  <2> QED
    BY <2>1, <2>3, <2>4, <2>5
<1>5. Memory!Learned(old, found) = Memory!LastOf(all, MaxFacts)
  BY <1>1, <1>3 DEF Memory!Learned, Memory!Merged
<1>6. Noted(old) \subseteq Noted(all)
  BY <1>2, <1>4
<1>7. PICK r : r = Memory!LastOf(all, MaxFacts)
  OBVIOUS
<1>8. r \in Seq(FactIds) /\ Len(r) <= MaxFacts /\ (r = all \/ Len(r) = MaxFacts)
  BY <1>4, <1>7, CutTo
<1>9. Noted(old) \subseteq Noted(r) \/ Len(r) = MaxFacts
  BY <1>6, <1>8
<1> QED
  BY <1>5, <1>7, <1>8, <1>9

Rewrites(e) == extract[e].at # "end"
Requested(o) == order[o].at # "end"
Alone ==
    /\ \A e, f \in Extractions : Rewrites(e) /\ Rewrites(f) => e = f
    /\ \A o, p \in Owners : Requested(o) /\ Requested(p) => o = p
    /\ \A e \in Extractions, o \in Owners : ~(Rewrites(e) /\ Requested(o))
Fresh ==
    /\ \A e \in Extractions : extract[e].at = "model" => extract[e].read = memory
    /\ \A o \in Owners : order[o].at = "delete" => order[o].read = memory
Extracting == [at : {"end", "read", "model"}, read : Seq(FactIds)]
Ordering == [what : {"none", "delete", "reset", "clear"},
             at : {"end", "delete", "reset", "clear", "clearCount"},
             read : Seq(FactIds), fact : FactIds \cup {"none"}]

\* While no two rewrites of the facts were ever under way together, the one that
\* is under way has read the facts as they are.
MemoryInv ==
    /\ history \in Seq({"user", "assistant"})
    /\ userCount \in Nat /\ said \in Nat /\ userCount <= said /\ said <= MaxSaid
    /\ memory \in Seq(FactIds) /\ Len(memory) <= MaxFacts
    /\ extract \in [Extractions -> Extracting]
    /\ order \in [Owners -> Ordering] /\ \A o \in Owners : Len(order[o].read) <= MaxFacts
    /\ crossed \in BOOLEAN
    /\ ~crossed => Alone /\ Fresh

LEMMA MemoryFacts == {EveryN, MaxFacts} \subseteq Nat \ {0} /\ MaxSaid \in Nat
BY ConversationAssumption DEF Memory!MemoryAssumption

LEMMA MemoryInitHolds == ASSUME Memory!MemoryInit PROVE MemoryInv
<1>1. /\ history = <<>> /\ userCount = 0 /\ memory = <<>> /\ said = 0 /\ crossed = FALSE
      /\ extract = [e \in Extractions |-> Memory!IdleExtract]
      /\ order = [o \in Owners |-> Memory!IdleOrder]
  BY DEF Memory!MemoryInit
<1>2. Memory!IdleExtract \in Extracting /\ Memory!IdleExtract.at = "end"
  BY DEF Memory!IdleExtract, Extracting
<1>3. /\ Memory!IdleOrder \in Ordering /\ Memory!IdleOrder.at = "end"
      /\ Len(Memory!IdleOrder.read) <= MaxFacts
  <2>1. Memory!IdleOrder.read = <<>> /\ Len(<<>>) = 0 /\ MaxFacts \in Nat
    BY MemoryFacts DEF Memory!IdleOrder
  <2> QED
    BY <2>1 DEF Memory!IdleOrder, Ordering
<1>4. history \in Seq({"user", "assistant"}) /\ memory \in Seq(FactIds) /\ Len(memory) <= MaxFacts
  BY <1>1, MemoryFacts
<1>5. Alone /\ Fresh
  <2>1. /\ \A e \in Extractions : extract[e].at = "end"
        /\ \A o \in Owners : order[o].at = "end"
    BY <1>1, <1>2, <1>3
  <2> QED
    BY <2>1 DEF Alone, Fresh, Rewrites, Requested
<1>6. /\ userCount \in Nat /\ said \in Nat /\ userCount <= said /\ said <= MaxSaid
      /\ crossed \in BOOLEAN
  <2>1. userCount = 0 /\ said = 0 /\ MaxSaid \in Nat
    BY <1>1, MemoryFacts
  <2>2. crossed \in BOOLEAN
    BY <1>1
  <2> QED
    BY <2>1, <2>2
<1>7. /\ extract \in [Extractions -> Extracting] /\ order \in [Owners -> Ordering]
      /\ \A o \in Owners : Len(order[o].read) <= MaxFacts
  BY <1>1, <1>2, <1>3
<1> QED
  BY <1>4, <1>5, <1>6, <1>7 DEF MemoryInv

\* The rewrites that are under way go on alone when others only end.
LEMMA AloneStays ==
    ASSUME Alone,
           \A e \in Extractions : Rewrites(e)' => Rewrites(e),
           \A o \in Owners : Requested(o)' => Requested(o)
    PROVE  Alone'
BY DEF Alone

\* One that begins when there is none is alone.
LEMMA BeginsAlone ==
    ASSUME ~crossed', crossed' = (crossed \/ Memory!Rewriting)
    PROVE  /\ ~crossed /\ \A e \in Extractions : ~Rewrites(e)
           /\ \A o \in Owners : ~Requested(o)
<1>1. ~crossed /\ ~Memory!Rewriting
  OBVIOUS
<1> QED
  BY <1>1 DEF Memory!Rewriting, Rewrites, Requested

\* The steps of an extraction.
LEMMA ExtractFields ==
    ASSUME extract \in [Extractions -> Extracting], NEW e \in Extractions, NEW x \in Extracting,
           extract' = [extract EXCEPT ![e] = x]
    PROVE  /\ extract' \in [Extractions -> Extracting] /\ extract'[e] = x
           /\ \A f \in Extractions : f # e => extract'[f] = extract[f]
OBVIOUS

LEMMA OrderFields ==
    ASSUME order \in [Owners -> Ordering], NEW o \in Owners, NEW x \in Ordering,
           Len(x.read) <= MaxFacts, \A p \in Owners : Len(order[p].read) <= MaxFacts,
           order' = [order EXCEPT ![o] = x]
    PROVE  /\ order' \in [Owners -> Ordering] /\ order'[o] = x
           /\ \A p \in Owners : p # o => order'[p] = order[p]
           /\ \A p \in Owners : Len(order'[p].read) <= MaxFacts
<1>1. /\ order' \in [Owners -> Ordering] /\ order'[o] = x
      /\ \A p \in Owners : p # o => order'[p] = order[p]
  OBVIOUS
<1> QED
  BY <1>1

LEMMA Idle ==
    /\ Memory!IdleExtract \in Extracting /\ Memory!IdleExtract.at = "end"
    /\ Memory!IdleOrder \in Ordering /\ Memory!IdleOrder.at = "end"
    /\ Len(Memory!IdleOrder.read) <= MaxFacts
<1>1. Memory!IdleExtract \in Extracting /\ Memory!IdleExtract.at = "end"
  BY DEF Memory!IdleExtract, Extracting
<1>2. Memory!IdleOrder \in Ordering /\ Memory!IdleOrder.at = "end"
  BY DEF Memory!IdleOrder, Ordering
<1>3. Memory!IdleOrder.read = <<>> /\ MaxFacts \in Nat
  BY MemoryFacts DEF Memory!IdleOrder
<1>4. Len(Memory!IdleOrder.read) = 0
  BY <1>3
<1> QED
  BY <1>1, <1>2, <1>3, <1>4

LEMMA TurnKeeps ==
    ASSUME MemoryInv, Memory!Answered \/ Memory!Unanswered
    PROVE  MemoryInv'
<1>1. /\ said < MaxSaid /\ said' = said + 1 /\ userCount' = userCount + 1
      /\ UNCHANGED <<memory, order>>
  BY DEF Memory!Answered, Memory!Unanswered
<1>2. /\ said' \in Nat /\ userCount' \in Nat /\ userCount' <= said' /\ said' <= MaxSaid
  BY <1>1, MemoryFacts DEF MemoryInv
<1>3. history' \in Seq({"user", "assistant"})
  <2>1. PICK both : both = <<"user", "assistant">>
    OBVIOUS
  <2>2. both \in Seq({"user", "assistant"}) /\ history \in Seq({"user", "assistant"})
    BY <2>1 DEF MemoryInv
  <2>3. history' = history \o both \/ history' = Append(history, "user")
    BY <2>1 DEF Memory!Answered, Memory!Unanswered
  <2>4. history \o both \in Seq({"user", "assistant"})
    BY <2>2
  <2>5. Append(history, "user") \in Seq({"user", "assistant"})
    BY <2>2
  <2> QED
    BY <2>3, <2>4, <2>5
<1>4. /\ extract' \in [Extractions -> Extracting] /\ crossed' \in BOOLEAN
      /\ ~crossed' => Alone' /\ Fresh'
  <2>1. CASE UNCHANGED <<extract, crossed>>
    BY <1>1, <2>1 DEF MemoryInv, Alone, Fresh, Rewrites, Requested
  <2>2. CASE \E e \in Extractions :
                /\ extract[e].at = "end" /\ extract' = [extract EXCEPT ![e].at = "read"]
                /\ crossed' = (crossed \/ Memory!Rewriting)
    <3>1. PICK e \in Extractions :
                /\ extract[e].at = "end" /\ extract' = [extract EXCEPT ![e].at = "read"]
                /\ crossed' = (crossed \/ Memory!Rewriting)
      BY <2>2
    <3>2. /\ extract' \in [Extractions -> Extracting] /\ extract'[e].at = "read"
          /\ \A f \in Extractions : f # e => extract'[f] = extract[f]
      BY <3>1 DEF MemoryInv, Extracting
    <3>3. crossed' \in BOOLEAN
      BY <3>1 DEF Memory!Rewriting
    <3>4. ASSUME ~crossed' PROVE Alone' /\ Fresh'
      <4>1. /\ ~crossed /\ \A f \in Extractions : ~Rewrites(f)
            /\ \A o \in Owners : ~Requested(o)
        BY <3>1, <3>4, BeginsAlone
      <4>2. Alone'
        BY <1>1, <3>2, <4>1 DEF Alone, Rewrites, Requested
      <4>3. Fresh'
        BY <1>1, <3>2, <4>1 DEF MemoryInv, Fresh, Rewrites
      <4> QED
        BY <4>2, <4>3
    <3> QED
      BY <3>2, <3>3, <3>4
  <2> QED
    BY <2>1, <2>2 DEF Memory!Answered, Memory!Unanswered
<1> QED
  BY <1>1, <1>2, <1>3, <1>4 DEF MemoryInv

LEMMA ExtractKeeps ==
    ASSUME MemoryInv, NEW e \in Extractions,
           Memory!ReadsFacts(e) \/ Memory!Extracted(e) \/ Memory!ExtractFails(e)
    PROVE  MemoryInv' /\ Memory!FactsStay
<1>0. MaxFacts \in Nat
  BY MemoryFacts
<1>1. /\ UNCHANGED <<history, userCount, order, said, orders, crossed>>
      /\ extract[e].at # "end" /\ extract[e] \in Extracting
  BY DEF Memory!ReadsFacts, Memory!Extracted, Memory!ExtractFails, MemoryInv
<1>2. CASE Memory!ReadsFacts(e)
  <2>1. PICK x : x = [at |-> "model", read |-> memory]
    OBVIOUS
  <2>2. x \in Extracting /\ x.at = "model" /\ x.read = memory
    BY <2>1 DEF MemoryInv, Extracting
  <2>3. extract' = [extract EXCEPT ![e] = x] /\ memory' = memory
    BY <1>2, <2>1 DEF Memory!ReadsFacts
  <2>4. /\ extract' \in [Extractions -> Extracting] /\ extract'[e] = x
        /\ \A f \in Extractions : f # e => extract'[f] = extract[f]
    BY <2>2, <2>3, ExtractFields DEF MemoryInv
  <2>5. Alone => Alone'
    BY <1>1, <2>4, AloneStays DEF Rewrites, Requested
  <2>6. Fresh => Fresh'
    BY <1>1, <2>2, <2>3, <2>4 DEF Fresh
  <2>7. MemoryInv'
    BY <1>1, <2>3, <2>4, <2>5, <2>6 DEF MemoryInv
  <2>8. Memory!FactsStay
    BY <2>3 DEF Memory!FactsStay
  <2> QED
    BY <2>7, <2>8
<1>3. CASE Memory!Extracted(e) \/ Memory!ExtractFails(e)
  <2>1. extract' = [extract EXCEPT ![e] = Memory!IdleExtract]
    BY <1>3 DEF Memory!Extracted, Memory!ExtractFails
  <2>2. /\ extract' \in [Extractions -> Extracting] /\ extract'[e].at = "end"
        /\ \A f \in Extractions : f # e => extract'[f] = extract[f]
    BY <2>1, Idle, ExtractFields DEF MemoryInv
  <2>3. Alone => Alone'
    BY <1>1, <2>2, AloneStays DEF Rewrites, Requested
  <2>4. /\ memory' \in Seq(FactIds) /\ Len(memory') <= MaxFacts
        /\ \/ memory' = memory
           \/ /\ extract[e].at = "model"
              /\ Noted(extract[e].read) \subseteq Noted(memory') \/ Len(memory') = MaxFacts
    <3>1. CASE memory' = memory
      BY <3>1 DEF MemoryInv
    <3>2. CASE memory' # memory
      <4>1. PICK found \in {<<>>} \cup {<<f>> : f \in FactIds} :
               memory' = Memory!Learned(extract[e].read, found)
        <5>1. Memory!Extracted(e)
          BY <1>3, <3>2 DEF Memory!ExtractFails
        <5>2. PICK found \in {<<>>} \cup {<<f>> : f \in FactIds} :
                 memory' = IF Memory!Learned(extract[e].read, found) = <<>> THEN memory
                           ELSE Memory!Learned(extract[e].read, found)
          BY <5>1 DEF Memory!Extracted
        <5> QED
          BY <3>2, <5>2
      <4>2. found \in Seq(FactIds)
        <5>1. CASE found = <<>>
          BY <5>1
        <5>2. CASE found \in {<<f>> : f \in FactIds}
          <6>1. PICK f \in FactIds : found = <<f>>
            BY <5>2
          <6> QED
            BY <6>1
        <5> QED
          BY <5>1, <5>2
      <4>3. extract[e].read \in Seq(FactIds)
        BY <1>1 DEF Extracting
      <4>4. extract[e].at = "model"
        BY <1>3 DEF Memory!Extracted, Memory!ExtractFails
      <4> QED
        BY <1>0, <4>1, <4>2, <4>3, <4>4, MergedIs
    <3> QED
      BY <3>1, <3>2
  <2>5. ASSUME ~crossed PROVE Fresh'
    <3>1. Alone /\ Fresh
      BY <2>5 DEF MemoryInv
    <3>2. \A o \in Owners : ~Requested(o)
      BY <1>1, <3>1 DEF Alone, Rewrites
    <3>3. \A f \in Extractions : f # e => ~Rewrites(f)
      BY <1>1, <3>1 DEF Alone, Rewrites
    <3> QED
      BY <1>1, <2>2, <3>2, <3>3 DEF Fresh, Rewrites, Requested
  <2>6. MemoryInv'
    <3>1. ~crossed' => Alone' /\ Fresh'
      BY <1>1, <2>3, <2>5 DEF MemoryInv
    <3> QED
      BY <1>1, <2>2, <2>4, <3>1 DEF MemoryInv
  <2>7. Memory!FactsStay
    <3>1. SUFFICES ASSUME ~crossed', NEW f \in Memory!Facts(memory) \ Memory!Facts(memory')
                   PROVE  Len(memory') = MaxFacts
      BY DEF Memory!FactsStay
    <3>2. Fresh
      BY <1>1, <3>1 DEF MemoryInv
    <3>3. f \in Noted(memory) \ Noted(memory')
      BY <2>4, <3>1, FactsOf DEF MemoryInv
    <3>4. extract[e].at = "model" => extract[e].read = memory
      BY <3>2 DEF Fresh
    <3> QED
      BY <2>4, <3>3, <3>4
  <2> QED
    BY <2>6, <2>7
<1> QED
  BY <1>2, <1>3

\* A step that ends the owner's request o, or takes it to its second half.
Ends(o) ==
    /\ order' \in [Owners -> Ordering] /\ \A p \in Owners : Len(order'[p].read) <= MaxFacts
    /\ Requested(o) /\ order'[o].at \in {"end", "clearCount"}
    /\ \A p \in Owners : p # o => order'[p] = order[p]

LEMMA EndsFields ==
    ASSUME MemoryInv, NEW o \in Owners,
           Memory!Delete(o) \/ Memory!Reset(o) \/ Memory!Clear(o) \/ Memory!ClearCount(o)
    PROVE  Ends(o)
<1>1. order[o] \in Ordering /\ Len(order[o].read) <= MaxFacts
  BY DEF MemoryInv
<1>2. PICK x : x = [order[o] EXCEPT !.at = "clearCount"]
  OBVIOUS
<1>3. x \in Ordering /\ x.at = "clearCount" /\ Len(x.read) <= MaxFacts
  BY <1>1, <1>2 DEF Ordering
<1>4. Requested(o)
  BY DEF Memory!Delete, Memory!Reset, Memory!Clear, Memory!ClearCount, Requested
<1>5. CASE order' = [order EXCEPT ![o] = Memory!IdleOrder]
  BY <1>4, <1>5, Idle, OrderFields DEF Ends, MemoryInv
<1>6. CASE order' = [order EXCEPT ![o].at = "clearCount"]
  <2>1. order' = [order EXCEPT ![o] = x]
    BY <1>2, <1>6
  <2> QED
    BY <1>3, <1>4, <2>1, OrderFields DEF Ends, MemoryInv
<1> QED
  BY <1>5, <1>6 DEF Memory!Delete, Memory!Reset, Memory!Clear, Memory!ClearCount, Memory!Ordered

LEMMA EndedKeeps ==
    ASSUME MemoryInv, NEW o \in Owners, Ends(o), UNCHANGED <<extract, crossed>>, ~crossed
    PROVE  Alone' /\ Fresh'
<1>1. Alone
  BY DEF MemoryInv
<1>2. Alone'
  BY <1>1, AloneStays DEF Ends, Rewrites, Requested
<1>3. /\ \A e \in Extractions : ~Rewrites(e)
      /\ \A p \in Owners : p # o => ~Requested(p)
  BY <1>1 DEF Alone, Ends
<1>4. Fresh'
  BY <1>3 DEF Fresh, Ends, Rewrites, Requested
<1> QED
  BY <1>2, <1>4

LEMMA OrderEndsKeeps ==
    ASSUME MemoryInv, NEW o \in Owners,
           Memory!Delete(o) \/ Memory!Reset(o) \/ Memory!Clear(o) \/ Memory!ClearCount(o)
    PROVE  MemoryInv' /\ Memory!FactsStay
<1>1. Ends(o) /\ UNCHANGED <<extract, crossed, said, orders>>
  BY EndsFields DEF Memory!Delete, Memory!Reset, Memory!Clear, Memory!ClearCount
<1>2. ~crossed' => Alone' /\ Fresh'
  BY <1>1, EndedKeeps
<1>3. order[o] \in Ordering /\ Len(order[o].read) <= MaxFacts /\ MaxFacts \in Nat
  BY MemoryFacts DEF MemoryInv
<1>4. /\ memory' \in Seq(FactIds) /\ Len(memory') <= MaxFacts
      /\ \/ memory' = memory
         \/ order[o].at = "reset"
         \/ order[o].at = "delete" /\ Noted(memory') = Noted(order[o].read) \ {order[o].fact}
  <2>1. CASE Memory!Delete(o)
    <3>1. PICK r : r = order[o].read
      OBVIOUS
    <3>2. r \in Seq(FactIds) /\ Len(r) <= MaxFacts /\ Len(r) \in Nat
      BY <1>3, <3>1 DEF Ordering
    <3>3. order[o].at = "delete" /\ memory' = Memory!Without(r, {order[o].fact})
      BY <2>1, <3>1 DEF Memory!Delete
    <3>4. /\ memory' \in Seq(FactIds) /\ Len(memory') <= Len(r)
          /\ Noted(memory') = Noted(r) \ {order[o].fact}
      BY <3>2, <3>3, WithoutIs
    <3>5. Len(memory') \in Nat
      BY <3>4
    <3>6. Len(memory') <= MaxFacts
      BY <1>3, <3>2, <3>4, <3>5
    <3> QED
      BY <3>1, <3>3, <3>4, <3>6
  <2>2. CASE Memory!Reset(o)
    <3>1. order[o].at = "reset" /\ memory' = <<>>
      BY <2>2 DEF Memory!Reset
    <3>2. memory' \in Seq(FactIds) /\ Len(memory') = 0
      BY <3>1
    <3> QED
      BY <1>3, <3>1, <3>2
  <2>3. CASE Memory!Clear(o) \/ Memory!ClearCount(o)
    BY <2>3 DEF Memory!Clear, Memory!ClearCount, MemoryInv
  <2> QED
    BY <2>1, <2>2, <2>3
<1>5. history' \in Seq({"user", "assistant"})
  <2>1. history' = history \/ history' = <<>>
    BY DEF Memory!Delete, Memory!Reset, Memory!Clear, Memory!ClearCount
  <2>2. CASE history' = <<>>
    BY <2>2
  <2> QED
    BY <2>1, <2>2 DEF MemoryInv
<1>6. userCount' \in Nat /\ userCount' <= said
  <2>1. userCount' = userCount \/ userCount' = 0
    BY DEF Memory!Delete, Memory!Reset, Memory!Clear, Memory!ClearCount
  <2> QED
    BY <2>1 DEF MemoryInv
<1>7. MemoryInv'
  BY <1>1, <1>2, <1>4, <1>5, <1>6 DEF MemoryInv, Ends
<1>8. Memory!FactsStay
  <2>1. SUFFICES ASSUME ~crossed', NEW f \in Memory!Facts(memory) \ Memory!Facts(memory')
                 PROVE  \/ order[o].at = "reset"
                        \/ order[o].at = "delete" /\ order[o].fact = f
    BY DEF Memory!FactsStay
  <2>2. Fresh
    BY <1>1, <2>1 DEF MemoryInv
  <2>3. f \in Noted(memory) \ Noted(memory')
    BY <1>4, <2>1, FactsOf DEF MemoryInv
  <2>4. order[o].at = "delete" => order[o].read = memory
    BY <2>2 DEF Fresh
  <2> QED
    BY <1>4, <2>3, <2>4
<1> QED
  BY <1>7, <1>8

LEMMA RequestKeeps ==
    ASSUME MemoryInv, NEW o \in Owners,
           \/ \E f \in FactIds : Memory!AskDelete(o, f)
           \/ Memory!AskReset(o) \/ Memory!AskClear(o)
    PROVE  MemoryInv' /\ Memory!FactsStay
<1>1. PICK what \in {"delete", "reset", "clear"}, fact \in FactIds \cup {"none"}, read \in Seq(FactIds) :
         /\ Memory!Order(o, what, fact, read) /\ (what = "delete" => read = memory)
         /\ Len(read) <= MaxFacts
  <2>1. CASE \E f \in FactIds : Memory!AskDelete(o, f)
    <3>1. PICK f \in FactIds : Memory!Order(o, "delete", f, memory)
      BY <2>1 DEF Memory!AskDelete
    <3> QED
      BY <3>1 DEF MemoryInv
  <2>2. CASE Memory!AskReset(o) \/ Memory!AskClear(o)
    <3>1. PICK none : none = <<>>
      OBVIOUS
    <3>2. none \in Seq(FactIds) /\ Len(none) = 0 /\ MaxFacts \in Nat
      BY <3>1, MemoryFacts
    <3>3. Memory!Order(o, "reset", "none", none) \/ Memory!Order(o, "clear", "none", none)
      BY <2>2, <3>1 DEF Memory!AskReset, Memory!AskClear
    <3>4. Len(none) <= MaxFacts
      BY <3>2
    <3> QED
      BY <3>2, <3>3, <3>4
  <2> QED
    BY <2>1, <2>2
<1>2. PICK x : x = [what |-> what, at |-> what, read |-> read, fact |-> fact]
  OBVIOUS
<1>3. x \in Ordering /\ x.at = what /\ x.read = read /\ Len(x.read) <= MaxFacts
  BY <1>1, <1>2 DEF Ordering
<1>4. /\ order' = [order EXCEPT ![o] = x] /\ crossed' = (crossed \/ Memory!Rewriting)
      /\ UNCHANGED <<history, userCount, memory, extract, said>>
  BY <1>1, <1>2 DEF Memory!Order
<1>5. /\ order' \in [Owners -> Ordering] /\ order'[o] = x
      /\ \A p \in Owners : p # o => order'[p] = order[p]
      /\ \A p \in Owners : Len(order'[p].read) <= MaxFacts
  BY <1>3, <1>4, OrderFields DEF MemoryInv
<1>6. crossed' \in BOOLEAN
  BY <1>4 DEF Memory!Rewriting
<1>7. ASSUME ~crossed' PROVE Alone' /\ Fresh'
  <2>1. /\ \A e \in Extractions : ~Rewrites(e)
        /\ \A p \in Owners : ~Requested(p)
    BY <1>4, <1>7, BeginsAlone
  <2>2. Alone'
    BY <1>4, <1>5, <2>1 DEF Alone, Rewrites, Requested
  <2>3. Fresh'
    BY <1>1, <1>3, <1>4, <1>5, <2>1 DEF Fresh, Rewrites, Requested
  <2> QED
    BY <2>2, <2>3
<1>8. MemoryInv'
  BY <1>4, <1>5, <1>6, <1>7 DEF MemoryInv
<1> QED
  BY <1>4, <1>8 DEF Memory!FactsStay

LEMMA MemoryKeeps ==
    ASSUME MemoryInv, [Memory!MemoryNext]_(Memory!memoryVars)
    PROVE  MemoryInv' /\ Memory!FactsStay
<1>1. CASE UNCHANGED Memory!memoryVars
  BY <1>1 DEF Memory!memoryVars, MemoryInv, Alone, Fresh, Rewrites, Requested, Memory!FactsStay
<1>2. CASE Memory!Answered \/ Memory!Unanswered
  <2>1. memory' = memory
    BY <1>2 DEF Memory!Answered, Memory!Unanswered
  <2> QED
    BY <1>2, <2>1, TurnKeeps DEF Memory!FactsStay
<1>3. CASE \E e \in Extractions : Memory!ReadsFacts(e) \/ Memory!Extracted(e) \/ Memory!ExtractFails(e)
  BY <1>3, ExtractKeeps
<1>4. CASE \E o \in Owners : \/ \E f \in FactIds : Memory!AskDelete(o, f)
                             \/ Memory!AskReset(o) \/ Memory!AskClear(o)
  BY <1>4, RequestKeeps
<1>5. CASE \E o \in Owners : Memory!Delete(o) \/ Memory!Reset(o) \/ Memory!Clear(o) \/ Memory!ClearCount(o)
  BY <1>5, OrderEndsKeeps
<1> QED
  BY <1>1, <1>2, <1>3, <1>4, <1>5 DEF Memory!MemoryNext

LEMMA MemoryWell == MemoryInv => Memory!MemoryTypeOK
<1> SUFFICES ASSUME MemoryInv PROVE Memory!MemoryTypeOK
  OBVIOUS
<1>1. userCount \in 0 .. MaxSaid
  BY MemoryFacts DEF MemoryInv
<1>2. Memory!Facts(memory) \subseteq FactIds
  <2>1. Memory!Facts(memory) = Noted(memory) /\ \A i \in DOMAIN memory : memory[i] \in FactIds
    BY FactsOf DEF MemoryInv
  <2> QED
    BY <2>1 DEF Noted
<1>3. \A e \in Extractions : extract[e].at \in {"end", "read", "model"}
  BY DEF MemoryInv, Extracting
<1> QED
  BY <1>1, <1>2, <1>3 DEF MemoryInv, Memory!MemoryTypeOK

\* For any facts, caps and requests: a fact that was stored is forgotten only when
\* the owner takes it away or newer ones fill the list, as long as no two rewrites
\* of the list overlap.
THEOREM FactsHold == ConversationSpec => FactsKept
<1> DEFINE I == InMemory => MemoryInv
<1>1. ConversationInit => I
  BY MemoryInitHolds DEF ConversationInit, InMemory
<1>2. I /\ [ConversationNext]_conversationVars => I' /\ [InMemory => Memory!FactsStay]_conversationVars
  <2>1. ASSUME I, [ConversationNext]_conversationVars, InMemory' PROVE MemoryInv'
    <3>1. InMemory /\ [Memory!MemoryNext]_(Memory!memoryVars)
      BY <2>1, PartSteps DEF InMemory
    <3> QED
      BY <2>1, <3>1, MemoryKeeps
  <2>2. ASSUME I, [ConversationNext]_conversationVars, InMemory PROVE Memory!FactsStay
    <3>1. [Memory!MemoryNext]_(Memory!memoryVars)
      BY <2>2, PartSteps DEF InMemory
    <3> QED
      BY <2>2, <3>1, MemoryKeeps
  <2> QED
    BY <2>1, <2>2
<1> QED
  BY <1>1, <1>2, PTL DEF ConversationSpec, FactsKept
-----------------------------------------------------------------------------
(* The types of all parts                                                  *)

\* The parts a conversation has besides Inbound leave Inbound's state alone, so what
\* InboundProofs shows of Inbound holds in every behaviour of the whole.
LEMMA InboundRuns == ConversationSpec => Spec
<1>1. ConversationInit => Init
  BY DEF ConversationInit
<1>2. [ConversationNext]_conversationVars => [Next]_vars
  <2> SUFFICES ASSUME [ConversationNext]_conversationVars PROVE Next \/ vars' = vars
    OBVIOUS
  <2>1. CASE UNCHANGED conversationVars
    BY <2>1 DEF conversationVars
  <2>2. CASE InboundNext
    BY <2>2, Zenon DEF InboundNext, Next, Live, Poll, Reply
  <2>3. CASE JobNext
    BY <2>3 DEF JobNext, RestJob
  <2>4. CASE ChatNext
    BY <2>4 DEF ChatNext, RestChat
  <2>5. CASE GraphNext
    BY <2>5 DEF GraphNext, RestGraph
  <2>6. CASE ToolNext
    BY <2>6 DEF ToolNext, RestTool
  <2>7. CASE MemoryNext
    BY <2>7 DEF MemoryNext, RestMemory
  <2>8. CASE TimerNext
    BY <2>8 DEF TimerNext, RestTimer
  <2> QED
    BY <2>1, <2>2, <2>3, <2>4, <2>5, <2>6, <2>7, <2>8 DEF ConversationNext
<1> QED
  BY <1>1, <1>2, PTL DEF ConversationSpec, Spec

\* In every behaviour of the whole: no message is skipped, each is in one place, those of
\* a peer keep their order, and a drained process has left nothing behind.
THEOREM InboundKept == ConversationSpec => [](NoSkip /\ OnePlace /\ PeerOrderKept /\ CleanShutdown)
BY InboundRuns, NothingSkipped, InOnePlace, InPeerOrder, DrainedClean, PTL

\* What the components keep, each where it runs.
ConversationInv ==
    /\ InJob => JobInv /\ JobTypes
    /\ InChat => ChatInv
    /\ InGraph => GraphInv /\ GraphTypes
    /\ InTool => ToolInv /\ ToolTypes
    /\ InMemory => MemoryInv
    /\ InTimer => TimerInv

LEMMA ConversationInitHolds == ConversationInit => ConversationInv
<1> SUFFICES ASSUME ConversationInit PROVE ConversationInv
  OBVIOUS
<1> USE DEF InJob, InChat, InGraph, InTool, InMemory, InTimer
<1>1. InJob => JobInv /\ JobTypes
  BY JobInitHolds, JobTypesInit DEF ConversationInit
<1>2. InChat => ChatInv
  BY ChatInitHolds DEF ConversationInit
<1>3. InGraph => GraphInv /\ GraphTypes
  <2>1. MaxSteps \in Nat
    BY Assumed DEF Graph!GraphAssumption, Graph!GraphConstants
  <2>2. InGraph => Graph!GraphInit
    BY DEF ConversationInit
  <2>3. Graph!GraphInit => GraphTypes
    BY <2>1 DEF Graph!GraphInit, GraphTypes
  <2> QED
    BY <2>2, <2>3, GraphInitHolds
<1>4. InTool => ToolInv /\ ToolTypes
  <2>1. InTool => Tool!ToolInit
    BY DEF ConversationInit
  <2>2. Tool!ToolInit => ToolTypes
    BY DEF Tool!ToolInit, ToolTypes
  <2> QED
    BY <2>1, <2>2, ToolInitHolds
<1>5. InMemory => MemoryInv
  BY MemoryInitHolds DEF ConversationInit
<1>6. InTimer => TimerInv
  BY TimerInitHolds DEF ConversationInit
<1> QED
  BY <1>1, <1>2, <1>3, <1>4, <1>5, <1>6 DEF ConversationInv

LEMMA ConversationKeeps ==
    ConversationInv /\ [ConversationNext]_conversationVars => ConversationInv'
<1> SUFFICES ASSUME ConversationInv, [ConversationNext]_conversationVars PROVE ConversationInv'
  OBVIOUS
<1>1. /\ InJob' = InJob /\ InChat' = InChat /\ InGraph' = InGraph
      /\ InTool' = InTool /\ InMemory' = InMemory /\ InTimer' = InTimer
  BY PartSteps DEF InJob, InChat, InGraph, InTool, InMemory, InTimer
<1>2. InJob' => JobInv' /\ JobTypes'
  BY <1>1, PartSteps, JobKeeps, JobTyped DEF ConversationInv
<1>3. InChat' => ChatInv'
  BY <1>1, PartSteps, ChatKeeps DEF ConversationInv
<1>4. InGraph' => GraphInv' /\ GraphTypes'
  BY <1>1, PartSteps, GraphKeeps, GraphTyped DEF ConversationInv
<1>5. InTool' => ToolInv' /\ ToolTypes'
  BY <1>1, PartSteps, ToolKeeps, ToolTyped DEF ConversationInv
<1>6. InMemory' => MemoryInv'
  BY <1>1, PartSteps, MemoryKeeps DEF ConversationInv
<1>7. InTimer' => TimerInv'
  BY <1>1, PartSteps, TimerKeeps DEF ConversationInv
<1> QED
  BY <1>2, <1>3, <1>4, <1>5, <1>6, <1>7 DEF ConversationInv

\* For any constants, the state of the component that runs has its type, and keeps the
\* bounds the type names: the limits of the queues, the four parts of a reply and the
\* five posts of its indicator, a job counted once in each counter, and the rounds,
\* steps and tokens that the caps allow.
THEOREM ConversationTyped == ConversationSpec => []TypeOK
<1>1. ConversationInv /\ InboundTypeOK => TypeOK
  <2> SUFFICES ASSUME ConversationInv, InboundTypeOK PROVE TypeOK
    OBVIOUS
  <2>1. /\ InJob => Replying!JobTypeOK
        /\ InChat => Chat!ChatTypeOK
        /\ InGraph => Graph!GraphTypeOK
        /\ InTool => Tool!ToolTypeOK
        /\ InMemory => Memory!MemoryTypeOK
    BY JobWell, ChatWell, GraphWell, ToolWell, MemoryWell DEF ConversationInv
  <2>2. InTimer => Timer!TimerTypeOK
    BY TimerWell DEF ConversationInv
  <2> QED
    BY <2>1, <2>2 DEF TypeOK
<1> QED
  BY <1>1, ConversationInitHolds, ConversationKeeps, InboundRuns, InboundTyped, PTL
     DEF ConversationSpec
=============================================================================
