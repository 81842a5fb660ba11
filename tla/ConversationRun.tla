-------------------------- MODULE ConversationRun --------------------------
(* What happens to the messages of one peer on its way through a worker:    *)
(* Inbound takes them in, ReplyJob answers one, ChatTurn, GraphRun and      *)
(* ToolLoop make the answer, PeerMemory and ScanTimer work behind it.  Each *)
(* models the others by what they may return, so a behaviour runs one of    *)
(* them, chosen at the start in `part`; the variables of the others are     *)
(* Off.                                                                     *)
EXTENDS Inbound

CONSTANTS
    Jobs, Replies,
    Nodes, MaxPerDay, DayHours, MaxClock, MaxInputs, MaxUpsets,
    Requests, Allows, NoRow,
    Graphs, MaxNodes, MaxSteps, SearchAllowed,
    MaxRounds, MaxCalls, ToolSets,
    FactIds, EveryN, MaxFacts, Extractions, Owners, MaxSaid, MaxOrders,
    MaxSwitches

VARIABLES
    part,
    jobIn, plannedBias, stage, parts, next, posts, counted, asked, failed, typing, starting,
    peerRow, inIndex, token, dayCount, locked, home, chain, scan, ask, clock, inputs, upsets,
    granted, stale, nudged, owed,
    graph, current, steps, answer, outcome, trace, tokens,
    offered, messages, round, calls, at, content, used, billable,
    history, userCount, memory, extract, order, said, orders, crossed,
    switchOn, halted, gen, timer, atWork, ticking, switches

Replying == INSTANCE ReplyJob
Chat == INSTANCE ChatTurn
Graph == INSTANCE GraphRun
Tool == INSTANCE ToolLoop
Memory == INSTANCE PeerMemory
Timer == INSTANCE ScanTimer

ASSUME ConversationAssumption ==
    /\ Replying!ReplyAssumption /\ Chat!ChatAssumption /\ Graph!GraphAssumption /\ Tool!ToolLoopAssumption
    /\ Memory!MemoryAssumption /\ Timer!TimerAssumption

jobVars ==
    <<jobIn, plannedBias, stage, parts, next, posts, counted, asked, failed,
      typing, starting>>
chatVars ==
    <<peerRow, inIndex, token, dayCount, locked, home, chain, scan, ask, clock,
      inputs, upsets, granted, stale, nudged, owed>>
graphVars ==
    <<graph, current, steps, answer, outcome, trace, tokens>>
toolVars ==
    <<offered, messages, round, calls, at, content, used, billable>>
memoryVars ==
    <<history, userCount, memory, extract, order, said, orders, crossed>>
timerVars ==
    <<switchOn, halted, gen, timer, atWork, ticking, switches>>
conversationVars ==
    <<part, vars, jobVars, chatVars, graphVars, toolVars, memoryVars, timerVars>>
-----------------------------------------------------------------------------
Off == "off"
JobOff ==
    /\ jobIn = Off /\ plannedBias = Off /\ stage = Off /\ parts = Off /\ next = Off 
    /\ posts = Off /\ counted = Off /\ asked = Off /\ failed = Off /\ typing = Off 
    /\ starting = Off
ChatOff ==
    /\ peerRow = Off /\ inIndex = Off /\ token = Off /\ dayCount = Off /\ locked = Off 
    /\ home = Off /\ chain = Off /\ scan = Off /\ ask = Off /\ clock = Off
    /\ inputs = Off /\ upsets = Off /\ granted = Off 
    /\ stale = Off /\ nudged = Off /\ owed = Off
GraphOff ==
    /\ graph = Off /\ current = Off /\ steps = Off /\ answer = Off /\ outcome = Off 
    /\ trace = Off /\ tokens = Off
ToolOff ==
    /\ offered = Off /\ messages = Off /\ round = Off /\ calls = Off /\ at = Off 
    /\ content = Off /\ used = Off /\ billable = Off
MemoryOff ==
    /\ history = Off /\ userCount = Off /\ memory = Off /\ extract = Off /\ order = Off 
    /\ said = Off /\ orders = Off /\ crossed = Off
TimerOff ==
    /\ switchOn = Off /\ halted = Off /\ gen = Off /\ timer = Off /\ atWork = Off 
    /\ ticking = Off /\ switches = Off

ConversationInit ==
    /\ Init
    /\ \/ part = "inbound"
          /\ JobOff /\ ChatOff /\ GraphOff /\ ToolOff /\ MemoryOff /\ TimerOff
       \/ part = "job" /\ Replying!JobInit
          /\ ChatOff /\ GraphOff /\ ToolOff /\ MemoryOff /\ TimerOff
       \/ part = "chat" /\ Chat!Init
          /\ JobOff /\ GraphOff /\ ToolOff /\ MemoryOff /\ TimerOff
       \/ part = "graph" /\ Graph!GraphInit
          /\ JobOff /\ ChatOff /\ ToolOff /\ MemoryOff /\ TimerOff
       \/ part = "tool" /\ Tool!ToolInit
          /\ JobOff /\ ChatOff /\ GraphOff /\ MemoryOff /\ TimerOff
       \/ part = "memory" /\ Memory!MemoryInit
          /\ JobOff /\ ChatOff /\ GraphOff /\ ToolOff /\ TimerOff
       \/ part = "timer" /\ Timer!TimerInit
          /\ JobOff /\ ChatOff /\ GraphOff /\ ToolOff /\ MemoryOff

\* Only the component that runs takes steps.
InInbound == part = "inbound"
InJob == part = "job"
InChat == part = "chat"
InGraph == part = "graph"
InTool == part = "tool"
InMemory == part = "memory"
InTimer == part = "timer"
RestInbound ==
    UNCHANGED <<part, jobVars, chatVars, graphVars, toolVars, memoryVars, timerVars>>
RestJob ==
    UNCHANGED <<part, vars, chatVars, graphVars, toolVars, memoryVars, timerVars>>
RestChat ==
    UNCHANGED <<part, vars, jobVars, graphVars, toolVars, memoryVars, timerVars>>
RestGraph ==
    UNCHANGED <<part, vars, jobVars, chatVars, toolVars, memoryVars, timerVars>>
RestTool ==
    UNCHANGED <<part, vars, jobVars, chatVars, graphVars, memoryVars, timerVars>>
RestMemory ==
    UNCHANGED <<part, vars, jobVars, chatVars, graphVars, toolVars, timerVars>>
RestTimer ==
    UNCHANGED <<part, vars, jobVars, chatVars, graphVars, toolVars, memoryVars>>

InboundNext ==
    \/ \E n \in Node :
         \/ InInbound /\ Boot(n) /\ RestInbound
         \/ InInbound /\ DropLoop(n) /\ RestInbound
         \/ InInbound /\ Stop(n) /\ RestInbound
         \/ InInbound /\ DrainNext(n) /\ RestInbound
         \/ InInbound /\ DrainDone(n) /\ RestInbound
         \/ InInbound /\ FinishStopping(n) /\ RestInbound
         \/ InInbound /\ Exit(n) /\ RestInbound
         \/ InInbound /\ Crash(n) /\ RestInbound
         \/ \E k \in Slot :
              \/ InInbound /\ StartLoop(n, k) /\ RestInbound
              \/ InInbound /\ BootLoop(n, k) /\ RestInbound
              \/ InInbound /\ EndLoop(n, k) /\ RestInbound
              \/ InInbound /\ QuitLoop(n, k) /\ RestInbound
              \/ InInbound /\ Claim(n, k) /\ RestInbound
              \/ InInbound /\ RouteDirect(n, k) /\ RestInbound
              \/ InInbound /\ RouteBatch(n, k) /\ RestInbound
              \/ InInbound /\ SaveCursor(n, k) /\ RestInbound
              \/ \E j \in Msg, fresh \in BOOLEAN :
                   InInbound /\ GetUpdates(n, k, j, fresh) /\ RestInbound
         \/ \E p \in Peer :
              \/ InInbound /\ CloseBatch(n, p) /\ RestInbound
              \/ InInbound /\ BeginJob(n, p) /\ RestInbound
              \/ InInbound /\ EndJob(n, p) /\ RestInbound
    \/ \E m \in Msg : InInbound /\ ExpireSeen(m) /\ RestInbound

JobNext ==
    \/ InJob /\ Replying!NoClient /\ RestJob
    \/ InJob /\ Replying!RateLimited /\ RestJob
    \/ InJob /\ Replying!P2PHandled /\ RestJob
    \/ InJob /\ Replying!RemoteSends /\ RestJob
    \/ InJob /\ Replying!NoP2P /\ RestJob
    \/ InJob /\ Replying!Preflight /\ RestJob
    \/ InJob /\ Replying!SkipBatch /\ RestJob
    \/ InJob /\ Replying!Unreadable /\ RestJob
    \/ InJob /\ Replying!AskChat /\ RestJob
    \/ InJob /\ Replying!Rejected /\ RestJob
    \/ InJob /\ Replying!ChatFails /\ RestJob
    \/ InJob /\ Replying!Announce /\ RestJob
    \/ InJob /\ Replying!SendText /\ RestJob
    \/ InJob /\ Replying!SendSticker /\ RestJob
    \/ InJob /\ Replying!AllSent /\ RestJob
    \/ InJob /\ Replying!Apologize /\ RestJob
    \/ InJob /\ Replying!StopTyping /\ RestJob
    \/ InJob /\ Replying!TypingArrives /\ RestJob
    \/ \E r \in Replies : InJob /\ Replying!Chats(r) /\ RestJob

ChatNext ==
    \/ \E n \in Nodes :
         \/ InChat /\ Chat!Arrive(n) /\ RestChat
         \/ InChat /\ Chat!Create(n) /\ RestChat
         \/ InChat /\ Chat!Store(n) /\ RestChat
         \/ InChat /\ Chat!TurnFails(n) /\ RestChat
         \/ InChat /\ Chat!Skip(n) /\ RestChat
         \/ InChat /\ Chat!Reply(n) /\ RestChat
         \/ InChat /\ Chat!Touch(n) /\ RestChat
         \/ InChat /\ Chat!Look(n) /\ RestChat
         \/ InChat /\ Chat!Lock(n) /\ RestChat
         \/ InChat /\ Chat!BeginNudge(n) /\ RestChat
         \/ InChat /\ Chat!Declined(n) /\ RestChat
         \/ InChat /\ Chat!Composed(n) /\ RestChat
         \/ InChat /\ Chat!NudgeTouch(n) /\ RestChat
         \/ InChat /\ Chat!NudgeFails(n) /\ RestChat
         \/ InChat /\ Chat!Send(n) /\ RestChat
         \/ InChat /\ Chat!MarkSent(n) /\ RestChat
         \/ InChat /\ Chat!MarkTried(n) /\ RestChat
         \/ InChat /\ Chat!Count(n) /\ RestChat
         \/ InChat /\ Chat!NudgeLapses(n) /\ RestChat
         \/ InChat /\ Chat!Move(n) /\ RestChat
         \/ InChat /\ Chat!Crash(n) /\ RestChat
    \/ \E a \in Requests :
         \/ \E what \in {"approve", "on", "off"} : InChat /\ Chat!AskOwner(a, what) /\ RestChat
         \/ InChat /\ Chat!AskCreates(a) /\ RestChat
         \/ InChat /\ Chat!AskWrites(a) /\ RestChat
         \/ InChat /\ Chat!AskIndexes(a) /\ RestChat
         \/ InChat /\ Chat!AskFails(a) /\ RestChat
    \/ InChat /\ Chat!HourPasses /\ RestChat
    \/ InChat /\ Chat!LockExpires /\ RestChat

GraphNext ==
    \/ InGraph /\ Graph!Begin /\ RestGraph
    \/ InGraph /\ Graph!OutOfSteps /\ RestGraph
    \/ InGraph /\ Graph!PassOn /\ RestGraph
    \/ InGraph /\ Graph!Decide /\ RestGraph
    \/ InGraph /\ Graph!Search /\ RestGraph
    \/ InGraph /\ Graph!AskModel /\ RestGraph
    \/ InGraph /\ Graph!Throws /\ RestGraph
    \/ InGraph /\ Graph!GivesAnswer /\ RestGraph
    \/ InGraph /\ Graph!DeadEnd /\ RestGraph

ToolNext ==
    \/ InTool /\ Tool!AskFails /\ RestTool
    \/ InTool /\ Tool!NoChoice /\ RestTool
    \/ InTool /\ Tool!CallTools /\ RestTool
    \/ InTool /\ Tool!RunBuiltinTool /\ RestTool
    \/ InTool /\ Tool!NextRound /\ RestTool
    \/ InTool /\ Tool!Returns /\ RestTool
    \/ \E n \in 0..MaxCalls : InTool /\ Tool!Completion(n) /\ RestTool

MemoryNext ==
    \/ InMemory /\ Memory!Answered /\ RestMemory
    \/ InMemory /\ Memory!Unanswered /\ RestMemory
    \/ \E e \in Extractions :
         \/ InMemory /\ Memory!ReadsFacts(e) /\ RestMemory
         \/ InMemory /\ Memory!Extracted(e) /\ RestMemory
         \/ InMemory /\ Memory!ExtractFails(e) /\ RestMemory
    \/ \E o \in Owners :
         \/ \E f \in FactIds : InMemory /\ Memory!AskDelete(o, f) /\ RestMemory
         \/ InMemory /\ Memory!Delete(o) /\ RestMemory
         \/ InMemory /\ Memory!AskReset(o) /\ RestMemory
         \/ InMemory /\ Memory!Reset(o) /\ RestMemory
         \/ InMemory /\ Memory!AskClear(o) /\ RestMemory
         \/ InMemory /\ Memory!Clear(o) /\ RestMemory
         \/ InMemory /\ Memory!ClearCount(o) /\ RestMemory

TimerNext ==
    \/ InTimer /\ Timer!Switch /\ RestTimer
    \/ InTimer /\ Timer!Fire /\ RestTimer
    \/ \E g \in Timer!Gens : InTimer /\ Timer!TickEnds(g) /\ RestTimer

ConversationNext ==
    InboundNext \/ JobNext \/ ChatNext \/ GraphNext \/ ToolNext \/ MemoryNext \/ TimerNext

ConversationSpec == ConversationInit /\ [][ConversationNext]_conversationVars
-----------------------------------------------------------------------------
(* The properties of the components, each where it runs.                    *)

\* The state of the running component has its type.
TypeOK ==
    /\ InInbound => InboundTypeOK
    /\ InJob => Replying!JobTypeOK
    /\ InChat => Chat!ChatTypeOK
    /\ InGraph => Graph!GraphTypeOK
    /\ InTool => Tool!ToolTypeOK
    /\ InMemory => Memory!MemoryTypeOK
    /\ InTimer => Timer!TimerTypeOK

\* The parts of a reply arrive in order, none twice (ReplyJob).
RepliesInOrder == InJob => Replying!RepliesInOrder

\* An approval is lost only to who was behind when it was written, the cap of
\* nudges in a day holds but for upsets, and the calls of an ended turn are
\* billed once (ChatTurn).
TurnsKept == InChat => Chat!TurnsKept

\* A graph is run along its edges and answered by its last node (GraphRun).
GraphAnswers == InGraph => Graph!GraphAnswers

\* Every tool call is answered before the model is asked again (ToolLoop).
CallsAnswered == InTool => Tool!CallsAnswered

\* Facts are forgotten only for a reason (PeerMemory).
FactsKept == [][InMemory => Memory!FactsStay]_conversationVars

\* A scheduler that is on has one chain of ticks alive (ScanTimer).
OneScanChain == InTimer => Timer!OneScanChain

-----------------------------------------------------------------------------
(* Instances for TLC                                                        *)
CONSTANTS n1, n2, r1, r2

\* The first message comes from one peer, the others, if any, from it too.
MCPeerOf == [m \in 1..MaxMsg |-> CHOOSE p \in Peer : TRUE]

MCReplies ==
    {<<>>, <<"text">>, <<"sticker">>, <<"text", "text">>, <<"sticker", "text">>,
     <<"text", "sticker", "text">>, <<"text", "text", "text", "text", "text">>}
Plain ==
    [client |-> TRUE, limited |-> FALSE, p2p |-> FALSE, preflight |-> FALSE,
     items |-> <<"filler">>, text |-> TRUE, image |-> FALSE]
MCJobs ==
    {[Plain EXCEPT !.items = it, !.text = x] : x \in BOOLEAN,
        it \in {<<k>> : k \in {"filler", "unfinished", "request"}} \cup {<<"request", "filler">>, <<"filler", "unfinished">>}}
    \cup {[Plain EXCEPT !.items = <<"request">>, !.text = x, !.image = TRUE] : x \in BOOLEAN}
    \cup {[Plain EXCEPT !.client = FALSE], [Plain EXCEPT !.limited = TRUE],
          [Plain EXCEPT !.preflight = TRUE]}
    \cup {[Plain EXCEPT !.p2p = TRUE, !.preflight = b] : b \in BOOLEAN}

\* A start, a condition with up to two ways out, a node c and an answer that
\* may lead on: with and without an else, with loops and with dead ends; and
\* graphs that are not sound.
Nd(i, t) == [id |-> i, type |-> t]
Ed(a, h, b) == [source |-> a, target |-> b, handle |-> h]
UpTo1(a, T) == {<<>>} \cup {<<Ed(a, "none", x)>> : x \in T}
Ways == {Ed("b", h, x) : h \in {"none", "true", "false"}, x \in {"c", "d"}}
MCGraphs ==
    {[nodes |-> <<Nd("a", "start"), Nd("b", "if-else"), Nd("c", t), Nd("d", "answer")>>,
      edges |-> <<Ed("a", "none", "b")>> \o es \o cs \o ds] :
        t \in {"llm", "http", "search"},
        es \in {<<>>} \cup {<<x>> : x \in Ways} \cup {<<x, y>> : x \in Ways, y \in Ways},
        cs \in UpTo1("c", {"b", "d"}), ds \in UpTo1("d", {"c"})}
    \cup {[nodes |-> <<Nd("a", "start"), Nd("c", t)>>, edges |-> <<Ed("a", "none", x)>>] :
            t \in {"memory", "answer", "start"}, x \in {"b", "c"}}

\* The nodes of ChatTurn are interchangeable, and so are its requests.
Sym == Permutations({n1, n2}) \cup Permutations({r1, r2})
=============================================================================
