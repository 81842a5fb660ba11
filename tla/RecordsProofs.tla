---------------------------- MODULE RecordsProofs ----------------------------
(***************************************************************************)
(* What TLC shows of the parts of RecordsRun on small instances, for every *)
(* value of the constants.                                                 *)
(***************************************************************************)
EXTENDS RecordsRun, AccountsProofs, SequenceTheorems, FiniteSetTheorems, TLAPS

LEMMA Assumed == /\ Sticker!StickerAssumption /\ Persona!PersonaAssumption /\ AccountAssumption
                 /\ Try!TryChatAssumption /\ Bind!BindAssumption
BY RecordsAssumption

-----------------------------------------------------------------------------
(* A step of the whole is a step of the component that runs                *)

\* A behaviour stays with the component it began with, and each of its steps is
\* one of that component.
LEMMA PartSteps ==
    ASSUME [RecordsNext]_recordsVars
    PROVE  /\ part' = part
           /\ InStickers => [Sticker!Next]_(Sticker!stickerVars)
           /\ InPersonas => [Persona!Next]_(Persona!personaVars)
           /\ InAccounts => [AccountNext]_accountVars
           /\ InTry => [Try!TryNext]_(Try!tryVars)
           /\ InBind => [Bind!BindNext]_(Bind!bindVars)
<1> USE DEF InStickers, InPersonas, InAccounts, InTry, InBind
<1>1. CASE UNCHANGED recordsVars
  BY <1>1 DEF recordsVars, stickerVars, personaVars, accountVars, tryVars, bindVars,
              Sticker!stickerVars, Persona!personaVars, Try!tryVars, Bind!bindVars
<1>2. CASE StickersRun
  <2>1. InStickers /\ RestStickers
    BY <1>2 DEF StickersRun
  <2>2. Sticker!Next
    BY <1>2 DEF StickersRun, Sticker!Next, Sticker!Continue
  <2> QED
    BY <2>1, <2>2 DEF RestStickers
<1>3. CASE PersonasRun
  <2>1. InPersonas /\ RestPersonas
    BY <1>3 DEF PersonasRun
  <2>2. Persona!Next
    <3>1. ASSUME NEW c \in Calls,
                 \/ Persona!Store(c) \/ Persona!Pointed(c) \/ Persona!Unpoint(c) \/ Persona!WriteDefault(c)
                 \/ Persona!Index(c) \/ Persona!Write(c) \/ Persona!Publish(c) \/ Persona!WriteVersion(c)
                 \/ Persona!PointToVersion(c) \/ Persona!WriteFork(c) \/ Persona!Reply(c)
                 \/ Persona!WriteSwitch(c) \/ Persona!BreaksOff(c)
          PROVE  Persona!Next
      BY <3>1 DEF Persona!Next, Persona!Continue
    <3>2. ASSUME NEW c \in Calls, NEW i \in PersonaIds,
                 \/ \E u \in Owners \cup {Official} :
                      \/ \E v \in {"public", "private"}, d \in BOOLEAN : Persona!Create(c, u, i, v, d)
                      \/ \E v \in {"public", "private", "same"}, p \in BOOLEAN, g \in Graphs \cup {Nil} :
                           Persona!Edit(c, u, i, v, p, g)
                 \/ Persona!SetDefault(c, i) \/ Persona!PublishByAdmin(c, i)
                 \/ \E on \in BOOLEAN : Persona!Switch(c, i, on)
          PROVE  Persona!Next
      BY <3>2, Zenon DEF Persona!Next
    <3>3. ASSUME NEW c \in Calls, NEW i \in PersonaIds, NEW u \in Owners,
                 \/ \E s \in PersonaIds, admin \in BOOLEAN : Persona!Fork(c, u, admin, i, s)
                 \/ Persona!AddToLibrary(c, u, i) \/ Persona!RemoveFromLibrary(c, u, i)
                 \/ \E p \in Peers : Persona!Assign(c, u, p, i)
          PROVE  Persona!Next
      BY <3>3, Zenon DEF Persona!Next
    <3>4. ASSUME NEW i \in PersonaIds, Persona!Fallback(i) PROVE Persona!Next
      BY <3>4 DEF Persona!Next
    <3> QED
      BY <1>3, <3>1, <3>2, <3>3, <3>4, SMTT(30) DEF PersonasRun
  <2> QED
    BY <2>1, <2>2 DEF RestPersonas
<1>4. CASE AccountsRun
  <2>1. InAccounts /\ RestAccounts
    BY <1>4 DEF AccountsRun
  <2>2. AccountNext
    BY <1>4 DEF AccountsRun, AccountNext, Continue
  <2> QED
    BY <2>1, <2>2 DEF RestAccounts
<1>5. CASE TryRun
  <2>1. InTry /\ RestTry
    BY <1>5 DEF TryRun
  <2>2. Try!TryNext
    BY <1>5 DEF TryRun, Try!TryNext
  <2> QED
    BY <2>1, <2>2 DEF RestTry
<1>6. CASE BindRun
  <2>1. InBind /\ RestBind
    BY <1>6 DEF BindRun
  <2>2. Bind!BindNext
    BY <1>6 DEF BindRun, Bind!BindNext
  <2> QED
    BY <2>1, <2>2 DEF RestBind
<1> QED
  BY <1>1, <1>2, <1>3, <1>4, <1>5, <1>6 DEF RecordsNext

-----------------------------------------------------------------------------
(* P2PBind                                                                 *)

BindStages == {"none", "taken", "look", "clear", "pointer", "drop", "peer"}
Binds == Accounts \X Phones
BindCmds == [at : BindStages, user : Accounts \cup {Nobody}, peer : Phones \cup {Nobody},
             code : Bind!BindCodes \cup {Nobody}, clear : Seq(Binds), bind : BOOLEAN]
At(c, at) == [c EXCEPT !.at = at]

\* What a command is about: a code in its hands, a bind that was proved, a bind
\* to clear.
CmdSound(c, shown, made) ==
    /\ c \in BindCmds
    /\ c.at = "taken" => c.code \in made
    /\ c.at \in {"taken", "look", "peer"} => c.bind
    /\ c.bind => c.user \in Accounts /\ c.peer \in Phones
    /\ c.bind /\ c.at \notin {"none", "taken"} => <<c.user, c.peer>> \in shown
    /\ c.at \in {"pointer", "drop"} => c.clear # <<>>

\* A pointer names the other end of a bind that was proved; a code that is there
\* or was taken was made, and one that was taken is gone.
Pointing(row, key, shown) ==
    /\ row \in [Accounts -> Phones \cup {Nobody}]
    /\ key \in [Phones -> Accounts \cup {Nobody}]
    /\ \A u \in Accounts : row[u] # Nobody => <<u, row[u]>> \in shown
    /\ \A p \in Phones : key[p] # Nobody => <<key[p], p>> \in shown
Made(of, taken, made) ==
    /\ of \in [Bind!BindCodes -> Accounts \cup {Nobody}]
    /\ taken \in [Bind!BindCodes -> Nat]
    /\ made \subseteq Bind!BindCodes
    /\ \A c \in Bind!BindCodes : of[c] # Nobody \/ taken[c] # 0 => c \in made
Once(of, taken) ==
    \A c \in Bind!BindCodes : taken[c] \in {0, 1} /\ (taken[c] = 1 => of[c] = Nobody)

\* The two pointers agree; they do but for the bind e, of which the user's row is
\* gone, or of which only the user's row is written.
Agree(row, key) == \A u \in Accounts, p \in Phones : row[u] = p <=> key[p] = u
Almost(row, key, e) ==
    \A u \in Accounts, p \in Phones : <<u, p>> # e => (row[u] = p <=> key[p] = u)
Cut(row, key, e) == row[e[1]] = Nobody /\ key[e[2]] = e[1] /\ Almost(row, key, e)
Half(row, key, e) == row[e[1]] = e[2] /\ key[e[2]] = Nobody /\ Almost(row, key, e)

Ahead(list) == {list[i] : i \in 1..Len(list)}
\* What is left to clear are binds of different users.
Clearing(list, row) ==
    /\ \A i \in 1..Len(list) : row[list[i][1]] = list[i][2]
    /\ \A i, j \in 1..Len(list) : list[i][1] = list[j][1] => i = j
\* Everything that gives way to the bind of c is about to be cleared.
Covers(c, list, row, key) ==
    c.bind => /\ row[c.user] # Nobody => <<c.user, row[c.user]>> \in Ahead(list)
              /\ key[c.peer] # Nobody => <<key[c.peer], c.peer>> \in Ahead(list)

\* Where a command that is alone has brought the two pointers.
Reached(c, row, key, taken) ==
    /\ c.at \in {"none", "taken", "look"} => Agree(row, key)
    /\ c.at = "taken" => taken[c.code] = 0
    /\ c.at = "clear" => Agree(row, key) /\ Clearing(c.clear, row) /\ Covers(c, c.clear, row, key)
    /\ c.at \in {"pointer", "drop"} =>
         Cut(row, key, c.clear[1]) /\ Clearing(Tail(c.clear), row) /\ Covers(c, c.clear, row, key)
    /\ c.at = "peer" => Half(row, key, <<c.user, c.peer>>)

BindInv ==
    /\ bindCmd \in [BindCommands -> BindCmds] /\ given \in 0..MaxGiven
    /\ proved \subseteq Binds /\ bindOver \in BOOLEAN
    /\ \A k \in BindCommands : CmdSound(bindCmd[k], proved, codesMade)
    /\ Pointing(bindUser, bindPeer, proved)
    /\ Made(code, spent, codesMade)
    /\ ~bindOver =>
         /\ \A j, k \in BindCommands : Bind!UnderWay(j) /\ Bind!UnderWay(k) => j = k
         /\ Once(code, spent)
         /\ \A k \in BindCommands :
              Bind!UnderWay(k) => Reached(bindCmd[k], bindUser, bindPeer, spent)
         /\ (\A k \in BindCommands : ~Bind!UnderWay(k)) => Agree(bindUser, bindPeer)

LEMMA NoCmdIs ==
    /\ Bind!NoCmd \in BindCmds /\ Bind!NoCmd.at = "none" /\ Bind!NoCmd.user = Nobody
    /\ Bind!NoCmd.peer = Nobody /\ Bind!NoCmd.code = Nobody /\ Bind!NoCmd.clear = <<>>
    /\ ~Bind!NoCmd.bind
<1>1. <<>> \in Seq(Binds)
  OBVIOUS
<1> QED
  BY <1>1 DEF Bind!NoCmd, BindCmds, BindStages

LEMMA BindInitHolds == ASSUME Bind!BindInit PROVE BindInv
<1> USE NoCmdIs
<1>1. Bind!BindCodes \subseteq Nat /\ MaxGiven \in Nat /\ 0 \in Nat
  BY Assumed DEF Bind!BindCodes, Bind!BindAssumption
<1>2. \A k \in BindCommands : bindCmd[k] = Bind!NoCmd /\ ~Bind!UnderWay(k)
  BY DEF Bind!BindInit, Bind!UnderWay
<1>3. Nobody \notin Accounts /\ Nobody \notin Phones
  BY Assumed DEF Bind!BindAssumption
<1>4. Agree(bindUser, bindPeer)
  BY <1>3 DEF Agree, Bind!BindInit
<1>5. CmdSound(Bind!NoCmd, proved, codesMade)
  BY DEF CmdSound
<1>6. /\ bindCmd = [k \in BindCommands |-> Bind!NoCmd] /\ given = 0
      /\ proved = {} /\ bindOver = FALSE /\ codesMade = {}
  BY DEF Bind!BindInit
<1>7. bindCmd \in [BindCommands -> BindCmds] /\ given \in 0..MaxGiven
  BY <1>1, <1>6
<1>8. Pointing(bindUser, bindPeer, proved)
  BY <1>3 DEF Pointing, Bind!BindInit
<1>9. Made(code, spent, codesMade) /\ Once(code, spent)
  BY <1>1 DEF Made, Once, Bind!BindInit
<1> QED
  BY <1>2, <1>4, <1>5, <1>6, <1>7, <1>8, <1>9 DEF BindInv

\* A step of a command keeps the invariant when what it leaves behind does.
LEMMA BindMoved ==
    ASSUME BindInv, NEW k \in BindCommands, NEW r,
           \/ Bind!UnderWay(k) /\ Bind!Continue(k, r)
           \/ Bind!Start(k, r),
           proved \subseteq proved', proved' \subseteq Binds, codesMade' = codesMade,
           CmdSound(r, proved', codesMade),
           Pointing(bindUser', bindPeer', proved'),
           Made(code', spent', codesMade),
           ~bindOver' => Once(code', spent') /\ Reached(r, bindUser', bindPeer', spent')
    PROVE  BindInv'
<1> USE DEF BindInv
<1>1. /\ bindCmd' = [bindCmd EXCEPT ![k] = r] /\ r \in BindCmds
      /\ given' \in 0..MaxGiven /\ bindOver' \in BOOLEAN
      /\ ~bindOver' => ~bindOver
  <2>1. MaxGiven \in Nat /\ given \in Nat
    BY Assumed DEF Bind!BindAssumption
  <2>2. bindCmd' = [bindCmd EXCEPT ![k] = r] /\ r \in BindCmds
    BY DEF Bind!Continue, Bind!Start, CmdSound
  <2>3. bindOver' \in BOOLEAN /\ (~bindOver' => ~bindOver)
    BY Zenon DEF Bind!Continue, Bind!Start
  <2>4. given' \in 0..MaxGiven
    BY <2>1 DEF Bind!Continue, Bind!Start
  <2> QED
    BY <2>2, <2>3, <2>4
<1>2. \A j \in BindCommands : CmdSound(bindCmd'[j], proved', codesMade)
  <2> SUFFICES ASSUME NEW j \in BindCommands PROVE CmdSound(bindCmd'[j], proved', codesMade)
    OBVIOUS
  <2>1. CmdSound(bindCmd[j], proved', codesMade)
    BY DEF CmdSound
  <2> QED
    BY <1>1, <2>1
<1>3. ASSUME ~bindOver' PROVE \A j \in BindCommands : j # k => ~Bind!UnderWay(j)
  <2>1. CASE Bind!UnderWay(k)
    BY <1>1, <1>3, <2>1
  <2>2. CASE Bind!Start(k, r)
    BY <1>3, <2>2, Zenon DEF Bind!Start
  <2> QED
    BY <2>1, <2>2
<1>4. \A j \in BindCommands : j # k => bindCmd'[j] = bindCmd[j]
  BY <1>1
<1>5. bindCmd'[k] = r
  BY <1>1
<1>6. ASSUME ~bindOver' PROVE \A j \in BindCommands : Bind!UnderWay(j)' => j = k
  BY <1>3, <1>4, <1>6 DEF Bind!UnderWay
<1>7. ASSUME ~bindOver', \A j \in BindCommands : ~Bind!UnderWay(j)'
      PROVE  Agree(bindUser', bindPeer')
  <2>1. r.at = "none"
    BY <1>5, <1>7 DEF Bind!UnderWay
  <2> QED
    BY <1>7, <2>1 DEF Reached
<1>8. bindCmd' \in [BindCommands -> BindCmds]
  BY <1>1
<1> QED
  BY <1>1, <1>2, <1>5, <1>6, <1>7, <1>8, Zenon

\* What the invariant says of one command.
LEMMA CmdFacts ==
    ASSUME BindInv, NEW k \in BindCommands
    PROVE  /\ CmdSound(bindCmd[k], proved, codesMade)
           /\ Pointing(bindUser, bindPeer, proved) /\ Made(code, spent, codesMade)
           /\ proved \subseteq Binds
           /\ Bind!UnderWay(k) /\ ~bindOver =>
                /\ Reached(bindCmd[k], bindUser, bindPeer, spent)
                /\ Once(code, spent)
           /\ ~bindOver /\ (\A j \in BindCommands : ~Bind!UnderWay(j)) =>
                Agree(bindUser, bindPeer) /\ Once(code, spent)
           /\ Bind!UnderWay(k) <=> bindCmd[k].at # "none"
BY Zenon DEF BindInv, Bind!UnderWay

LEMMA CreateKeeps ==
    ASSUME BindInv, NEW u \in Accounts, NEW c \in Bind!BindCodes, Bind!CreateBindCode(u, c)
    PROVE  BindInv'
<1>1. /\ codesMade = 1..(c - 1) /\ codesMade' = codesMade \cup {c}
      /\ code' = [code EXCEPT ![c] = u] /\ UNCHANGED <<bindUser, bindPeer, bindCmd, given, proved, spent, bindOver>>
  BY DEF Bind!CreateBindCode
<1>2. c \notin codesMade
  BY <1>1 DEF Bind!BindCodes
<1>3. Made(code', spent', codesMade') /\ spent[c] = 0
  BY <1>1, <1>2 DEF BindInv, Made
<1>4. ~bindOver => Once(code', spent')
  BY <1>1, <1>3 DEF BindInv, Once, Made
<1>5. \A k \in BindCommands : CmdSound(bindCmd'[k], proved', codesMade')
  BY <1>1 DEF BindInv, CmdSound
<1>6. \A k \in BindCommands : Bind!UnderWay(k)' <=> Bind!UnderWay(k)
  BY <1>1 DEF Bind!UnderWay
<1> QED
  BY <1>1, <1>3, <1>4, <1>5, <1>6, Zenon DEF BindInv

LEMMA ExpiresKeeps ==
    ASSUME BindInv, NEW c \in Bind!BindCodes, Bind!CodeExpires(c)
    PROVE  BindInv'
<1>1. /\ code' = [code EXCEPT ![c] = Nobody]
      /\ UNCHANGED <<bindUser, bindPeer, codesMade, bindCmd, given, proved, spent, bindOver>>
  BY DEF Bind!CodeExpires
<1>2. Made(code', spent', codesMade')
  BY <1>1 DEF BindInv, Made
<1>3. ~bindOver => Once(code', spent')
  BY <1>1 DEF BindInv, Once, Made
<1>4. \A k \in BindCommands : Bind!UnderWay(k)' <=> Bind!UnderWay(k)
  BY <1>1 DEF Bind!UnderWay
<1> QED
  BY <1>1, <1>2, <1>3, <1>4, Zenon DEF BindInv

\* Where a command starts alone, none was under way.
LEMMA StartsAlone ==
    ASSUME BindInv, NEW k \in BindCommands, NEW r, Bind!Start(k, r), ~bindOver'
    PROVE  Agree(bindUser, bindPeer) /\ Once(code, spent)
<1>1. ~bindOver /\ \A j \in BindCommands : ~Bind!UnderWay(j)
  BY Zenon DEF Bind!Start
<1> QED
  BY <1>1, CmdFacts

LEMMA TakeKeeps ==
    ASSUME BindInv, NEW k \in BindCommands, NEW p \in Phones, NEW c \in Bind!BindCodes,
           Bind!TakeCode(k, p, c)
    PROVE  BindInv'
<1> DEFINE r == [Bind!NoCmd EXCEPT !.at = "taken", !.user = code[c], !.peer = p, !.code = c, !.bind = TRUE]
<1>1. /\ code[c] # Nobody /\ Bind!Start(k, r)
      /\ UNCHANGED <<bindUser, bindPeer, code, codesMade, proved, spent>>
  BY DEF Bind!TakeCode
<1>2. code[c] \in Accounts /\ c \in codesMade
  BY <1>1, CmdFacts DEF Made
<1>3. r \in BindCmds /\ r.at = "taken" /\ r.user = code[c] /\ r.peer = p /\ r.code = c /\ r.bind
  BY <1>2, NoCmdIs DEF BindCmds, BindStages
<1> HIDE DEF r
<1>4. CmdSound(r, proved', codesMade)
  BY <1>2, <1>3 DEF CmdSound
<1>5. ASSUME ~bindOver' PROVE Once(code', spent') /\ Reached(r, bindUser', bindPeer', spent')
  <2>1. Agree(bindUser, bindPeer) /\ Once(code, spent)
    BY <1>1, <1>5, StartsAlone
  <2>2. spent[c] = 0
    BY <1>1, <2>1 DEF Once
  <2> QED
    BY <1>1, <1>3, <2>1, <2>2 DEF Reached
<1> QED
  BY <1>1, <1>4, <1>5, BindMoved, CmdFacts

LEMMA DropCodeKeeps ==
    ASSUME BindInv, NEW k \in BindCommands, Bind!DropCode(k)
    PROVE  BindInv'
<1>0. PICK m : m = bindCmd[k]
  OBVIOUS
<1> DEFINE r == [m EXCEPT !.at = "look"]
<1>1. /\ m.at = "taken" /\ Bind!Continue(k, r)
      /\ code' = [code EXCEPT ![m.code] = Nobody]
      /\ proved' = proved \cup {<<m.user, m.peer>>}
      /\ spent' = [spent EXCEPT ![m.code] = @ + 1]
      /\ UNCHANGED <<bindUser, bindPeer, codesMade>>
  BY <1>0 DEF Bind!DropCode
<1>2. CmdSound(m, proved, codesMade) /\ m.code \in codesMade /\ Bind!UnderWay(k)
  BY <1>0, <1>1, CmdFacts DEF CmdSound
<1>3. /\ r \in BindCmds /\ r.at = "look" /\ r.user = m.user /\ r.peer = m.peer /\ r.bind = m.bind
      /\ m.bind /\ m.user \in Accounts /\ m.peer \in Phones
  BY <1>1, <1>2 DEF BindCmds, BindStages, CmdSound
<1> HIDE DEF r
<1>4. CmdSound(r, proved', codesMade)
  BY <1>1, <1>2, <1>3 DEF CmdSound
<1>5. Pointing(bindUser', bindPeer', proved') /\ proved' \subseteq Binds /\ proved \subseteq proved'
  BY <1>1, <1>3, CmdFacts DEF Pointing, Binds
<1>6. Made(code', spent', codesMade)
  BY <1>1, <1>2, CmdFacts DEF Made
<1>7. ASSUME ~bindOver' PROVE Once(code', spent') /\ Reached(r, bindUser', bindPeer', spent')
  <2>1. Reached(m, bindUser, bindPeer, spent) /\ Once(code, spent)
    BY <1>0, <1>1, <1>2, <1>7, CmdFacts DEF Bind!Continue
  <2>2. spent[m.code] = 0 /\ Agree(bindUser, bindPeer)
    BY <1>1, <2>1 DEF Reached
  <2>3. Once(code', spent')
    BY <1>1, <1>2, <2>1, <2>2, CmdFacts DEF Once, Made
  <2> QED
    BY <1>1, <1>3, <2>2, <2>3 DEF Reached
<1> QED
  BY <1>1, <1>2, <1>4, <1>5, <1>6, <1>7, BindMoved

LEMMA Joined ==
    ASSUME NEW e, NEW f
    PROVE  /\ <<e>> \o <<f>> = <<e, f>> /\ <<e>> \o <<>> = <<e>>
           /\ <<>> \o <<f>> = <<f>> /\ <<>> \o <<>> = <<>>
<1>1. /\ <<e>> \in Seq({e, f}) /\ <<f>> \in Seq({e, f}) /\ <<e, f>> \in Seq({e, f})
      /\ <<>> \in Seq({e, f})
  OBVIOUS
<1>2. <<e>> \o <<f>> = <<e, f>>
  <2>1. /\ <<e>> \o <<f>> \in Seq({e, f}) /\ Len(<<e>> \o <<f>>) = Len(<<e>>) + Len(<<f>>)
        /\ \A i \in 1 .. Len(<<e>>) + Len(<<f>>) :
             (<<e>> \o <<f>>)[i] = IF i <= Len(<<e>>) THEN <<e>>[i] ELSE <<f>>[i - Len(<<e>>)]
    BY <1>1, ConcatProperties, Zenon
  <2>2. Len(<<e>>) = 1 /\ Len(<<f>>) = 1 /\ Len(<<e, f>>) = 2
    OBVIOUS
  <2>3. (<<e>> \o <<f>>)[1] = e /\ (<<e>> \o <<f>>)[2] = f
    BY <2>1, <2>2
  <2>4. \A i \in 1 .. 2 : (<<e>> \o <<f>>)[i] = <<e, f>>[i]
    <3>1. \A i \in 1 .. 2 : i = 1 \/ i = 2
      OBVIOUS
    <3> QED
      BY <2>3, <3>1
  <2>5. /\ Len(<<e>> \o <<f>>) = Len(<<e, f>>)
        /\ \A i \in 1 .. Len(<<e>> \o <<f>>) : (<<e>> \o <<f>>)[i] = <<e, f>>[i]
    <3>1. Len(<<e>> \o <<f>>) = 2
      BY <2>1, <2>2
    <3> QED
      BY <2>2, <2>4, <3>1
  <2> QED
    BY <1>1, <2>1, <2>5, SeqEqual, Zenon
<1> QED
  BY <1>1, <1>2, ConcatEmptySeq

LEMMA LookKeeps ==
    ASSUME BindInv, NEW k \in BindCommands, Bind!Look(k)
    PROVE  BindInv'
<1>0. PICK m : m = bindCmd[k]
  OBVIOUS
<1>a. PICK l : l = Bind!GivesWay(m.user, m.peer)
  OBVIOUS
<1> DEFINE r == [m EXCEPT !.at = "clear", !.clear = l]
<1>1. /\ m.at = "look" /\ Bind!Continue(k, r)
      /\ UNCHANGED <<bindUser, bindPeer, code, codesMade, proved, spent>>
  BY <1>0, <1>a DEF Bind!Look
<1>2. /\ CmdSound(m, proved, codesMade) /\ Bind!UnderWay(k) /\ m \in BindCmds /\ m.bind
      /\ m.user \in Accounts /\ m.peer \in Phones
  BY <1>0, <1>1, CmdFacts DEF CmdSound
<1>3. PICK u \in Accounts, p \in Phones : u = m.user /\ p = m.peer
  BY <1>2
<1>4. PICK o : o = bindPeer[p]
  OBVIOUS
<1>5. PICK q : q = bindUser[u]
  OBVIOUS
<1>6. o \in Accounts \cup {Nobody} /\ q \in Phones \cup {Nobody}
  BY <1>3, <1>4, <1>5, CmdFacts DEF Pointing
<1> DEFINE Other == o \notin {Nobody, u} /\ bindUser[o] = p
<1>7. l = (IF Other THEN <<<<o, p>>>> ELSE <<>>) \o (IF q # Nobody THEN <<<<u, q>>>> ELSE <<>>)
  BY <1>a, <1>3, <1>4, <1>5 DEF Bind!GivesWay
<1>8. \/ Other /\ q # Nobody /\ l = <<<<o, p>>, <<u, q>>>>
      \/ Other /\ q = Nobody /\ l = <<<<o, p>>>>
      \/ ~Other /\ q # Nobody /\ l = <<<<u, q>>>>
      \/ ~Other /\ q = Nobody /\ l = <<>>
  <2> DEFINE e == <<o, p>>
             f == <<u, q>>
  <2>1. <<e>> \o <<f>> = <<e, f>> /\ <<e>> \o <<>> = <<e>> /\ <<>> \o <<f>> = <<f>> /\ <<>> \o <<>> = <<>>
    BY Joined
  <2>2. l = (IF Other THEN <<e>> ELSE <<>>) \o (IF q # Nobody THEN <<f>> ELSE <<>>)
    BY <1>7
  <2> HIDE DEF e, f, Other
  <2>3. \/ Other /\ q # Nobody /\ l = <<e, f>>
        \/ Other /\ q = Nobody /\ l = <<e>>
        \/ ~Other /\ q # Nobody /\ l = <<f>>
        \/ ~Other /\ q = Nobody /\ l = <<>>
    BY <2>1, <2>2, Zenon
  <2> QED
    BY <2>3, Zenon DEF e, f
<1>9. l \in Seq(Binds)
  <2>1. Other => <<o, p>> \in Binds
    BY <1>3, <1>6 DEF Binds
  <2>2. q # Nobody => <<u, q>> \in Binds
    BY <1>3, <1>6 DEF Binds
  <2>3. \A e, f \in Binds : <<e, f>> \in Seq(Binds) /\ <<e>> \in Seq(Binds) /\ <<>> \in Seq(Binds)
    OBVIOUS
  <2>4. <<>> \in Seq(Binds)
    OBVIOUS
  <2> QED
    BY <1>8, <2>1, <2>2, <2>3, <2>4, Zenon
<1>10. /\ r \in BindCmds /\ r.at = "clear" /\ r.clear = l /\ r.bind = m.bind
       /\ r.user = u /\ r.peer = p
  BY <1>2, <1>3, <1>9 DEF BindCmds, BindStages
<1> HIDE DEF r
<1>11. CmdSound(r, proved', codesMade)
  BY <1>1, <1>2, <1>3, <1>10 DEF CmdSound
<1>12. ASSUME ~bindOver' PROVE Once(code', spent') /\ Reached(r, bindUser', bindPeer', spent')
  <2>1. Reached(m, bindUser, bindPeer, spent) /\ Once(code, spent) /\ ~bindOver
    BY <1>0, <1>1, <1>2, <1>12, CmdFacts DEF Bind!Continue
  <2>2. Agree(bindUser, bindPeer)
    BY <1>1, <2>1 DEF Reached
  <2>3. o = u => q = p
    BY <1>3, <1>4, <1>5, <2>2 DEF Agree
  <2>4. o \notin {Nobody, u} => Other
    BY <1>3, <1>4, <1>6, <2>2 DEF Agree
  <2>5. Clearing(l, bindUser)
    BY <1>4, <1>5, <1>8 DEF Clearing
  <2>6. Covers(r, l, bindUser, bindPeer)
    <3>1. \A e \in Binds : (Other /\ e = <<o, p>>) \/ (q # Nobody /\ e = <<u, q>>) => e \in Ahead(l)
      <4>1. CASE Other /\ q # Nobody /\ l = <<<<o, p>>, <<u, q>>>>
        <5>1. Len(l) = 2 /\ l[1] = <<o, p>> /\ l[2] = <<u, q>>
          BY <4>1
        <5> QED
          BY <5>1 DEF Ahead
      <4>2. CASE Other /\ q = Nobody /\ l = <<<<o, p>>>>
        BY <4>2 DEF Ahead
      <4>3. CASE ~Other /\ q # Nobody /\ l = <<<<u, q>>>>
        BY <4>3 DEF Ahead
      <4>4. CASE ~Other /\ q = Nobody
        BY <4>4
      <4> QED
        BY <1>8, <4>1, <4>2, <4>3, <4>4
    <3>2. q # Nobody => <<u, q>> \in Ahead(l)
      BY <1>6, <3>1 DEF Binds
    <3>3. o # Nobody => <<o, p>> \in Ahead(l)
      BY <1>6, <2>3, <2>4, <3>1, Assumed DEF Binds, Bind!BindAssumption
    <3> QED
      BY <1>4, <1>5, <1>10, <3>2, <3>3 DEF Covers
  <2> QED
    BY <1>1, <1>10, <2>1, <2>2, <2>5, <2>6 DEF Reached
<1> QED
  BY <1>1, <1>2, <1>11, <1>12, BindMoved, CmdFacts

LEMMA UnbindKeeps ==
    ASSUME BindInv, NEW k \in BindCommands, NEW u \in Accounts, Bind!Unbind(k, u)
    PROVE  BindInv'
<1>a. PICK l : l = <<<<u, bindUser[u]>>>>
  OBVIOUS
<1> DEFINE r == [Bind!NoCmd EXCEPT !.at = "clear", !.user = u, !.clear = l]
<1>1. /\ bindUser[u] # Nobody /\ Bind!Start(k, r)
      /\ UNCHANGED <<bindUser, bindPeer, code, codesMade, proved, spent>>
  BY <1>a DEF Bind!Unbind
<1>2. <<u, bindUser[u]>> \in Binds
  BY <1>1, CmdFacts DEF Pointing
<1>3. l \in Seq(Binds) /\ Len(l) = 1 /\ l[1] = <<u, bindUser[u]>>
  BY <1>a, <1>2
<1>4. r \in BindCmds /\ r.at = "clear" /\ ~r.bind /\ r.clear = l
  BY <1>3, NoCmdIs DEF BindCmds, BindStages
<1> HIDE DEF r
<1>5. CmdSound(r, proved', codesMade)
  BY <1>4 DEF CmdSound
<1>6. ASSUME ~bindOver' PROVE Once(code', spent') /\ Reached(r, bindUser', bindPeer', spent')
  <2>1. Agree(bindUser, bindPeer) /\ Once(code, spent)
    BY <1>1, <1>6, StartsAlone
  <2>2. Clearing(l, bindUser)
    BY <1>3 DEF Clearing
  <2>3. Covers(r, l, bindUser, bindPeer)
    BY <1>4 DEF Covers
  <2> QED
    BY <1>1, <1>4, <2>1, <2>2, <2>3 DEF Reached
<1> QED
  BY <1>1, <1>5, <1>6, BindMoved, CmdFacts

\* The first bind of a list that is left to clear, and the rest of it.
LEMMA FirstAndRest ==
    ASSUME NEW l \in Seq(Binds), l # <<>>
    PROVE  /\ Len(l) \in Nat \ {0} /\ l[1] \in Binds
           /\ l[1][1] \in Accounts /\ l[1][2] \in Phones /\ l[1] = <<l[1][1], l[1][2]>>
           /\ Tail(l) \in Seq(Binds) /\ Len(Tail(l)) = Len(l) - 1
           /\ \A i \in 1..Len(Tail(l)) : Tail(l)[i] = l[i + 1]
           /\ \A e \in Ahead(l) : e = l[1] \/ e \in Ahead(Tail(l))
<1>1. Len(l) \in Nat \ {0} /\ l[1] \in Binds
  OBVIOUS
<1>2. l[1][1] \in Accounts /\ l[1][2] \in Phones /\ l[1] = <<l[1][1], l[1][2]>>
  BY <1>1 DEF Binds
<1>3. /\ Tail(l) \in Seq(Binds) /\ Len(Tail(l)) = Len(l) - 1
      /\ \A i \in 1..Len(Tail(l)) : Tail(l)[i] = l[i + 1]
  OBVIOUS
<1>4. ASSUME NEW e \in Ahead(l), e # l[1] PROVE e \in Ahead(Tail(l))
  <2>1. PICK i \in 1..Len(l) : e = l[i]
    BY DEF Ahead
  <2>2. i - 1 \in 1..Len(Tail(l)) /\ i = (i - 1) + 1
    BY <1>1, <1>3, <1>4, <2>1
  <2>3. Tail(l)[i - 1] = e
    BY <1>3, <2>1, <2>2
  <2> QED
    BY <2>2, <2>3 DEF Ahead
<1> QED
  BY <1>1, <1>2, <1>3, <1>4

LEMMA ClearKeeps ==
    ASSUME BindInv, NEW k \in BindCommands, Bind!ClearUser(k)
    PROVE  BindInv'
<1>0. PICK m : m = bindCmd[k]
  OBVIOUS
<1>a. PICK l : l = m.clear
  OBVIOUS
<1> DEFINE r == [m EXCEPT !.at = "pointer"]
<1>1. /\ m.at = "clear" /\ l # <<>> /\ Bind!Continue(k, r)
      /\ bindUser' = [bindUser EXCEPT ![l[1][1]] = Nobody]
      /\ UNCHANGED <<bindPeer, code, codesMade, proved, spent>>
  BY <1>0, <1>a DEF Bind!ClearUser
<1>2. CmdSound(m, proved, codesMade) /\ Bind!UnderWay(k) /\ m \in BindCmds /\ l \in Seq(Binds)
  BY <1>0, <1>a, <1>1, CmdFacts DEF CmdSound, BindCmds
<1>3. /\ r \in BindCmds /\ r.at = "pointer" /\ r.bind = m.bind /\ r.clear = l
      /\ r.user = m.user /\ r.peer = m.peer
  BY <1>a, <1>2 DEF BindCmds, BindStages
<1> HIDE DEF r
<1>4. CmdSound(r, proved', codesMade)
  BY <1>1, <1>2, <1>3 DEF CmdSound
<1>5. PICK u \in Accounts, p \in Phones : u = l[1][1] /\ p = l[1][2] /\ l[1] = <<u, p>>
  BY <1>1, <1>2, FirstAndRest
<1>6. Pointing(bindUser', bindPeer', proved')
  BY <1>1, <1>5, CmdFacts DEF Pointing
<1>7. ASSUME ~bindOver' PROVE Once(code', spent') /\ Reached(r, bindUser', bindPeer', spent')
  <2>1. Reached(m, bindUser, bindPeer, spent) /\ Once(code, spent) /\ ~bindOver
    BY <1>0, <1>1, <1>2, <1>7, CmdFacts DEF Bind!Continue
  <2>2. Agree(bindUser, bindPeer) /\ Clearing(l, bindUser) /\ Covers(m, l, bindUser, bindPeer)
    BY <1>a, <1>1, <2>1 DEF Reached
  <2>3. bindUser[u] = p /\ bindPeer[p] = u
    BY <1>1, <1>2, <1>5, <2>2, FirstAndRest DEF Clearing, Agree
  <2>4. Nobody \notin Accounts /\ Nobody \notin Phones
    BY Assumed DEF Bind!BindAssumption
  <2>5. \A v \in Accounts : bindUser'[v] = IF v = u THEN Nobody ELSE bindUser[v]
    BY <1>1, <1>5, CmdFacts DEF Pointing
  <2>6. Cut(bindUser', bindPeer', l[1])
    <3>1. ASSUME NEW v \in Accounts, NEW q \in Phones, <<v, q>> # <<u, p>>
          PROVE  bindUser'[v] = q <=> bindPeer[q] = v
      BY <2>2, <2>3, <2>4, <2>5, <3>1 DEF Agree
    <3> QED
      BY <1>1, <1>5, <2>3, <2>5, <3>1 DEF Cut, Almost
  <2>7. Clearing(Tail(l), bindUser')
    <3>1. ASSUME NEW i \in 1..Len(Tail(l))
          PROVE  /\ i + 1 \in 1..Len(l) /\ Tail(l)[i] = l[i + 1]
                 /\ l[i + 1][1] \in Accounts /\ l[i + 1][1] # u
      <4>1. i + 1 \in 1..Len(l) /\ Tail(l)[i] = l[i + 1] /\ 1 \in 1..Len(l)
        BY <1>1, <1>2, FirstAndRest
      <4>2. l[i + 1] \in Binds
        BY <1>2, <4>1
      <4>3. l[i + 1][1] # u
        BY <1>5, <2>2, <4>1 DEF Clearing
      <4> QED
        BY <4>1, <4>2, <4>3 DEF Binds
    <3>2. \A i \in 1..Len(Tail(l)) : bindUser'[Tail(l)[i][1]] = Tail(l)[i][2]
      BY <2>2, <2>5, <3>1 DEF Clearing
    <3>3. ASSUME NEW i \in 1..Len(Tail(l)), NEW j \in 1..Len(Tail(l)), Tail(l)[i][1] = Tail(l)[j][1]
          PROVE  i = j
      <4>1. i + 1 = j + 1
        BY <2>2, <3>1, <3>3 DEF Clearing
      <4> QED
        BY <4>1
    <3> QED
      BY <3>2, <3>3 DEF Clearing
  <2>8. Covers(r, l, bindUser', bindPeer')
    <3> SUFFICES ASSUME m.bind PROVE Covers(r, l, bindUser', bindPeer')
      BY <1>3 DEF Covers
    <3>1. m.user \in Accounts
      BY <1>2 DEF CmdSound
    <3> QED
      BY <1>1, <1>3, <2>2, <2>5, <3>1 DEF Covers
  <2> QED
    BY <1>1, <1>3, <2>1, <2>6, <2>7, <2>8 DEF Reached
<1> QED
  BY <1>1, <1>2, <1>4, <1>6, <1>7, BindMoved, CmdFacts

LEMMA AskedKeeps ==
    ASSUME BindInv, NEW k \in BindCommands, Bind!PointerAsked(k)
    PROVE  BindInv'
<1>0. PICK m : m = bindCmd[k]
  OBVIOUS
<1>a. PICK l : l = m.clear
  OBVIOUS
<1> DEFINE d == [m EXCEPT !.at = "drop"]
           s == [m EXCEPT !.at = "clear", !.clear = Tail(l)]
<1>b. PICK own : own <=> bindPeer[l[1][2]] = l[1][1]
  OBVIOUS
<1>c. PICK r : r = IF own THEN d ELSE s
  OBVIOUS
<1>1. /\ m.at = "pointer" /\ Bind!Continue(k, r)
      /\ UNCHANGED <<bindUser, bindPeer, code, codesMade, proved, spent>>
  <2>1. Bind!Continue(k, IF bindPeer[l[1][2]] = l[1][1] THEN d ELSE [m EXCEPT !.at = "clear", !.clear = Tail(@)])
    BY <1>0, <1>a DEF Bind!PointerAsked
  <2>2. [m EXCEPT !.at = "clear", !.clear = Tail(@)] = s
    BY <1>a
  <2> QED
    BY <1>0, <1>b, <1>c, <2>1, <2>2 DEF Bind!PointerAsked
<1>2. /\ CmdSound(m, proved, codesMade) /\ Bind!UnderWay(k) /\ m \in BindCmds
      /\ l \in Seq(Binds) /\ l # <<>>
  BY <1>0, <1>a, <1>1, CmdFacts DEF CmdSound, BindCmds
<1>3. /\ d \in BindCmds /\ d.at = "drop" /\ d.bind = m.bind /\ d.clear = l
      /\ d.user = m.user /\ d.peer = m.peer
  BY <1>a, <1>2 DEF BindCmds, BindStages
<1>4. /\ s \in BindCmds /\ s.at = "clear" /\ s.bind = m.bind
      /\ s.user = m.user /\ s.peer = m.peer
  BY <1>2, FirstAndRest DEF BindCmds, BindStages
<1> HIDE DEF d, s
<1>5. CmdSound(r, proved', codesMade)
  <2>1. CmdSound(d, proved', codesMade)
    BY <1>1, <1>2, <1>3 DEF CmdSound
  <2>2. CmdSound(s, proved', codesMade)
    BY <1>1, <1>2, <1>4 DEF CmdSound
  <2> QED
    BY <1>c, <2>1, <2>2
<1>6. ASSUME ~bindOver' PROVE Once(code', spent') /\ Reached(r, bindUser', bindPeer', spent')
  <2>1. Reached(m, bindUser, bindPeer, spent) /\ Once(code, spent) /\ ~bindOver
    BY <1>0, <1>1, <1>2, <1>6, CmdFacts DEF Bind!Continue
  <2>2. /\ Cut(bindUser, bindPeer, l[1]) /\ Clearing(Tail(l), bindUser)
        /\ Covers(m, l, bindUser, bindPeer)
    BY <1>a, <1>1, <2>1 DEF Reached
  <2>3. r = d
    BY <1>b, <1>c, <2>2 DEF Cut
  <2>4. Covers(d, l, bindUser, bindPeer)
    BY <1>3, <2>2 DEF Covers
  <2> QED
    BY <1>1, <1>3, <2>1, <2>2, <2>3, <2>4 DEF Reached
<1> QED
  BY <1>1, <1>2, <1>5, <1>6, BindMoved, CmdFacts

LEMMA DropPointerKeeps ==
    ASSUME BindInv, NEW k \in BindCommands, Bind!DropPointer(k)
    PROVE  BindInv'
<1>0. PICK m : m = bindCmd[k]
  OBVIOUS
<1>a. PICK l : l = m.clear
  OBVIOUS
<1> DEFINE r == [m EXCEPT !.at = "clear", !.clear = Tail(l)]
<1>1. /\ m.at = "drop" /\ Bind!Continue(k, r)
      /\ bindPeer' = [bindPeer EXCEPT ![l[1][2]] = Nobody]
      /\ UNCHANGED <<bindUser, code, codesMade, proved, spent>>
  BY <1>0, <1>a DEF Bind!DropPointer
<1>2. /\ CmdSound(m, proved, codesMade) /\ Bind!UnderWay(k) /\ m \in BindCmds
      /\ l \in Seq(Binds) /\ l # <<>>
  BY <1>0, <1>a, <1>1, CmdFacts DEF CmdSound, BindCmds
<1>3. /\ r \in BindCmds /\ r.at = "clear" /\ r.bind = m.bind /\ r.clear = Tail(l)
      /\ r.user = m.user /\ r.peer = m.peer
  BY <1>2, FirstAndRest DEF BindCmds, BindStages
<1> HIDE DEF r
<1>4. CmdSound(r, proved', codesMade)
  BY <1>1, <1>2, <1>3 DEF CmdSound
<1>5. l[1][2] \in Phones
  BY <1>2, FirstAndRest
<1>6. Pointing(bindUser', bindPeer', proved')
  BY <1>1, <1>5, CmdFacts DEF Pointing
<1>7. ASSUME ~bindOver' PROVE Once(code', spent') /\ Reached(r, bindUser', bindPeer', spent')
  <2>1. Reached(m, bindUser, bindPeer, spent) /\ Once(code, spent) /\ ~bindOver
    BY <1>0, <1>1, <1>2, <1>7, CmdFacts DEF Bind!Continue
  <2>2. /\ Cut(bindUser, bindPeer, l[1]) /\ Clearing(Tail(l), bindUser)
        /\ Covers(m, l, bindUser, bindPeer)
    BY <1>a, <1>1, <2>1 DEF Reached
  <2>3. /\ bindUser \in [Accounts -> Phones \cup {Nobody}]
        /\ bindPeer \in [Phones -> Accounts \cup {Nobody}]
        /\ m.bind => m.user \in Accounts /\ m.peer \in Phones
    BY <1>2, CmdFacts DEF Pointing, CmdSound
  <2>4. PICK u \in Accounts, p \in Phones : l[1] = <<u, p>> /\ l[1][1] = u /\ l[1][2] = p
    BY <1>2, FirstAndRest
  <2>5. bindUser[u] = Nobody /\ bindPeer[p] = u /\ Almost(bindUser, bindPeer, <<u, p>>)
    BY <2>2, <2>4 DEF Cut
  <2>6. \A q \in Phones : bindPeer'[q] = IF q = p THEN Nobody ELSE bindPeer[q]
    BY <1>1, <2>3, <2>4
  <2>7. Nobody \notin Accounts /\ Nobody \notin Phones
    BY Assumed DEF Bind!BindAssumption
  <2>8. Agree(bindUser, bindPeer')
    <3>1. ASSUME NEW v \in Accounts, NEW q \in Phones PROVE bindUser[v] = q <=> bindPeer'[q] = v
      <4>1. CASE q = p /\ v = u
        BY <2>5, <2>6, <2>7, <4>1
      <4>2. CASE q = p /\ v # u
        BY <2>5, <2>6, <2>7, <4>2 DEF Almost
      <4>3. CASE q # p
        BY <2>5, <2>6, <4>3 DEF Almost
      <4> QED
        BY <4>1, <4>2, <4>3
    <3> QED
      BY <3>1 DEF Agree
  <2>9. Covers(r, Tail(l), bindUser, bindPeer')
    <3> SUFFICES ASSUME m.bind PROVE Covers(r, Tail(l), bindUser, bindPeer')
      BY <1>3 DEF Covers
    <3>1. \A e \in Ahead(l) : e = <<u, p>> \/ e \in Ahead(Tail(l))
      BY <1>2, <2>4, FirstAndRest
    <3>2. bindUser[m.user] # Nobody => <<m.user, bindUser[m.user]>> \in Ahead(Tail(l))
      BY <2>2, <2>5, <3>1 DEF Covers
    <3>3. bindPeer'[m.peer] # Nobody => <<bindPeer'[m.peer], m.peer>> \in Ahead(Tail(l))
      BY <2>2, <2>3, <2>6, <3>1 DEF Covers
    <3> QED
      BY <1>3, <3>2, <3>3 DEF Covers
  <2> QED
    BY <1>1, <1>3, <2>1, <2>2, <2>8, <2>9 DEF Reached
<1> QED
  BY <1>1, <1>2, <1>4, <1>6, <1>7, BindMoved, CmdFacts

LEMMA WriteUserKeeps ==
    ASSUME BindInv, NEW k \in BindCommands, Bind!WriteUser(k)
    PROVE  BindInv'
<1>0. PICK m : m = bindCmd[k]
  OBVIOUS
<1> DEFINE w == [m EXCEPT !.at = "peer"]
<1>1. /\ m.at = "clear" /\ m.clear = <<>>
      /\ IF m.bind THEN Bind!Continue(k, w) /\ bindUser' = [bindUser EXCEPT ![m.user] = m.peer]
                   ELSE Bind!Continue(k, Bind!NoCmd) /\ bindUser' = bindUser
      /\ UNCHANGED <<bindPeer, code, codesMade, proved, spent>>
  BY <1>0 DEF Bind!WriteUser
<1>2. CmdSound(m, proved, codesMade) /\ Bind!UnderWay(k) /\ m \in BindCmds
  BY <1>0, <1>1, CmdFacts DEF CmdSound
<1>3. /\ w \in BindCmds /\ w.at = "peer" /\ w.bind = m.bind
      /\ w.user = m.user /\ w.peer = m.peer
  BY <1>2 DEF BindCmds, BindStages
<1> HIDE DEF w
<1>4. ASSUME ~bindOver
      PROVE  /\ Once(code, spent) /\ Agree(bindUser, bindPeer)
             /\ Covers(m, <<>>, bindUser, bindPeer)
  <2>1. Reached(m, bindUser, bindPeer, spent) /\ Once(code, spent)
    BY <1>0, <1>2, <1>4, CmdFacts
  <2> QED
    BY <1>1, <2>1 DEF Reached
<1>5. CASE ~m.bind
  <2>1. CmdSound(Bind!NoCmd, proved', codesMade)
    BY NoCmdIs DEF CmdSound
  <2>2. ASSUME ~bindOver' PROVE Once(code', spent') /\ Reached(Bind!NoCmd, bindUser', bindPeer', spent')
    BY <1>1, <1>4, <1>5, <2>2, NoCmdIs DEF Reached, Bind!Continue
  <2> QED
    BY <1>1, <1>2, <1>5, <2>1, <2>2, BindMoved, CmdFacts
<1>6. CASE m.bind
  <2>1. CmdSound(w, proved', codesMade)
    BY <1>1, <1>2, <1>3, <1>6 DEF CmdSound
  <2>2. PICK u \in Accounts, p \in Phones : u = m.user /\ p = m.peer /\ <<u, p>> \in proved
    BY <1>1, <1>2, <1>6 DEF CmdSound
  <2>3. \A v \in Accounts : bindUser'[v] = IF v = u THEN p ELSE bindUser[v]
    BY <1>1, <1>6, <2>2, CmdFacts DEF Pointing
  <2>4. Pointing(bindUser', bindPeer', proved')
    BY <1>1, <1>6, <2>2, <2>3, CmdFacts DEF Pointing
  <2>5. ASSUME ~bindOver' PROVE Once(code', spent') /\ Reached(w, bindUser', bindPeer', spent')
    <3>1. Once(code, spent) /\ Agree(bindUser, bindPeer) /\ Covers(m, <<>>, bindUser, bindPeer)
      BY <1>1, <1>4, <1>6, <2>5 DEF Bind!Continue
    <3>2. Ahead(<<>>) = {}
      BY DEF Ahead
    <3>3. bindUser[u] = Nobody /\ bindPeer[p] = Nobody
      BY <1>6, <2>2, <3>1, <3>2 DEF Covers
    <3>4. Nobody \notin Accounts /\ Nobody \notin Phones
      BY Assumed DEF Bind!BindAssumption
    <3>5. ASSUME NEW v \in Accounts, NEW q \in Phones, <<v, q>> # <<u, p>>
          PROVE  bindUser'[v] = q <=> bindPeer[q] = v
      BY <2>3, <3>1, <3>3, <3>4, <3>5 DEF Agree
    <3>6. Half(bindUser', bindPeer', <<u, p>>)
      BY <1>1, <2>3, <3>3, <3>5 DEF Half, Almost
    <3> QED
      BY <1>1, <1>3, <2>2, <3>1, <3>6 DEF Reached
  <2> QED
    BY <1>1, <1>2, <1>6, <2>1, <2>4, <2>5, BindMoved, CmdFacts
<1> QED
  BY <1>5, <1>6

LEMMA WritePeerKeeps ==
    ASSUME BindInv, NEW k \in BindCommands, Bind!WritePeer(k)
    PROVE  BindInv'
<1>0. PICK m : m = bindCmd[k]
  OBVIOUS
<1>1. /\ m.at = "peer" /\ Bind!Continue(k, Bind!NoCmd)
      /\ bindPeer' = [bindPeer EXCEPT ![m.peer] = m.user]
      /\ UNCHANGED <<bindUser, code, codesMade, proved, spent>>
  BY <1>0 DEF Bind!WritePeer
<1>2. CmdSound(m, proved, codesMade) /\ Bind!UnderWay(k)
  BY <1>0, <1>1, CmdFacts
<1>3. PICK u \in Accounts, p \in Phones : u = m.user /\ p = m.peer /\ <<u, p>> \in proved
  BY <1>1, <1>2 DEF CmdSound
<1>4. CmdSound(Bind!NoCmd, proved', codesMade)
  BY NoCmdIs DEF CmdSound
<1>5. \A q \in Phones : bindPeer'[q] = IF q = p THEN u ELSE bindPeer[q]
  BY <1>1, <1>3, CmdFacts DEF Pointing
<1>6. Pointing(bindUser', bindPeer', proved')
  BY <1>1, <1>3, <1>5, CmdFacts DEF Pointing
<1>7. ASSUME ~bindOver' PROVE Once(code', spent') /\ Reached(Bind!NoCmd, bindUser', bindPeer', spent')
  <2>1. Reached(m, bindUser, bindPeer, spent) /\ Once(code, spent)
    BY <1>0, <1>1, <1>2, <1>7, CmdFacts DEF Bind!Continue
  <2>2. bindUser[u] = p /\ bindPeer[p] = Nobody /\ Almost(bindUser, bindPeer, <<u, p>>)
    BY <1>1, <1>3, <2>1 DEF Reached, Half
  <2>3. ASSUME NEW v \in Accounts, NEW q \in Phones PROVE bindUser[v] = q <=> bindPeer'[q] = v
    <3>1. CASE q = p /\ v = u
      BY <1>5, <2>2, <3>1
    <3>2. CASE q = p /\ v # u
      <4>1. bindPeer[q] # v
        BY <2>2, <3>2, Assumed DEF Bind!BindAssumption
      <4> QED
        BY <1>5, <2>2, <3>2, <4>1 DEF Almost
    <3>3. CASE q # p
      BY <1>5, <2>2, <3>3 DEF Almost
    <3> QED
      BY <3>1, <3>2, <3>3
  <2> QED
    BY <1>1, <2>1, <2>3, NoCmdIs DEF Reached, Agree
<1> QED
  BY <1>1, <1>2, <1>4, <1>6, <1>7, BindMoved, CmdFacts

LEMMA BindKeeps ==
    ASSUME BindInv, [Bind!BindNext]_(Bind!bindVars) PROVE BindInv'
<1>1. CASE UNCHANGED Bind!bindVars
  BY <1>1 DEF Bind!bindVars, BindInv, Bind!UnderWay
<1>2. ASSUME NEW k \in BindCommands, NEW p \in Phones, Bind!UnbindPeer(k, p) PROVE BindInv'
  <2>1. bindPeer[p] \in Accounts /\ Bind!Unbind(k, bindPeer[p])
    BY <1>2, CmdFacts DEF Bind!UnbindPeer, Pointing
  <2> QED
    BY <2>1, UnbindKeeps
<1> QED
  BY <1>1, <1>2, CreateKeeps, ExpiresKeeps, TakeKeeps, DropCodeKeeps, LookKeeps, UnbindKeeps, ClearKeeps,
     AskedKeeps, DropPointerKeeps, WriteUserKeeps, WritePeerKeeps DEF Bind!BindNext

LEMMA BindInvariant == RecordsSpec => [](InBind => BindInv)
<1>1. RecordsInit => (InBind => BindInv)
  BY BindInitHolds DEF RecordsInit, InBind
<1>2. (InBind => BindInv) /\ [RecordsNext]_recordsVars => (InBind => BindInv)'
  BY PartSteps, BindKeeps DEF InBind
<1> QED
  BY <1>1, <1>2, PTL DEF RecordsSpec

\* For any users, peers, codes and commands: a peer is only ever taken for a user
\* whose code it sent; and as long as no two commands overlapped, a code binds once
\* and the two pointers agree whenever no command is under way.
THEOREM BindsKept == RecordsSpec => []BindsAgree
<1>1. (InBind => BindInv) => BindsAgree
  <2> SUFFICES ASSUME BindInv PROVE Bind!BindsAgree
    BY DEF BindsAgree, InBind
  <2>1. /\ \A p \in Phones : bindPeer[p] # Nobody => <<bindPeer[p], p>> \in proved
        /\ \A u \in Accounts : bindUser[u] # Nobody => <<u, bindUser[u]>> \in proved
    BY DEF BindInv, Pointing
  <2>2. ASSUME ~bindOver PROVE \A c \in Bind!BindCodes : spent[c] <= 1
    BY <2>2 DEF BindInv, Once
  <2>3. ASSUME ~bindOver, \A k \in BindCommands : ~Bind!UnderWay(k)
        PROVE  \A u \in Accounts, p \in Phones : bindUser[u] = p <=> bindPeer[p] = u
    BY <2>3 DEF BindInv, Agree
  <2> QED
    BY <2>1, <2>2, <2>3, Zenon DEF Bind!BindsAgree
<1> QED
  BY <1>1, BindInvariant, PTL

-----------------------------------------------------------------------------
(* Personas                                                                *)

Versions == [persona : PersonaIds, graph : Graphs \cup {Nil}]
CallOps == {"none", "create", "default", "edit", "publish", "fork", "switch", "add", "remove", "assign"}
CallStages == {"end", "pointed", "unpoint", "store", "default", "index", "write", "switch", "load",
               "version", "publish", "forked", "reply"}
CallRecs == [op : CallOps, at : CallStages, id : PersonaIds \cup {Nil},
             by : Owners \cup {Official, Nil}, row : Persona!PersonaRows \cup {Nil},
             graph : Graphs \cup {Nil}, source : PersonaIds \cup {Nil},
             sourceRow : Persona!PersonaRows \cup {Nil}, publish : BOOLEAN,
             read : Persona!PersonaRows \cup {Nil}, version : Nat]

\* The n-th version that was written is one of persona i; a row of i names one.
Own(written, i, n) == n \in 1..Len(written) /\ written[n].persona = i
Holds(written, i, row) == row \in Persona!PersonaRows /\ Own(written, i, row.version)

\* What a request carries: a row that names a version of its persona, unless it is
\* yet to be stored, and at the end of a publication the number of the new one.
CallSound(q, table, written) ==
    /\ q \in CallRecs
    /\ q.at # "end" => q.id \in PersonaIds
    /\ q.at \in {"store", "pointed", "unpoint"} => q.row \in Persona!PersonaRows
    /\ q.at \in {"pointed", "unpoint"} /\ q.op # "create" =>
         Holds(written, q.id, q.row) /\ table[q.id] # Nil
    /\ q.at \in {"default", "index", "write", "switch", "forked"} => Holds(written, q.id, q.row)
    /\ q.at \notin {"end", "store", "pointed", "unpoint"} => table[q.id] # Nil
    /\ q.op = "fork" => q.at \notin {"pointed", "unpoint", "default", "index", "write", "switch"}
    /\ q.at = "forked" => q.op = "fork"
    /\ q.at = "index" => q.op = "edit"
    /\ q.op = "fork" /\ q.at # "end" =>
         q.source \in PersonaIds \ {q.id} /\ Holds(written, q.source, q.sourceRow)
    /\ q.op = "fork" /\ q.at \in {"load", "version", "publish"} => Holds(written, q.id, q.row)
    /\ q.at \in {"version", "publish"} => q.read \in Persona!PersonaRows
    /\ q.at = "publish" => Own(written, q.id, q.version)

\* The square lists what is enabled and public; it does once `row` is written as
\* that of persona i.
Shown(table, i) == table[i] # Nil /\ Persona!Square(table[i])
Exact(table, set) == \A i \in PersonaIds : i \in set <=> Shown(table, i)
ExactWith(table, set, i, row) ==
    \A j \in PersonaIds : j \in set <=> IF j = i THEN Persona!Square(row) ELSE Shown(table, j)
Alike(row, other) == Persona!Square(row) <=> Persona!Square(other)

\* How a request that is alone finds the square.
SquareNow(q, table, set) ==
    /\ q.at # "write" => Exact(table, set)
    /\ q.at = "write" => ExactWith(table, set, q.id, q.row)
    /\ q.at = "write" /\ q.op # "edit" => Exact(table, set)
    /\ q.at \in {"pointed", "unpoint"} /\ q.op # "create" => Shown(table, q.id) <=> Persona!Square(q.row)
    /\ q.at \in {"default", "forked"} => Shown(table, q.id) <=> Persona!Square(q.row)
    /\ q.op = "fork" /\ q.at # "end" => Shown(table, q.source) <=> Persona!Square(q.sourceRow)
    /\ q.op = "fork" /\ q.at \in {"load", "version", "publish"} =>
         Shown(table, q.id) <=> Persona!Square(q.row)
    /\ q.at \in {"version", "publish"} => Shown(table, q.id) <=> Persona!Square(q.read)
    /\ q.at = "switch" => q.row.visibility = table[q.id].visibility

Table(table, written, set, books) ==
    /\ written \in Seq(Versions)
    /\ \A i \in PersonaIds : table[i] # Nil => Holds(written, i, table[i])
    /\ set \subseteq PersonaIds
    /\ books \in [Owners -> SUBSET PersonaIds]
    /\ \A u \in Owners : \A i \in books[u] : table[i] # Nil

\* No two requests overlapped, and no edit broke off between the square and its row.
Smooth == ~raced /\ ~cut

PersonaInv ==
    /\ DOMAIN persona = PersonaIds /\ persona = [i \in PersonaIds |-> persona[i]]
    /\ Table(persona, versions, publicSet, library)
    /\ defaultPtr \in PersonaIds \cup {Nil}
    /\ assignment \in [Peers -> PersonaIds \cup {Nil}]
    /\ call \in [Calls -> CallRecs]
    /\ calls \in 0..MaxCalls /\ raced \in BOOLEAN /\ cut \in BOOLEAN
    /\ \A c \in Calls : CallSound(call[c], persona, versions)
    /\ \A c \in Calls : call[c].at = "end" <=> call[c] = Persona!NoCall
    /\ Smooth =>
         /\ \A c, d \in Calls : call[c] # Persona!NoCall /\ call[d] # Persona!NoCall => c = d
         /\ \A c \in Calls : call[c] # Persona!NoCall => SquareNow(call[c], persona, publicSet)
         /\ (\A c \in Calls : call[c] = Persona!NoCall) => Exact(persona, publicSet)

LEMMA NoCallIs ==
    /\ Persona!NoCall \in CallRecs /\ Persona!NoCall.op = "none" /\ Persona!NoCall.at = "end"
    /\ Persona!NoCall.id = Nil /\ Persona!NoCall.by = Nil /\ Persona!NoCall.row = Nil
    /\ Persona!NoCall.graph = Nil /\ Persona!NoCall.source = Nil /\ Persona!NoCall.sourceRow = Nil
    /\ Persona!NoCall.publish = FALSE /\ Persona!NoCall.read = Nil /\ Persona!NoCall.version = 0
BY DEF Persona!NoCall, CallRecs, CallOps, CallStages

LEMMA PersonaInitHolds == ASSUME Persona!Init PROVE PersonaInv
<1>1. /\ persona = [i \in PersonaIds |-> Nil] /\ versions = <<>> /\ publicSet = {}
      /\ library = [u \in Owners |-> {}] /\ defaultPtr = Nil
      /\ assignment = [p \in Peers |-> Nil] /\ call = [c \in Calls |-> Persona!NoCall]
      /\ calls = 0 /\ raced = FALSE /\ cut = FALSE
  BY DEF Persona!Init
<1>2. \A i \in PersonaIds : persona[i] = Nil
  BY <1>1
<1>3. \A c \in Calls : call[c] = Persona!NoCall
  BY <1>1
<1>4. CallSound(Persona!NoCall, persona, versions)
  BY NoCallIs DEF CallSound
<1>5. call \in [Calls -> CallRecs] /\ calls \in 0..MaxCalls
  BY <1>1, NoCallIs, Assumed DEF Persona!PersonaAssumption
<1>6. <<>> \in Seq(Versions)
  OBVIOUS
<1>7. Table(persona, versions, publicSet, library)
  BY <1>1, <1>2, <1>6 DEF Table
<1>8. Exact(persona, publicSet)
  BY <1>1, <1>2 DEF Exact, Shown
<1>9. DOMAIN persona = PersonaIds /\ persona = [i \in PersonaIds |-> persona[i]]
  BY <1>1
<1> QED
  BY <1>1, <1>3, <1>4, <1>5, <1>7, <1>8, <1>9, NoCallIs DEF PersonaInv

\* Rows are not taken away and versions only added.
Grown(table, new, written, longer) ==
    /\ \A i \in PersonaIds : table[i] # Nil => new[i] # Nil
    /\ Len(written) <= Len(longer)
    /\ \A n \in 1..Len(written) : longer[n] = written[n]

LEMMA OwnStays ==
    ASSUME NEW written \in Seq(Versions), NEW longer \in Seq(Versions),
           Len(written) <= Len(longer), \A n \in 1..Len(written) : longer[n] = written[n],
           NEW i, NEW n, Own(written, i, n)
    PROVE  Own(longer, i, n)
BY DEF Own

LEMMA CallStays ==
    ASSUME NEW q, NEW table, NEW new, NEW written \in Seq(Versions), NEW longer \in Seq(Versions),
           Grown(table, new, written, longer), CallSound(q, table, written)
    PROVE  CallSound(q, new, longer)
<1>1. \A i, n : Own(written, i, n) => Own(longer, i, n)
  BY OwnStays DEF Grown
<1>2. \A i, row : Holds(written, i, row) => Holds(longer, i, row)
  BY <1>1, Zenon DEF Holds
<1>3. q.id \in PersonaIds /\ table[q.id] # Nil => new[q.id] # Nil
  BY DEF Grown
<1> QED
  BY <1>1, <1>2, <1>3 DEF CallSound

\* A step of a request keeps the invariant when what it leaves behind does.
LEMMA PersonaMoved ==
    ASSUME PersonaInv, NEW c \in Calls, NEW r,
           \/ call[c] # Persona!NoCall /\ Persona!Then(c, r)
           \/ Persona!Begin(c, r)
           \/ Persona!BreaksOff(c) /\ r = Persona!NoCall,
           DOMAIN persona' = PersonaIds, persona' = [i \in PersonaIds |-> persona'[i]],
           Table(persona', versions', publicSet', library'),
           Grown(persona, persona', versions, versions'),
           defaultPtr' \in PersonaIds \cup {Nil},
           assignment' \in [Peers -> PersonaIds \cup {Nil}],
           CallSound(r, persona', versions'),
           r.at = "end" <=> r = Persona!NoCall,
           Smooth' => SquareNow(r, persona', publicSet')
    PROVE  PersonaInv'
<1> USE DEF PersonaInv
<1>1. call' = [call EXCEPT ![c] = r] /\ r \in CallRecs
  BY DEF Persona!Then, Persona!Begin, Persona!BreaksOff, CallSound
<1>2. calls' \in 0..MaxCalls
  BY Assumed DEF Persona!Then, Persona!Begin, Persona!BreaksOff, Persona!PersonaAssumption
<1>3. raced' \in BOOLEAN /\ cut' \in BOOLEAN /\ (Smooth' => Smooth)
  BY DEF Persona!Then, Persona!Begin, Persona!BreaksOff, Smooth
<1>4. ASSUME Smooth' PROVE \A d \in Calls : d # c => call[d] = Persona!NoCall
  <2>1. CASE call[c] # Persona!NoCall
    BY <1>3, <1>4, <2>1, Zenon
  <2>2. CASE Persona!Begin(c, r)
    BY <1>4, <2>2, Zenon DEF Persona!Begin, Smooth
  <2>3. CASE Persona!BreaksOff(c)
    BY <1>3, <1>4, <2>3, Zenon DEF Persona!BreaksOff
  <2> QED
    BY <2>1, <2>2, <2>3
<1>5. call' \in [Calls -> CallRecs] /\ call'[c] = r /\ \A d \in Calls : d # c => call'[d] = call[d]
  BY <1>1
<1>6. \A d \in Calls : CallSound(call'[d], persona', versions')
  <2> SUFFICES ASSUME NEW d \in Calls, d # c PROVE CallSound(call'[d], persona', versions')
    BY <1>5
  <2>1. CallSound(call[d], persona, versions) /\ versions \in Seq(Versions) /\ versions' \in Seq(Versions)
    BY DEF Table
  <2> QED
    BY <1>5, <2>1, CallStays
<1>7. \A d \in Calls : call'[d].at = "end" <=> call'[d] = Persona!NoCall
  <2> SUFFICES ASSUME NEW d \in Calls PROVE call'[d].at = "end" <=> call'[d] = Persona!NoCall
    OBVIOUS
  <2> QED
    BY <1>5
<1>8. ASSUME Smooth', \A d \in Calls : call'[d] = Persona!NoCall PROVE Exact(persona', publicSet')
  BY <1>5, <1>8, NoCallIs DEF SquareNow
<1>9. ASSUME Smooth' PROVE \A d \in Calls : call'[d] # Persona!NoCall => d = c
  BY <1>4, <1>5, <1>9
<1> QED
  BY <1>2, <1>3, <1>5, <1>6, <1>7, <1>8, <1>9, Zenon

\* What the invariant says of one request.
LEMMA CallFacts ==
    ASSUME PersonaInv, NEW c \in Calls
    PROVE  /\ CallSound(call[c], persona, versions)
           /\ call[c].at = "end" <=> call[c] = Persona!NoCall
           /\ Table(persona, versions, publicSet, library)
           /\ versions \in Seq(Versions)
           /\ DOMAIN persona = PersonaIds /\ persona = [i \in PersonaIds |-> persona[i]]
           /\ defaultPtr \in PersonaIds \cup {Nil}
           /\ assignment \in [Peers -> PersonaIds \cup {Nil}]
           /\ Smooth /\ call[c] # Persona!NoCall => SquareNow(call[c], persona, publicSet)
           /\ Nil \notin Persona!PersonaRows /\ Nil \notin PersonaIds
BY Zenon, Assumed DEF PersonaInv, Table, Persona!PersonaAssumption

LEMMA BegunAlone ==
    ASSUME PersonaInv, NEW c \in Calls, NEW r, Persona!Begin(c, r), Smooth'
    PROVE  Exact(persona, publicSet)
<1>1. Smooth /\ \A d \in Calls : call[d] = Persona!NoCall
  BY Zenon DEF Persona!Begin, Smooth
<1> QED
  BY <1>1, Zenon DEF PersonaInv

LEMMA Unchanged == \A table, written : written \in Seq(Versions) => Grown(table, table, written, written)
BY DEF Grown

\* A request begins: no row changes.
LEMMA Begun ==
    ASSUME PersonaInv, NEW c \in Calls, NEW r, Persona!Begin(c, r),
           UNCHANGED <<persona, versions, publicSet, defaultPtr>>,
           Table(persona, versions, publicSet, library'),
           assignment' \in [Peers -> PersonaIds \cup {Nil}],
           CallSound(r, persona, versions), r.at # "end",
           Exact(persona, publicSet) => SquareNow(r, persona, publicSet)
    PROVE  PersonaInv'
<1>1. Smooth' => SquareNow(r, persona', publicSet')
  BY BegunAlone
<1>2. Grown(persona, persona', versions, versions')
  BY CallFacts, Unchanged
<1>3. r.at = "end" <=> r = Persona!NoCall
  BY NoCallIs
<1>4. Table(persona', versions', publicSet', library') /\ CallSound(r, persona', versions')
  BY DEF Table, CallSound
<1>5. DOMAIN persona' = PersonaIds /\ persona' = [i \in PersonaIds |-> persona'[i]]
      /\ defaultPtr' \in PersonaIds \cup {Nil}
  BY CallFacts
<1> QED
  BY <1>1, <1>2, <1>3, <1>4, <1>5, PersonaMoved

LEMMA RowIs ==
    ASSUME PersonaInv, NEW c \in Calls, NEW i \in PersonaIds, persona[i] # Nil
    PROVE  /\ Holds(versions, i, persona[i]) /\ persona[i] \in Persona!PersonaRows
           /\ versions[persona[i].version].graph \in Graphs \cup {Nil}
<1>1. Holds(versions, i, persona[i]) /\ versions \in Seq(Versions)
  BY CallFacts DEF Table
<1>2. versions[persona[i].version] \in Versions
  BY <1>1 DEF Holds, Own
<1> QED
  BY <1>1, <1>2 DEF Holds, Versions

\* A row with another flag, with another visibility, switched on or off, or that
\* names another version.
LEMMA RowsChanged ==
    ASSUME NEW row \in Persona!PersonaRows
    PROVE  /\ \A b \in BOOLEAN :
                /\ [row EXCEPT !.isDefault = b] \in Persona!PersonaRows
                /\ [row EXCEPT !.isDefault = b].version = row.version
                /\ Alike([row EXCEPT !.isDefault = b], row)
           /\ \A v \in {"public", "private"} :
                /\ [row EXCEPT !.visibility = v] \in Persona!PersonaRows
                /\ [row EXCEPT !.visibility = v].version = row.version
           /\ \A b \in BOOLEAN :
                /\ [row EXCEPT !.enabled = b] \in Persona!PersonaRows
                /\ [row EXCEPT !.enabled = b].version = row.version
                /\ [row EXCEPT !.enabled = b].visibility = row.visibility
           /\ \A n \in Nat \ {0} :
                /\ [row EXCEPT !.version = n] \in Persona!PersonaRows
                /\ [row EXCEPT !.version = n].version = n
                /\ Alike([row EXCEPT !.version = n], row)
BY DEF Persona!PersonaRows, Alike, Persona!Square

LEMMA CreateBegins ==
    ASSUME PersonaInv, NEW c \in Calls, NEW u \in Owners \cup {Official}, NEW i \in PersonaIds,
           NEW v \in {"public", "private"}, NEW d \in BOOLEAN, Persona!Create(c, u, i, v, d)
    PROVE  PersonaInv'
<1>0. PICK w : w = Persona!NewPersona(u, v, d)
  OBVIOUS
<1>a. PICK at : at = IF d THEN "pointed" ELSE "store"
  OBVIOUS
<1> DEFINE r == [Persona!NoCall EXCEPT !.op = "create", !.id = i, !.by = u, !.at = at, !.row = w]
<1>1. Persona!Begin(c, r) /\ UNCHANGED <<persona, versions, publicSet, library, defaultPtr, assignment>>
  BY <1>0, <1>a DEF Persona!Create, Persona!Kept
<1>2. w \in Persona!PersonaRows
  BY <1>0 DEF Persona!NewPersona, Persona!PersonaRows
<1>3. at \in {"pointed", "store"}
  BY <1>a
<1>4. r \in CallRecs /\ r.op = "create" /\ r.id = i /\ r.at = at /\ r.row = w
  BY <1>2, <1>3, NoCallIs, ZenonT(30) DEF CallRecs, CallOps, CallStages
<1> HIDE DEF r
<1>5. CallSound(r, persona, versions)
  BY <1>2, <1>3, <1>4 DEF CallSound
<1>6. Exact(persona, publicSet) => SquareNow(r, persona, publicSet)
  BY <1>3, <1>4 DEF SquareNow
<1> QED
  BY <1>1, <1>3, <1>4, <1>5, <1>6, Begun, CallFacts

LEMMA DefaultBegins ==
    ASSUME PersonaInv, NEW c \in Calls, NEW i \in PersonaIds, Persona!SetDefault(c, i)
    PROVE  PersonaInv'
<1>0. PICK w : w = [persona[i] EXCEPT !.isDefault = TRUE]
  OBVIOUS
<1> DEFINE r == [Persona!NoCall EXCEPT !.op = "default", !.at = "pointed", !.id = i, !.row = w]
<1>1. /\ Persona!Begin(c, r) /\ persona[i] # Nil
      /\ UNCHANGED <<persona, versions, publicSet, library, defaultPtr, assignment>>
  BY <1>0 DEF Persona!SetDefault, Persona!Kept, Persona!Live
<1>2. Holds(versions, i, w) /\ w \in Persona!PersonaRows /\ Alike(w, persona[i])
  BY <1>0, <1>1, RowIs, RowsChanged DEF Holds
<1>3. r \in CallRecs /\ r.op = "default" /\ r.id = i /\ r.at = "pointed" /\ r.row = w
  BY <1>2, NoCallIs DEF CallRecs, CallOps, CallStages
<1> HIDE DEF r
<1>4. CallSound(r, persona, versions)
  BY <1>1, <1>2, <1>3 DEF CallSound
<1>5. Exact(persona, publicSet) => SquareNow(r, persona, publicSet)
  BY <1>1, <1>2, <1>3 DEF SquareNow, Shown, Alike
<1> QED
  BY <1>1, <1>3, <1>4, <1>5, Begun, CallFacts

LEMMA EditBegins ==
    ASSUME PersonaInv, NEW c \in Calls, NEW u \in Owners \cup {Official}, NEW i \in PersonaIds,
           NEW v \in {"public", "private", "same"}, NEW p \in BOOLEAN, NEW g \in Graphs \cup {Nil},
           Persona!Edit(c, u, i, v, p, g)
    PROVE  PersonaInv'
<1>0. PICK w : w = IF v = "same" THEN persona[i] ELSE [persona[i] EXCEPT !.visibility = v]
  OBVIOUS
<1>a. PICK at : at = IF v = "same" THEN "write" ELSE "index"
  OBVIOUS
<1> DEFINE r == [Persona!NoCall EXCEPT !.op = "edit", !.id = i, !.by = u, !.publish = p,
                                       !.graph = g, !.at = at, !.row = w]
<1>1. /\ Persona!Begin(c, r) /\ persona[i] # Nil
      /\ UNCHANGED <<persona, versions, publicSet, library, defaultPtr, assignment>>
  BY <1>0, <1>a DEF Persona!Edit, Persona!Kept
<1>2. Holds(versions, i, w) /\ w \in Persona!PersonaRows
  <2>1. Holds(versions, i, persona[i]) /\ persona[i] \in Persona!PersonaRows
    BY <1>1, RowIs
  <2>2. CASE v = "same"
    BY <1>0, <2>1, <2>2
  <2>3. CASE v \in {"public", "private"}
    <3>1. w = [persona[i] EXCEPT !.visibility = v]
      BY <1>0, <2>3
    <3>2. w \in Persona!PersonaRows /\ w.version = persona[i].version
      BY <2>1, <2>3, <3>1, RowsChanged
    <3> QED
      BY <2>1, <3>2 DEF Holds
  <2> QED
    BY <2>2, <2>3
<1>3. at \in {"write", "index"} /\ (at = "write" => w = persona[i])
  BY <1>0, <1>a
<1>4. r \in CallRecs /\ r.op = "edit" /\ r.id = i /\ r.at = at /\ r.row = w
  <2>1. r \in CallRecs
    <3>1. PICK none : none = Persona!NoCall
      OBVIOUS
    <3>2. PICK s : s = [none EXCEPT !.op = "edit", !.id = i, !.by = u]
      OBVIOUS
    <3>3. PICK t : t = [s EXCEPT !.publish = p]
      OBVIOUS
    <3>4. s \in CallRecs
      BY <3>1, <3>2, NoCallIs, ZenonT(30) DEF CallRecs, CallOps
    <3>5. t \in CallRecs
      BY <3>3, <3>4 DEF CallRecs
    <3>6. [t EXCEPT !.graph = g, !.at = at, !.row = w] \in CallRecs
      BY <1>2, <1>3, <3>5 DEF CallRecs, CallStages
    <3>7. r = [t EXCEPT !.graph = g, !.at = at, !.row = w]
      BY <3>1, <3>2, <3>3, NoCallIs DEF CallRecs
    <3> QED
      BY <3>6, <3>7
  <2>2. r.op = "edit" /\ r.id = i /\ r.at = at /\ r.row = w
    BY NoCallIs DEF CallRecs
  <2> QED
    BY <2>1, <2>2
<1> HIDE DEF r
<1>5. CallSound(r, persona, versions)
  BY <1>1, <1>2, <1>3, <1>4 DEF CallSound
<1>6. Exact(persona, publicSet) => SquareNow(r, persona, publicSet)
  BY <1>1, <1>3, <1>4 DEF SquareNow, Exact, ExactWith, Shown
<1> QED
  BY <1>1, <1>3, <1>4, <1>5, <1>6, Begun, CallFacts

LEMMA PublishBegins ==
    ASSUME PersonaInv, NEW c \in Calls, NEW i \in PersonaIds, Persona!PublishByAdmin(c, i)
    PROVE  PersonaInv'
<1> DEFINE r == [Persona!NoCall EXCEPT !.op = "publish", !.at = "load", !.id = i]
<1>1. /\ Persona!Begin(c, r) /\ persona[i] # Nil
      /\ UNCHANGED <<persona, versions, publicSet, library, defaultPtr, assignment>>
  BY DEF Persona!PublishByAdmin, Persona!Kept
<1>2. r \in CallRecs /\ r.op = "publish" /\ r.id = i /\ r.at = "load"
  BY NoCallIs DEF CallRecs, CallOps, CallStages
<1> HIDE DEF r
<1>3. CallSound(r, persona, versions)
  BY <1>1, <1>2 DEF CallSound
<1>4. Exact(persona, publicSet) => SquareNow(r, persona, publicSet)
  BY <1>1, <1>2 DEF SquareNow
<1> QED
  BY <1>1, <1>2, <1>3, <1>4, Begun, CallFacts

LEMMA ForkBegins ==
    ASSUME PersonaInv, NEW c \in Calls, NEW u \in Owners, NEW admin \in BOOLEAN,
           NEW i \in PersonaIds, NEW s \in PersonaIds, Persona!Fork(c, u, admin, i, s)
    PROVE  PersonaInv'
<1>0. PICK w : w = Persona!NewPersona(u, "private", FALSE)
  OBVIOUS
<1>a. PICK g : g = Persona!GraphOf(s)
  OBVIOUS
<1>b. PICK x : x = persona[s]
  OBVIOUS
<1> DEFINE r == [Persona!NoCall EXCEPT !.op = "fork", !.at = "store", !.id = i, !.by = u,
                   !.graph = g, !.source = s, !.sourceRow = x, !.row = w]
<1>1. /\ Persona!Begin(c, r) /\ persona[s] # Nil /\ persona[i] = Nil
      /\ UNCHANGED <<persona, versions, publicSet, library, defaultPtr, assignment>>
  BY <1>0, <1>a, <1>b DEF Persona!Fork, Persona!Kept, Persona!MayFork, Persona!Live, Persona!FreshId
<1>2. w \in Persona!PersonaRows
  BY <1>0 DEF Persona!NewPersona, Persona!PersonaRows
<1>3. Holds(versions, s, x) /\ x \in Persona!PersonaRows /\ g \in Graphs \cup {Nil}
  BY <1>a, <1>b, <1>1, RowIs DEF Persona!GraphOf
<1>4. /\ r \in CallRecs /\ r.op = "fork" /\ r.id = i /\ r.at = "store" /\ r.row = w
      /\ r.source = s /\ r.sourceRow = x
  BY <1>2, <1>3, NoCallIs DEF CallRecs, CallOps, CallStages
<1> HIDE DEF r
<1>5. CallSound(r, persona, versions)
  BY <1>1, <1>2, <1>3, <1>4 DEF CallSound
<1>6. Exact(persona, publicSet) => SquareNow(r, persona, publicSet)
  BY <1>b, <1>1, <1>4 DEF SquareNow, Shown
<1> QED
  BY <1>1, <1>4, <1>5, <1>6, Begun, CallFacts

LEMMA SwitchBegins ==
    ASSUME PersonaInv, NEW c \in Calls, NEW i \in PersonaIds, NEW on \in BOOLEAN,
           Persona!Switch(c, i, on)
    PROVE  PersonaInv'
<1>0. PICK w : w = [persona[i] EXCEPT !.enabled = on]
  OBVIOUS
<1> DEFINE r == [Persona!NoCall EXCEPT !.op = "switch", !.at = "switch", !.id = i, !.row = w]
<1>1. /\ Persona!Begin(c, r) /\ persona[i] # Nil
      /\ UNCHANGED <<persona, versions, publicSet, library, defaultPtr, assignment>>
  BY <1>0 DEF Persona!Switch, Persona!Kept
<1>2. Holds(versions, i, w) /\ w \in Persona!PersonaRows /\ w.visibility = persona[i].visibility
  BY <1>0, <1>1, RowIs, RowsChanged, ZenonT(30) DEF Holds
<1>3. r \in CallRecs /\ r.op = "switch" /\ r.id = i /\ r.at = "switch" /\ r.row = w
  BY <1>2, NoCallIs DEF CallRecs, CallOps, CallStages
<1> HIDE DEF r
<1>4. CallSound(r, persona, versions)
  BY <1>1, <1>2, <1>3 DEF CallSound
<1>5. Exact(persona, publicSet) => SquareNow(r, persona, publicSet)
  BY <1>2, <1>3 DEF SquareNow
<1> QED
  BY <1>1, <1>3, <1>4, <1>5, Begun, CallFacts

\* The requests that only count: the row is written back as it was read.
LEMMA CountBegins ==
    ASSUME PersonaInv, NEW c \in Calls, NEW i \in PersonaIds, NEW op \in {"add", "remove", "assign"},
           NEW at \in {"write", "reply"}, persona[i] # Nil,
           Persona!Begin(c, [Persona!NoCall EXCEPT !.op = op, !.at = at, !.id = i, !.row = persona[i]]),
           UNCHANGED <<persona, versions, publicSet, defaultPtr>>,
           library' \in [Owners -> SUBSET PersonaIds],
           \A u \in Owners : library'[u] \subseteq library[u] \cup {i},
           assignment' \in [Peers -> PersonaIds \cup {Nil}]
    PROVE  PersonaInv'
<1>0. PICK w : w = persona[i]
  OBVIOUS
<1> DEFINE r == [Persona!NoCall EXCEPT !.op = op, !.at = at, !.id = i, !.row = w]
<1>1. Persona!Begin(c, r)
  BY <1>0
<1>2. Holds(versions, i, w) /\ w \in Persona!PersonaRows
  BY <1>0, RowIs
<1>3. r \in CallRecs /\ r.op = op /\ r.id = i /\ r.at = at /\ r.row = w
  BY <1>2, NoCallIs, ZenonT(30) DEF CallRecs, CallOps, CallStages
<1> HIDE DEF r
<1>4. CallSound(r, persona, versions)
  BY <1>2, <1>3 DEF CallSound
<1>5. Exact(persona, publicSet) => SquareNow(r, persona, publicSet)
  BY <1>0, <1>3 DEF SquareNow, Exact, ExactWith, Shown
<1>6. Table(persona, versions, publicSet, library')
  BY CallFacts DEF Table
<1> QED
  BY <1>1, <1>3, <1>4, <1>5, <1>6, Begun

LEMMA AddBegins ==
    ASSUME PersonaInv, NEW c \in Calls, NEW u \in Owners, NEW i \in PersonaIds,
           Persona!AddToLibrary(c, u, i)
    PROVE  PersonaInv'
<1>1. /\ persona[i] # Nil /\ library' = [library EXCEPT ![u] = @ \cup {i}]
      /\ Persona!Begin(c, [Persona!NoCall EXCEPT !.op = "add", !.at = "write", !.id = i, !.row = persona[i]])
      /\ UNCHANGED <<persona, versions, publicSet, defaultPtr, assignment>>
  BY DEF Persona!AddToLibrary, Persona!Live
<1>2. /\ library' \in [Owners -> SUBSET PersonaIds]
      /\ \A x \in Owners : library'[x] \subseteq library[x] \cup {i}
  BY <1>1, CallFacts DEF Table
<1> QED
  BY <1>1, <1>2, CountBegins, CallFacts

LEMMA RemoveBegins ==
    ASSUME PersonaInv, NEW c \in Calls, NEW u \in Owners, NEW i \in PersonaIds,
           Persona!RemoveFromLibrary(c, u, i)
    PROVE  PersonaInv'
<1>0. PICK at : at = IF persona[i].owner = u THEN "reply" ELSE "write"
  OBVIOUS
<1>1. /\ i \in library[u] /\ library' = [library EXCEPT ![u] = @ \ {i}]
      /\ Persona!Begin(c, [Persona!NoCall EXCEPT !.op = "remove", !.id = i, !.row = persona[i], !.at = at])
      /\ UNCHANGED <<persona, versions, publicSet, defaultPtr, assignment>>
  BY <1>0 DEF Persona!RemoveFromLibrary
<1>2. /\ library' \in [Owners -> SUBSET PersonaIds]
      /\ \A x \in Owners : library'[x] \subseteq library[x] \cup {i}
      /\ persona[i] # Nil
  BY <1>1, CallFacts DEF Table
<1>3. [Persona!NoCall EXCEPT !.op = "remove", !.id = i, !.row = persona[i], !.at = at]
        = [Persona!NoCall EXCEPT !.op = "remove", !.at = at, !.id = i, !.row = persona[i]]
  BY NoCallIs DEF CallRecs
<1>4. at \in {"write", "reply"}
  BY <1>0
<1> QED
  BY <1>1, <1>2, <1>3, <1>4, CountBegins, CallFacts

LEMMA AssignBegins ==
    ASSUME PersonaInv, NEW c \in Calls, NEW u \in Owners, NEW p \in Peers, NEW i \in PersonaIds,
           Persona!Assign(c, u, p, i)
    PROVE  PersonaInv'
<1>1. /\ persona[i] # Nil /\ assignment' = [assignment EXCEPT ![p] = i]
      /\ Persona!Begin(c, [Persona!NoCall EXCEPT !.op = "assign", !.at = "write", !.id = i, !.row = persona[i]])
      /\ UNCHANGED <<persona, versions, publicSet, library, defaultPtr>>
  BY DEF Persona!Assign, Persona!CanUse, Persona!Live
<1>2. /\ library' \in [Owners -> SUBSET PersonaIds]
      /\ \A x \in Owners : library'[x] \subseteq library[x] \cup {i}
      /\ assignment' \in [Peers -> PersonaIds \cup {Nil}]
  BY <1>1, CallFacts DEF Table
<1> QED
  BY <1>1, <1>2, CountBegins

\* A request at its next stage, and one that has ended.
To(q, at) == [q EXCEPT !.at = at]

LEMMA ToStage ==
    ASSUME NEW q \in CallRecs, NEW at \in CallStages
    PROVE  /\ To(q, at) \in CallRecs /\ To(q, at).at = at /\ To(q, at).op = q.op
           /\ To(q, at).id = q.id /\ To(q, at).row = q.row /\ To(q, at).graph = q.graph
           /\ To(q, at).source = q.source /\ To(q, at).sourceRow = q.sourceRow
           /\ To(q, at).publish = q.publish /\ To(q, at).read = q.read
           /\ To(q, at).version = q.version
<1>1. To(q, at) \in CallRecs /\ To(q, at).at = at
  BY DEF To, CallRecs
<1>2. /\ To(q, at).op = q.op /\ To(q, at).id = q.id /\ To(q, at).row = q.row
      /\ To(q, at).graph = q.graph /\ To(q, at).source = q.source
  BY DEF To, CallRecs
<1>3. /\ To(q, at).sourceRow = q.sourceRow /\ To(q, at).read = q.read
      /\ To(q, at).version = q.version
  BY DEF To, CallRecs
<1>4. To(q, at).publish = q.publish
  BY DEF To, CallRecs
<1> QED
  BY <1>1, <1>2, <1>3, <1>4

LEMMA Ended ==
    ASSUME NEW table, NEW written, NEW set
    PROVE  /\ CallSound(Persona!NoCall, table, written)
           /\ Exact(table, set) => SquareNow(Persona!NoCall, table, set)
BY NoCallIs DEF CallSound, SquareNow

\* A row is written that names a version of its persona.
LEMMA RowWritten ==
    ASSUME PersonaInv, NEW c \in Calls, NEW i \in PersonaIds, NEW row, Holds(versions, i, row),
           persona' = [persona EXCEPT ![i] = row]
    PROVE  /\ Table(persona', versions, publicSet, library)
           /\ Grown(persona, persona', versions, versions)
           /\ DOMAIN persona' = PersonaIds /\ persona' = [j \in PersonaIds |-> persona'[j]]
           /\ persona'[i] = row /\ row # Nil
           /\ \A j \in PersonaIds : j # i => persona'[j] = persona[j]
<1>1. row # Nil /\ Table(persona, versions, publicSet, library) /\ versions \in Seq(Versions)
  BY CallFacts DEF Holds
<1>2. persona'[i] = row /\ \A j \in PersonaIds : j # i => persona'[j] = persona[j]
  BY CallFacts
<1>3. DOMAIN persona' = PersonaIds /\ persona' = [j \in PersonaIds |-> persona'[j]]
  BY CallFacts
<1>4. \A j \in PersonaIds : persona[j] # Nil => persona'[j] # Nil
  BY <1>1, <1>2
<1>5. Grown(persona, persona', versions, versions)
  BY <1>1, <1>4 DEF Grown
<1>6. \A j \in PersonaIds : persona'[j] # Nil => Holds(versions, j, persona'[j])
  BY <1>1, <1>2 DEF Table
<1>7. \A u \in Owners : \A j \in library[u] : j \in PersonaIds /\ persona[j] # Nil
  BY <1>1 DEF Table
<1>8. Table(persona', versions, publicSet, library)
  BY <1>1, <1>4, <1>6, <1>7 DEF Table
<1> QED
  BY <1>1, <1>2, <1>3, <1>5, <1>8

\* What is the case of a request that takes a step.
LEMMA Stepping ==
    ASSUME PersonaInv, NEW c \in Calls, NEW q, q = call[c], q.at # "end"
    PROVE  /\ q # Persona!NoCall /\ q \in CallRecs /\ q.id \in PersonaIds
           /\ CallSound(q, persona, versions)
           /\ Smooth => SquareNow(q, persona, publicSet)
           /\ \A r : Persona!Then(c, r) => (Smooth' <=> Smooth)
BY CallFacts DEF CallSound, Persona!Then, Smooth

LEMMA PointedKeeps ==
    ASSUME PersonaInv, NEW c \in Calls, Persona!Pointed(c) PROVE PersonaInv'
<1>0. PICK q : q = call[c]
  OBVIOUS
<1>1. /\ q.at = "pointed" /\ Persona!Then(c, To(q, "unpoint"))
      /\ persona' = [i \in PersonaIds |-> IF defaultPtr \in {i, Nil} THEN Persona!Unflagged(persona[i])
                                          ELSE persona[i]]
      /\ UNCHANGED <<versions, publicSet, library, defaultPtr, assignment>>
  BY <1>0 DEF Persona!Pointed, Persona!Step, Persona!Is, To
<1>2. q # Persona!NoCall /\ q \in CallRecs /\ q.id \in PersonaIds /\ CallSound(q, persona, versions)
  BY <1>0, <1>1, Stepping
<1>3. PICK r : r = To(q, "unpoint")
  OBVIOUS
<1>4. r \in CallRecs /\ r.at = "unpoint" /\ r.op = q.op /\ r.id = q.id /\ r.row = q.row
      /\ r.source = q.source /\ r.sourceRow = q.sourceRow
  BY <1>2, <1>3, ToStage DEF CallStages
<1>5. \A i \in PersonaIds : persona[i] # Nil =>
        Holds(versions, i, persona[i]) /\ persona[i] \in Persona!PersonaRows
  BY RowIs
<1>6. \A i \in PersonaIds :
        \/ persona[i] = Nil /\ persona'[i] = Nil
        \/ /\ persona[i] # Nil /\ Holds(versions, i, persona'[i])
           /\ Alike(persona'[i], persona[i]) /\ persona'[i] # Nil
  <2> SUFFICES ASSUME NEW i \in PersonaIds, persona[i] # Nil
               PROVE  /\ Holds(versions, i, persona'[i]) /\ Alike(persona'[i], persona[i])
                      /\ persona'[i] # Nil
    BY <1>1 DEF Persona!Unflagged
  <2>1. persona'[i] \in {persona[i], [persona[i] EXCEPT !.isDefault = FALSE]}
    BY <1>1 DEF Persona!Unflagged
  <2>2. CASE persona'[i] = persona[i]
    BY <1>5, <2>2 DEF Alike
  <2>3. CASE persona'[i] = [persona[i] EXCEPT !.isDefault = FALSE]
    <3>1. /\ persona'[i] \in Persona!PersonaRows /\ persona'[i].version = persona[i].version
          /\ Alike(persona'[i], persona[i])
      BY <1>5, <2>3, RowsChanged
    <3> QED
      BY <1>5, <3>1, CallFacts DEF Holds
  <2> QED
    BY <2>1, <2>2, <2>3
<1>7. \A i \in PersonaIds : (persona'[i] # Nil <=> persona[i] # Nil) /\ (Shown(persona', i) <=> Shown(persona, i))
  BY <1>6 DEF Shown, Alike
<1>8. Table(persona', versions', publicSet', library')
  <2>1. Table(persona, versions, publicSet, library)
    BY CallFacts
  <2>2. \A u \in Owners : \A i \in library[u] : persona'[i] # Nil
    BY <1>7, <2>1 DEF Table
  <2>3. \A i \in PersonaIds : persona'[i] # Nil => Holds(versions, i, persona'[i])
    BY <1>6
  <2> QED
    BY <1>1, <2>1, <2>2, <2>3 DEF Table
<1>9. Grown(persona, persona', versions, versions')
  BY <1>1, <1>7, CallFacts DEF Grown
<1>10. CallSound(r, persona', versions')
  BY <1>1, <1>2, <1>4, <1>7 DEF CallSound
<1>11. ASSUME Smooth' PROVE SquareNow(r, persona', publicSet')
  <2>1. SquareNow(q, persona, publicSet)
    BY <1>0, <1>1, <1>11, Stepping
  <2>2. Exact(persona', publicSet')
    BY <1>1, <1>7, <2>1 DEF SquareNow, Exact
  <2> QED
    BY <1>1, <1>2, <1>4, <1>7, <2>1, <2>2 DEF SquareNow, CallSound
<1>12. DOMAIN persona' = PersonaIds /\ persona' = [i \in PersonaIds |-> persona'[i]]
  BY <1>1
<1>13. /\ defaultPtr' \in PersonaIds \cup {Nil} /\ assignment' \in [Peers -> PersonaIds \cup {Nil}]
       /\ Persona!Then(c, r) /\ call[c] # Persona!NoCall /\ (r.at = "end" <=> r = Persona!NoCall)
  BY <1>0, <1>1, <1>2, <1>3, <1>4, CallFacts, NoCallIs
<1> QED
  BY <1>8, <1>9, <1>10, <1>11, <1>12, <1>13, PersonaMoved

LEMMA UnpointKeeps ==
    ASSUME PersonaInv, NEW c \in Calls, Persona!Unpoint(c) PROVE PersonaInv'
<1>0. PICK q : q = call[c]
  OBVIOUS
<1>a. PICK at : at = IF q.op = "create" THEN "store" ELSE "default"
  OBVIOUS
<1>1. /\ q.at = "unpoint" /\ Persona!Then(c, To(q, at)) /\ defaultPtr' = Nil
      /\ UNCHANGED <<persona, versions, publicSet, library, assignment>>
  BY <1>0, <1>a DEF Persona!Unpoint, Persona!Step, Persona!Is, To
<1>2. q # Persona!NoCall /\ q \in CallRecs /\ q.id \in PersonaIds /\ CallSound(q, persona, versions)
  BY <1>0, <1>1, Stepping
<1>3. PICK r : r = To(q, at)
  OBVIOUS
<1>4. at \in CallStages /\ at # "end"
  BY <1>a DEF CallStages
<1>5. r \in CallRecs /\ r.at = at /\ r.op = q.op /\ r.id = q.id /\ r.row = q.row
      /\ r.source = q.source /\ r.sourceRow = q.sourceRow
  BY <1>2, <1>3, <1>4, ToStage
<1>6. ASSUME q.op # "create" PROVE persona[q.id] # Nil
  BY <1>1, <1>2, <1>6 DEF CallSound
<1>7. CallSound(r, persona', versions')
  BY <1>a, <1>1, <1>2, <1>5, <1>6 DEF CallSound
<1>8. ASSUME Smooth' PROVE SquareNow(r, persona', publicSet')
  <2>1. SquareNow(q, persona, publicSet)
    BY <1>0, <1>1, <1>8, Stepping
  <2> QED
    BY <1>a, <1>1, <1>5, <2>1 DEF SquareNow
<1>9. /\ defaultPtr' \in PersonaIds \cup {Nil} /\ assignment' \in [Peers -> PersonaIds \cup {Nil}]
      /\ Persona!Then(c, r) /\ call[c] # Persona!NoCall /\ (r.at = "end" <=> r = Persona!NoCall)
      /\ DOMAIN persona' = PersonaIds /\ persona' = [i \in PersonaIds |-> persona'[i]]
      /\ Table(persona', versions', publicSet', library')
      /\ Grown(persona, persona', versions, versions')
  BY <1>0, <1>1, <1>2, <1>3, <1>4, <1>5, CallFacts, NoCallIs, Unchanged DEF Table
<1> QED
  BY <1>7, <1>8, <1>9, PersonaMoved

LEMMA WriteDefaultKeeps ==
    ASSUME PersonaInv, NEW c \in Calls, Persona!WriteDefault(c) PROVE PersonaInv'
<1>0. PICK q : q = call[c]
  OBVIOUS
<1>1. /\ q.at = "default" /\ Persona!Then(c, Persona!NoCall)
      /\ persona' = [persona EXCEPT ![q.id] = q.row] /\ defaultPtr' = q.id
      /\ UNCHANGED <<versions, publicSet, library, assignment>>
  BY <1>0 DEF Persona!WriteDefault, Persona!Step, Persona!Is
<1>2. q # Persona!NoCall /\ q \in CallRecs /\ q.id \in PersonaIds /\ CallSound(q, persona, versions)
  BY <1>0, <1>1, Stepping
<1>3. Holds(versions, q.id, q.row)
  BY <1>1, <1>2 DEF CallSound
<1>4. /\ Table(persona', versions, publicSet, library)
      /\ Grown(persona, persona', versions, versions)
      /\ DOMAIN persona' = PersonaIds /\ persona' = [j \in PersonaIds |-> persona'[j]]
      /\ persona'[q.id] = q.row /\ q.row # Nil
      /\ \A j \in PersonaIds : j # q.id => persona'[j] = persona[j]
  BY <1>1, <1>2, <1>3, RowWritten
<1>5. ASSUME Smooth' PROVE SquareNow(Persona!NoCall, persona', publicSet')
  <2>1. SquareNow(q, persona, publicSet)
    BY <1>0, <1>1, <1>5, Stepping
  <2>2. Exact(persona', publicSet')
    BY <1>1, <1>4, <2>1 DEF SquareNow, Exact, Shown
  <2> QED
    BY <2>2, Ended
<1>6. Table(persona', versions', publicSet', library') /\ Grown(persona, persona', versions, versions')
  BY <1>1, <1>4
<1> QED
  BY <1>0, <1>1, <1>2, <1>4, <1>5, <1>6, PersonaMoved, CallFacts, Ended, NoCallIs

LEMMA IndexKeeps ==
    ASSUME PersonaInv, NEW c \in Calls, Persona!Index(c) PROVE PersonaInv'
<1>0. PICK q : q = call[c]
  OBVIOUS
<1>1. /\ q.at = "index" /\ Persona!Then(c, To(q, "write"))
      /\ publicSet' = IF Persona!Square(q.row) THEN publicSet \cup {q.id} ELSE publicSet \ {q.id}
      /\ UNCHANGED <<persona, versions, library, defaultPtr, assignment>>
  BY <1>0 DEF Persona!Index, Persona!Step, Persona!Is, Persona!Listed, To
<1>2. q # Persona!NoCall /\ q \in CallRecs /\ q.id \in PersonaIds /\ CallSound(q, persona, versions)
  BY <1>0, <1>1, Stepping
<1>3. PICK r : r = To(q, "write")
  OBVIOUS
<1>4. r \in CallRecs /\ r.at = "write" /\ r.op = q.op /\ r.id = q.id /\ r.row = q.row
      /\ r.source = q.source /\ r.sourceRow = q.sourceRow
  BY <1>2, <1>3, ToStage DEF CallStages
<1>9. r.op = "edit"
  BY <1>1, <1>2, <1>4 DEF CallSound
<1>5. CallSound(r, persona', versions')
  BY <1>1, <1>2, <1>4 DEF CallSound
<1>6. ASSUME Smooth' PROVE SquareNow(r, persona', publicSet')
  <2>1. SquareNow(q, persona, publicSet)
    BY <1>0, <1>1, <1>6, Stepping
  <2>2. ExactWith(persona', publicSet', q.id, q.row)
    BY <1>1, <1>2, <2>1 DEF SquareNow, Exact, ExactWith
  <2> QED
    BY <1>1, <1>4, <1>9, <2>1, <2>2 DEF SquareNow
<1>7. /\ defaultPtr' \in PersonaIds \cup {Nil} /\ assignment' \in [Peers -> PersonaIds \cup {Nil}]
      /\ Persona!Then(c, r) /\ call[c] # Persona!NoCall /\ (r.at = "end" <=> r = Persona!NoCall)
      /\ DOMAIN persona' = PersonaIds /\ persona' = [i \in PersonaIds |-> persona'[i]]
      /\ Grown(persona, persona', versions, versions')
  BY <1>0, <1>1, <1>2, <1>3, <1>4, CallFacts, NoCallIs, Unchanged
<1>8. Table(persona', versions', publicSet', library')
  BY <1>1, <1>2, CallFacts DEF Table
<1> QED
  BY <1>5, <1>6, <1>7, <1>8, PersonaMoved

LEMMA WriteKeeps ==
    ASSUME PersonaInv, NEW c \in Calls, Persona!Write(c) PROVE PersonaInv'
<1>0. PICK q : q = call[c]
  OBVIOUS
<1>1. /\ q.at = "write"
      /\ persona' = [persona EXCEPT ![q.id] = q.row]
      /\ Persona!Then(c, IF q.publish THEN To(q, "load") ELSE Persona!NoCall)
      /\ UNCHANGED <<versions, publicSet, library, defaultPtr, assignment>>
  BY <1>0 DEF Persona!Write, Persona!Step, Persona!Is, To
<1>2. q # Persona!NoCall /\ q \in CallRecs /\ q.id \in PersonaIds /\ CallSound(q, persona, versions)
  BY <1>0, <1>1, Stepping
<1>3. Holds(versions, q.id, q.row)
  BY <1>1, <1>2 DEF CallSound
<1>4. /\ Table(persona', versions, publicSet, library)
      /\ Grown(persona, persona', versions, versions)
      /\ DOMAIN persona' = PersonaIds /\ persona' = [j \in PersonaIds |-> persona'[j]]
      /\ persona'[q.id] = q.row /\ q.row # Nil
      /\ \A j \in PersonaIds : j # q.id => persona'[j] = persona[j]
  BY <1>1, <1>2, <1>3, RowWritten
<1>5. PICK r : r = IF q.publish THEN To(q, "load") ELSE Persona!NoCall
  OBVIOUS
<1>6. PICK t : t = To(q, "load")
  OBVIOUS
<1>7. t \in CallRecs /\ t.at = "load" /\ t.op = q.op /\ t.id = q.id /\ t.row = q.row
      /\ t.source = q.source /\ t.sourceRow = q.sourceRow
  BY <1>2, <1>6, ToStage DEF CallStages
<1>8. CallSound(t, persona', versions')
  BY <1>1, <1>2, <1>3, <1>4, <1>7 DEF CallSound
<1>9. ASSUME Smooth' PROVE Exact(persona', publicSet') /\ SquareNow(t, persona', publicSet')
  <2>1. SquareNow(q, persona, publicSet)
    BY <1>0, <1>1, <1>5, <1>9, Stepping
  <2>2. Exact(persona', publicSet') /\ (Shown(persona', q.id) <=> Persona!Square(q.row))
    BY <1>1, <1>2, <1>4, <2>1 DEF SquareNow, Exact, ExactWith, Shown
  <2>3. q.op # "fork"
    BY <1>1, <1>2 DEF CallSound
  <2> QED
    BY <1>7, <2>2, <2>3 DEF SquareNow
<1>10. CallSound(r, persona', versions') /\ (Smooth' => SquareNow(r, persona', publicSet'))
  <2>1. CASE q.publish
    BY <1>5, <1>6, <1>8, <1>9, <2>1
  <2>2. CASE ~q.publish
    BY <1>5, <1>9, <2>2, Ended
  <2> QED
    BY <2>1, <2>2
<1>11. r.at = "end" <=> r = Persona!NoCall
  BY <1>5, <1>6, <1>7, NoCallIs
<1>12. /\ Table(persona', versions', publicSet', library')
       /\ Grown(persona, persona', versions, versions')
  BY <1>1, <1>4
<1> QED
  BY <1>0, <1>1, <1>2, <1>4, <1>5, <1>10, <1>11, <1>12, PersonaMoved, CallFacts

\* The n-th version, written last, is there and those before it stay.
LEMMA VersionWritten ==
    ASSUME PersonaInv, NEW c \in Calls, NEW i \in PersonaIds, NEW g \in Graphs \cup {Nil},
           versions' = Append(versions, [persona |-> i, graph |-> g])
    PROVE  /\ versions' \in Seq(Versions) /\ Len(versions') = Len(versions) + 1
           /\ Len(versions) \in Nat /\ Own(versions', i, Len(versions) + 1)
           /\ \A n \in 1..Len(versions) : versions'[n] = versions[n]
           /\ \A j, n : Own(versions, j, n) => Own(versions', j, n)
           /\ \A j, row : Holds(versions, j, row) => Holds(versions', j, row)
<1>0. PICK v : v = [persona |-> i, graph |-> g]
  OBVIOUS
<1>1. v \in Versions /\ v.persona = i
  BY <1>0 DEF Versions
<1>2. versions \in Seq(Versions) /\ versions' = Append(versions, v)
  BY <1>0, CallFacts
<1>3. /\ versions' \in Seq(Versions) /\ Len(versions') = Len(versions) + 1 /\ Len(versions) \in Nat
      /\ versions'[Len(versions) + 1] = v
      /\ \A n \in 1..Len(versions) : versions'[n] = versions[n]
  BY <1>1, <1>2
<1>4. Own(versions', i, Len(versions) + 1)
  BY <1>1, <1>3 DEF Own
<1>5. \A j, n : Own(versions, j, n) => Own(versions', j, n)
  <2>1. Len(versions) <= Len(versions')
    BY <1>3
  <2> QED
    BY <1>2, <1>3, <2>1, OwnStays
<1>6. \A j, row : Holds(versions, j, row) => Holds(versions', j, row)
  BY <1>5, Zenon DEF Holds
<1> QED
  BY <1>3, <1>4, <1>5, <1>6

LEMMA StoreKeeps ==
    ASSUME PersonaInv, NEW c \in Calls, Persona!Store(c) PROVE PersonaInv'
<1>0. PICK q : q = call[c]
  OBVIOUS
<1>a. PICK n : n = Len(versions) + 1
  OBVIOUS
<1>b. PICK w : w = [q.row EXCEPT !.version = n]
  OBVIOUS
<1>c. PICK at : at = IF q.graph = Nil THEN "forked" ELSE "load"
  OBVIOUS
<1> DEFINE t == [q EXCEPT !.row = w, !.at = at]
<1>d. PICK r : r = IF q.op # "fork" THEN Persona!NoCall ELSE t
  OBVIOUS
<1>1. /\ q.at = "store"
      /\ versions' = Append(versions, [persona |-> q.id, graph |-> Nil])
      /\ persona' = [persona EXCEPT ![q.id] = w]
      /\ publicSet' = IF Persona!Square(w) THEN publicSet \cup {q.id} ELSE publicSet \ {q.id}
      /\ library' = [u \in Owners |-> IF u = w.owner THEN library[u] \cup {q.id} ELSE library[u]]
      /\ defaultPtr' = IF w.isDefault THEN q.id ELSE defaultPtr
      /\ UNCHANGED assignment
  BY <1>0, <1>a, <1>b DEF Persona!Store, Persona!Is, Persona!Listed
<1>2. Persona!Then(c, r)
  BY <1>0, <1>a, <1>b, <1>c, <1>d DEF Persona!Store
<1>3. q # Persona!NoCall /\ q \in CallRecs /\ q.id \in PersonaIds /\ CallSound(q, persona, versions)
  BY <1>0, <1>1, Stepping
<1>4. /\ versions' \in Seq(Versions) /\ Len(versions') = Len(versions) + 1
      /\ Len(versions) \in Nat /\ Own(versions', q.id, n)
      /\ \A k \in 1..Len(versions) : versions'[k] = versions[k]
      /\ \A j, k : Own(versions, j, k) => Own(versions', j, k)
      /\ \A j, row : Holds(versions, j, row) => Holds(versions', j, row)
  BY <1>a, <1>1, <1>3, VersionWritten
<1>5. w \in Persona!PersonaRows /\ Holds(versions', q.id, w) /\ w # Nil
  <2>1. q.row \in Persona!PersonaRows /\ n \in Nat \ {0}
    BY <1>a, <1>1, <1>3, <1>4 DEF CallSound
  <2>2. w \in Persona!PersonaRows /\ w.version = n
    BY <1>b, <2>1, RowsChanged
  <2> QED
    BY <1>4, <2>2, CallFacts DEF Holds
<1>6. /\ persona'[q.id] = w /\ \A j \in PersonaIds : j # q.id => persona'[j] = persona[j]
      /\ DOMAIN persona' = PersonaIds /\ persona' = [j \in PersonaIds |-> persona'[j]]
  BY <1>1, <1>3, CallFacts
<1>7. \A j \in PersonaIds : persona[j] # Nil => persona'[j] # Nil
  BY <1>5, <1>6
<1>8. Grown(persona, persona', versions, versions')
  BY <1>4, <1>7 DEF Grown
<1>9. Table(persona', versions', publicSet', library')
  <2>1. Table(persona, versions, publicSet, library)
    BY CallFacts
  <2>2. \A j \in PersonaIds : persona'[j] # Nil => Holds(versions', j, persona'[j])
    BY <1>4, <1>5, <1>6, <2>1 DEF Table
  <2>3. library' \in [Owners -> SUBSET PersonaIds]
    BY <1>1, <1>3, <2>1 DEF Table
  <2>4. \A u \in Owners : \A j \in library'[u] : persona'[j] # Nil
    <3> SUFFICES ASSUME NEW u \in Owners, NEW j \in library'[u] PROVE persona'[j] # Nil
      OBVIOUS
    <3>1. j \in library[u] \/ j = q.id
      BY <1>1
    <3>2. j \in library[u] => j \in PersonaIds /\ persona[j] # Nil
      BY <2>1 DEF Table
    <3> QED
      BY <1>5, <1>6, <1>7, <3>1, <3>2
  <2>5. publicSet' \subseteq PersonaIds
    BY <1>1, <1>3, <2>1 DEF Table
  <2> QED
    BY <1>4, <2>2, <2>3, <2>4, <2>5 DEF Table
<1>10. at \in CallStages /\ at \in {"forked", "load"}
  BY <1>c DEF CallStages
<1>11. /\ t \in CallRecs /\ t.at = at /\ t.op = q.op /\ t.id = q.id /\ t.row = w
       /\ t.source = q.source /\ t.sourceRow = q.sourceRow
  BY <1>3, <1>5, <1>10 DEF CallRecs
<1> HIDE DEF t
<1>12. ASSUME q.op = "fork" PROVE CallSound(t, persona', versions')
  <2>1. q.source \in PersonaIds \ {q.id} /\ Holds(versions', q.source, q.sourceRow)
    BY <1>1, <1>3, <1>4, <1>12 DEF CallSound
  <2> QED
    BY <1>3, <1>5, <1>6, <1>10, <1>11, <1>12, <2>1 DEF CallSound
<1>13. CallSound(r, persona', versions')
  BY <1>d, <1>12, Ended
<1>14. ASSUME Smooth' PROVE SquareNow(r, persona', publicSet')
  <2>1. SquareNow(q, persona, publicSet)
    BY <1>0, <1>1, <1>2, <1>14, Stepping
  <2>2. Exact(persona', publicSet')
    BY <1>1, <1>3, <1>5, <1>6, <2>1 DEF SquareNow, Exact, Shown
  <2>3. CASE q.op # "fork"
    BY <1>d, <2>2, <2>3, Ended
  <2>4. CASE q.op = "fork"
    <3>1. Shown(persona', q.id) <=> Persona!Square(w)
      BY <1>5, <1>6 DEF Shown
    <3>2. Shown(persona, q.source) <=> Persona!Square(q.sourceRow)
      BY <1>1, <2>1, <2>4 DEF SquareNow
    <3>3. q.source # q.id
      BY <1>1, <1>3, <2>4 DEF CallSound
    <3>4. Shown(persona', q.source) <=> Persona!Square(q.sourceRow)
      BY <1>1, <1>3, <1>6, <2>4, <3>2, <3>3 DEF Shown, CallSound
    <3> QED
      BY <1>d, <1>10, <1>11, <2>2, <2>4, <3>1, <3>4 DEF SquareNow
  <2> QED
    BY <2>3, <2>4
<1>15. r.at = "end" <=> r = Persona!NoCall
  BY <1>d, <1>10, <1>11, NoCallIs
<1>16. defaultPtr' \in PersonaIds \cup {Nil} /\ assignment' \in [Peers -> PersonaIds \cup {Nil}]
  BY <1>1, <1>3, CallFacts
<1> QED
  BY <1>0, <1>2, <1>3, <1>6, <1>8, <1>9, <1>13, <1>14, <1>15, <1>16, PersonaMoved

LEMMA PublishKeeps ==
    ASSUME PersonaInv, NEW c \in Calls, Persona!Publish(c) PROVE PersonaInv'
<1>0. PICK q : q = call[c]
  OBVIOUS
<1>a. PICK g : g = IF q.graph # Nil THEN q.graph ELSE Persona!GraphOf(q.id)
  OBVIOUS
<1>b. PICK x : x = persona[q.id]
  OBVIOUS
<1> DEFINE r == [q EXCEPT !.at = "version", !.graph = g, !.read = x]
<1>1. /\ q.at = "load" /\ Persona!Then(c, r)
      /\ UNCHANGED <<persona, versions, publicSet, library, defaultPtr, assignment>>
  BY <1>0, <1>a, <1>b DEF Persona!Publish, Persona!Is, Persona!Kept
<1>2. q # Persona!NoCall /\ q \in CallRecs /\ q.id \in PersonaIds /\ CallSound(q, persona, versions)
  BY <1>0, <1>1, Stepping
<1>3. x # Nil /\ x \in Persona!PersonaRows /\ g \in Graphs \cup {Nil}
  <2>1. persona[q.id] # Nil
    BY <1>1, <1>2 DEF CallSound
  <2>2. persona[q.id] \in Persona!PersonaRows /\ Persona!GraphOf(q.id) \in Graphs \cup {Nil}
    BY <1>2, <2>1, RowIs DEF Persona!GraphOf
  <2>3. q.graph \in Graphs \cup {Nil}
    BY <1>2 DEF CallRecs
  <2> QED
    BY <1>a, <1>b, <2>1, <2>2, <2>3
<1>4. /\ r \in CallRecs /\ r.at = "version" /\ r.op = q.op /\ r.id = q.id /\ r.row = q.row
      /\ r.source = q.source /\ r.sourceRow = q.sourceRow /\ r.read = x
  BY <1>2, <1>3 DEF CallRecs, CallStages
<1> HIDE DEF r
<1>5. CallSound(r, persona', versions')
  BY <1>1, <1>2, <1>3, <1>4 DEF CallSound
<1>6. ASSUME Smooth' PROVE SquareNow(r, persona', publicSet')
  <2>1. SquareNow(q, persona, publicSet)
    BY <1>0, <1>1, <1>6, Stepping
  <2>2. Shown(persona, q.id) <=> Persona!Square(x)
    BY <1>b, <1>3 DEF Shown
  <2> QED
    BY <1>1, <1>4, <2>1, <2>2 DEF SquareNow
<1>7. /\ defaultPtr' \in PersonaIds \cup {Nil} /\ assignment' \in [Peers -> PersonaIds \cup {Nil}]
      /\ call[c] # Persona!NoCall /\ (r.at = "end" <=> r = Persona!NoCall)
      /\ DOMAIN persona' = PersonaIds /\ persona' = [i \in PersonaIds |-> persona'[i]]
      /\ Grown(persona, persona', versions, versions')
  BY <1>0, <1>1, <1>2, <1>4, CallFacts, NoCallIs, Unchanged
<1>8. Table(persona', versions', publicSet', library')
  BY <1>1, CallFacts DEF Table
<1> QED
  BY <1>1, <1>5, <1>6, <1>7, <1>8, PersonaMoved

LEMMA WriteVersionKeeps ==
    ASSUME PersonaInv, NEW c \in Calls, Persona!WriteVersion(c) PROVE PersonaInv'
<1>0. PICK q : q = call[c]
  OBVIOUS
<1>a. PICK n : n = Len(versions) + 1
  OBVIOUS
<1> DEFINE r == [q EXCEPT !.at = "publish", !.version = n]
<1>1. /\ q.at = "version" /\ Persona!Then(c, r)
      /\ versions' = Append(versions, [persona |-> q.id, graph |-> q.graph])
      /\ UNCHANGED <<persona, publicSet, library, defaultPtr, assignment>>
  BY <1>0, <1>a DEF Persona!WriteVersion, Persona!Is
<1>2. q # Persona!NoCall /\ q \in CallRecs /\ q.id \in PersonaIds /\ CallSound(q, persona, versions)
  BY <1>0, <1>1, Stepping
<1>3. q.graph \in Graphs \cup {Nil}
  BY <1>2 DEF CallRecs
<1>4. /\ versions' \in Seq(Versions) /\ Len(versions') = Len(versions) + 1
      /\ Len(versions) \in Nat /\ Own(versions', q.id, n)
      /\ \A k \in 1..Len(versions) : versions'[k] = versions[k]
      /\ \A j, k : Own(versions, j, k) => Own(versions', j, k)
      /\ \A j, row : Holds(versions, j, row) => Holds(versions', j, row)
  BY <1>a, <1>1, <1>2, <1>3, VersionWritten
<1>5. n \in Nat
  BY <1>a, <1>4
<1>6. /\ r \in CallRecs /\ r.at = "publish" /\ r.op = q.op /\ r.id = q.id /\ r.row = q.row
      /\ r.source = q.source /\ r.sourceRow = q.sourceRow /\ r.read = q.read /\ r.version = n
  BY <1>2, <1>5 DEF CallRecs, CallStages
<1> HIDE DEF r
<1>7. Grown(persona, persona', versions, versions')
  BY <1>1, <1>4 DEF Grown
<1>8. CallSound(r, persona', versions')
  <2>1. CallSound(q, persona', versions')
    BY <1>2, <1>4, <1>7, CallStays, CallFacts
  <2> QED
    BY <1>1, <1>4, <1>6, <2>1 DEF CallSound
<1>9. ASSUME Smooth' PROVE SquareNow(r, persona', publicSet')
  <2>1. SquareNow(q, persona, publicSet)
    BY <1>0, <1>1, <1>9, Stepping
  <2> QED
    BY <1>1, <1>6, <2>1 DEF SquareNow
<1>10. Table(persona', versions', publicSet', library')
  BY <1>1, <1>4, CallFacts DEF Table
<1> QED
  BY <1>0, <1>1, <1>2, <1>6, <1>7, <1>8, <1>9, <1>10, CallFacts, NoCallIs, PersonaMoved

LEMMA PointToVersionKeeps ==
    ASSUME PersonaInv, NEW c \in Calls, Persona!PointToVersion(c) PROVE PersonaInv'
<1>0. PICK q : q = call[c]
  OBVIOUS
<1>a. PICK w : w = [q.read EXCEPT !.version = q.version]
  OBVIOUS
<1>b. PICK t : t = To(q, "forked")
  OBVIOUS
<1>c. PICK r : r = IF q.op = "fork" THEN t ELSE Persona!NoCall
  OBVIOUS
<1>1. /\ q.at = "publish" /\ Persona!Then(c, r)
      /\ persona' = [persona EXCEPT ![q.id] = w]
      /\ UNCHANGED <<versions, publicSet, library, defaultPtr, assignment>>
  BY <1>0, <1>a, <1>b, <1>c DEF Persona!PointToVersion, Persona!Is, Persona!Step, To
<1>2. q # Persona!NoCall /\ q \in CallRecs /\ q.id \in PersonaIds /\ CallSound(q, persona, versions)
  BY <1>0, <1>1, Stepping
<1>3. Holds(versions, q.id, w) /\ Alike(w, q.read)
  <2>1. q.read \in Persona!PersonaRows /\ Own(versions, q.id, q.version) /\ versions \in Seq(Versions)
    BY <1>1, <1>2, CallFacts DEF CallSound
  <2>2. q.version \in Nat \ {0}
    BY <2>1 DEF Own
  <2>3. w \in Persona!PersonaRows /\ w.version = q.version /\ Alike(w, q.read)
    BY <1>a, <2>1, <2>2, RowsChanged
  <2> QED
    BY <2>1, <2>3 DEF Holds
<1>4. /\ Table(persona', versions, publicSet, library)
      /\ Grown(persona, persona', versions, versions)
      /\ DOMAIN persona' = PersonaIds /\ persona' = [j \in PersonaIds |-> persona'[j]]
      /\ persona'[q.id] = w /\ w # Nil
      /\ \A j \in PersonaIds : j # q.id => persona'[j] = persona[j]
  BY <1>1, <1>2, <1>3, RowWritten
<1>5. t \in CallRecs /\ t.at = "forked" /\ t.op = q.op /\ t.id = q.id /\ t.row = q.row
      /\ t.source = q.source /\ t.sourceRow = q.sourceRow
  BY <1>b, <1>2, ToStage DEF CallStages
<1>6. ASSUME q.op = "fork" PROVE CallSound(t, persona', versions')
  BY <1>1, <1>2, <1>4, <1>5, <1>6 DEF CallSound
<1>7. CallSound(r, persona', versions')
  BY <1>c, <1>6, Ended
<1>8. ASSUME Smooth' PROVE SquareNow(r, persona', publicSet')
  <2>1. SquareNow(q, persona, publicSet)
    BY <1>0, <1>1, <1>8, Stepping
  <2>2. \A j \in PersonaIds : Shown(persona', j) <=> Shown(persona, j)
    <3> SUFFICES ASSUME NEW j \in PersonaIds PROVE Shown(persona', j) <=> Shown(persona, j)
      OBVIOUS
    <3>1. CASE j # q.id
      BY <1>4, <3>1 DEF Shown
    <3>2. CASE j = q.id
      <4>1. Shown(persona, q.id) <=> Persona!Square(q.read)
        BY <1>1, <2>1 DEF SquareNow
      <4> QED
        BY <1>3, <1>4, <3>2, <4>1 DEF Shown, Alike
    <3> QED
      BY <3>1, <3>2
  <2>3. Exact(persona', publicSet')
    BY <1>1, <2>1, <2>2 DEF SquareNow, Exact
  <2>4. CASE q.op # "fork"
    BY <1>c, <2>3, <2>4, Ended
  <2>5. CASE q.op = "fork"
    <3>1. q.source \in PersonaIds
      BY <1>1, <1>2, <2>5 DEF CallSound
    <3>2. /\ Shown(persona, q.source) <=> Persona!Square(q.sourceRow)
          /\ Shown(persona, q.id) <=> Persona!Square(q.row)
      BY <1>1, <2>1, <2>5 DEF SquareNow
    <3> QED
      BY <1>c, <1>2, <1>5, <2>2, <2>3, <2>5, <3>1, <3>2 DEF SquareNow
  <2> QED
    BY <2>4, <2>5
<1>9. r.at = "end" <=> r = Persona!NoCall
  BY <1>c, <1>5, NoCallIs
<1>10. Table(persona', versions', publicSet', library') /\ Grown(persona, persona', versions, versions')
  BY <1>1, <1>4
<1> QED
  BY <1>0, <1>1, <1>2, <1>4, <1>7, <1>8, <1>9, <1>10, CallFacts, PersonaMoved

LEMMA WriteForkKeeps ==
    ASSUME PersonaInv, NEW c \in Calls, Persona!WriteFork(c) PROVE PersonaInv'
<1>0. PICK q : q = call[c]
  OBVIOUS
<1>a. PICK s : s = q.source
  OBVIOUS
<1>b. PICK r : r = To(q, "reply")
  OBVIOUS
<1>1. /\ q.at = "forked" /\ Persona!Then(c, r)
      /\ persona' = [persona EXCEPT ![q.id] = q.row, ![s] = q.sourceRow]
      /\ UNCHANGED <<versions, publicSet, library, defaultPtr, assignment>>
  BY <1>0, <1>a, <1>b DEF Persona!WriteFork, Persona!Is, Persona!Step, To
<1>2. q # Persona!NoCall /\ q \in CallRecs /\ q.id \in PersonaIds /\ CallSound(q, persona, versions)
  BY <1>0, <1>1, Stepping
<1>3. r \in CallRecs /\ r.at = "reply" /\ r.op = q.op /\ r.id = q.id
      /\ r.source = q.source /\ r.sourceRow = q.sourceRow
  BY <1>b, <1>2, ToStage DEF CallStages
<1>4. q.op = "fork" /\ s \in PersonaIds \ {q.id}
      /\ Holds(versions, q.id, q.row) /\ Holds(versions, s, q.sourceRow)
  <2>1. Holds(versions, q.id, q.row)
    BY <1>1, <1>2 DEF CallSound
  <2>2. q.op = "fork"
    BY <1>1, <1>2 DEF CallSound
  <2>3. q.source \in PersonaIds \ {q.id} /\ Holds(versions, q.source, q.sourceRow)
    BY <1>1, <1>2, <2>2 DEF CallSound
  <2> QED
    BY <1>a, <2>1, <2>2, <2>3
<1>5. /\ persona'[q.id] = q.row /\ persona'[s] = q.sourceRow
      /\ \A j \in PersonaIds \ {q.id, s} : persona'[j] = persona[j]
      /\ DOMAIN persona' = PersonaIds /\ persona' = [j \in PersonaIds |-> persona'[j]]
  BY <1>1, <1>2, <1>4, CallFacts
<1>6. q.row # Nil /\ q.sourceRow # Nil
  BY <1>4, CallFacts DEF Holds
<1>7. \A j \in PersonaIds : persona[j] # Nil => persona'[j] # Nil
  BY <1>5, <1>6
<1>8. Grown(persona, persona', versions, versions')
  BY <1>1, <1>7, CallFacts DEF Grown
<1>9. Table(persona', versions', publicSet', library')
  <2>1. Table(persona, versions, publicSet, library)
    BY CallFacts
  <2>2. \A j \in PersonaIds : persona'[j] # Nil => Holds(versions, j, persona'[j])
    BY <1>4, <1>5, <2>1 DEF Table
  <2>3. \A u \in Owners : \A j \in library[u] : persona'[j] # Nil
    BY <1>7, <2>1 DEF Table
  <2> QED
    BY <1>1, <2>1, <2>2, <2>3 DEF Table
<1>10. CallSound(r, persona', versions')
  BY <1>a, <1>1, <1>2, <1>3, <1>4, <1>5, <1>6 DEF CallSound
<1>11. ASSUME Smooth' PROVE SquareNow(r, persona', publicSet')
  <2>1. SquareNow(q, persona, publicSet)
    BY <1>0, <1>1, <1>11, Stepping
  <2>2. /\ Shown(persona, s) <=> Persona!Square(q.sourceRow)
        /\ Shown(persona, q.id) <=> Persona!Square(q.row)
    BY <1>a, <1>1, <1>4, <2>1 DEF SquareNow
  <2>3. \A j \in PersonaIds : Shown(persona', j) <=> Shown(persona, j)
    BY <1>5, <1>6, <2>2 DEF Shown
  <2>4. Exact(persona', publicSet')
    BY <1>1, <2>1, <2>3 DEF SquareNow, Exact
  <2> QED
    BY <1>a, <1>3, <1>4, <2>2, <2>3, <2>4 DEF SquareNow
<1> QED
  BY <1>0, <1>1, <1>2, <1>3, <1>5, <1>8, <1>9, <1>10, <1>11, CallFacts, NoCallIs, PersonaMoved

LEMMA ReplyKeeps ==
    ASSUME PersonaInv, NEW c \in Calls, Persona!Reply(c) PROVE PersonaInv'
<1>0. PICK q : q = call[c]
  OBVIOUS
<1>1. /\ q.at = "reply" /\ Persona!Then(c, Persona!NoCall)
      /\ UNCHANGED <<persona, versions, publicSet, library, defaultPtr, assignment>>
  BY <1>0 DEF Persona!Reply, Persona!Is, Persona!Step, Persona!Kept
<1>2. q # Persona!NoCall
  BY <1>0, <1>1, Stepping
<1>3. ASSUME Smooth' PROVE SquareNow(Persona!NoCall, persona', publicSet')
  <2>1. SquareNow(q, persona, publicSet)
    BY <1>0, <1>1, <1>3, Stepping
  <2> QED
    BY <1>1, <2>1, Ended DEF SquareNow
<1>4. Table(persona', versions', publicSet', library') /\ Grown(persona, persona', versions, versions')
  BY <1>1, CallFacts, Unchanged DEF Table
<1> QED
  BY <1>0, <1>1, <1>2, <1>3, <1>4, CallFacts, Ended, NoCallIs, PersonaMoved

LEMMA WriteSwitchKeeps ==
    ASSUME PersonaInv, NEW c \in Calls, Persona!WriteSwitch(c) PROVE PersonaInv'
<1>0. PICK q : q = call[c]
  OBVIOUS
<1>1. /\ q.at = "switch" /\ Persona!Then(c, Persona!NoCall)
      /\ persona' = [persona EXCEPT ![q.id] = q.row]
      /\ publicSet' = IF Persona!Square(q.row) THEN publicSet \cup {q.id}
                      ELSE IF q.row.enabled THEN publicSet ELSE publicSet \ {q.id}
      /\ library' = [u \in Owners |-> IF u # q.row.owner THEN library[u]
                      ELSE IF q.row.enabled THEN library[u] \cup {q.id} ELSE library[u] \ {q.id}]
      /\ UNCHANGED <<versions, defaultPtr, assignment>>
  BY <1>0 DEF Persona!WriteSwitch, Persona!Step, Persona!Is
<1>2. q # Persona!NoCall /\ q \in CallRecs /\ q.id \in PersonaIds /\ CallSound(q, persona, versions)
  BY <1>0, <1>1, Stepping
<1>3. Holds(versions, q.id, q.row) /\ persona[q.id] # Nil
  BY <1>1, <1>2 DEF CallSound
<1>4. /\ Table(persona', versions, publicSet, library)
      /\ Grown(persona, persona', versions, versions)
      /\ DOMAIN persona' = PersonaIds /\ persona' = [j \in PersonaIds |-> persona'[j]]
      /\ persona'[q.id] = q.row /\ q.row # Nil
      /\ \A j \in PersonaIds : j # q.id => persona'[j] = persona[j]
  BY <1>1, <1>2, <1>3, RowWritten
<1>5. Table(persona', versions', publicSet', library')
  <2>1. publicSet' \subseteq PersonaIds
    BY <1>1, <1>2, <1>4 DEF Table
  <2>2. library' \in [Owners -> SUBSET PersonaIds]
    BY <1>1, <1>2, <1>4 DEF Table
  <2>3. \A u \in Owners : \A j \in library'[u] : persona'[j] # Nil
    BY <1>1, <1>4 DEF Table
  <2> QED
    BY <1>1, <1>4, <2>1, <2>2, <2>3 DEF Table
<1>6. ASSUME Smooth' PROVE SquareNow(Persona!NoCall, persona', publicSet')
  <2>1. SquareNow(q, persona, publicSet)
    BY <1>0, <1>1, <1>6, Stepping
  <2>2. q.row.visibility = persona[q.id].visibility /\ Exact(persona, publicSet)
    BY <1>1, <2>1 DEF SquareNow
  <2>3. ASSUME q.row.enabled, ~Persona!Square(q.row) PROVE q.id \notin publicSet
    BY <1>2, <2>2, <2>3 DEF Exact, Shown, Persona!Square
  <2>4. q.id \in publicSet' <=> Persona!Square(q.row)
    BY <1>1, <2>3 DEF Persona!Square
  <2>5. \A j \in PersonaIds : j # q.id => (j \in publicSet' <=> j \in publicSet)
    BY <1>1
  <2>6. Exact(persona', publicSet')
    BY <1>4, <2>2, <2>4, <2>5 DEF Exact, Shown
  <2> QED
    BY <2>6, Ended
<1>7. Grown(persona, persona', versions, versions')
  BY <1>1, <1>4
<1> QED
  BY <1>0, <1>1, <1>2, <1>4, <1>5, <1>6, <1>7, CallFacts, Ended, NoCallIs, PersonaMoved

LEMMA PersonaBreakKeeps ==
    ASSUME PersonaInv, NEW c \in Calls, Persona!BreaksOff(c) PROVE PersonaInv'
<1>0. PICK q : q = call[c]
  OBVIOUS
<1>1. /\ q # Persona!NoCall /\ cut' = (cut \/ (q.at = "write" /\ q.op = "edit")) /\ raced' = raced
      /\ UNCHANGED <<persona, versions, publicSet, library, defaultPtr, assignment>>
  BY <1>0 DEF Persona!BreaksOff, Persona!Is, Persona!Kept
<1>2. ASSUME Smooth' PROVE SquareNow(Persona!NoCall, persona', publicSet')
  <2>1. Smooth /\ ~(q.at = "write" /\ q.op = "edit")
    BY <1>1, <1>2 DEF Smooth
  <2>2. SquareNow(q, persona, publicSet)
    BY <1>0, <1>1, <2>1, CallFacts
  <2> QED
    BY <1>1, <2>1, <2>2, Ended DEF SquareNow
<1>3. /\ defaultPtr' \in PersonaIds \cup {Nil} /\ assignment' \in [Peers -> PersonaIds \cup {Nil}]
      /\ DOMAIN persona' = PersonaIds /\ persona' = [i \in PersonaIds |-> persona'[i]]
      /\ Grown(persona, persona', versions, versions')
      /\ Table(persona', versions', publicSet', library')
  BY <1>1, CallFacts, Unchanged DEF Table
<1>4. CallSound(Persona!NoCall, persona', versions')
  BY Ended
<1> QED
  BY <1>2, <1>3, <1>4, NoCallIs, PersonaMoved

LEMMA PersonaKeeps ==
    ASSUME PersonaInv, [Persona!Next]_(Persona!personaVars) PROVE PersonaInv'
<1>1. CASE UNCHANGED Persona!personaVars
  BY <1>1, Zenon DEF Persona!personaVars, PersonaInv, Smooth
<1>2. ASSUME NEW i \in PersonaIds, Persona!Fallback(i) PROVE PersonaInv'
  BY <1>2, Zenon DEF Persona!Fallback, PersonaInv, Smooth
<1>3. ASSUME NEW c \in Calls, Persona!Continue(c) PROVE PersonaInv'
  BY <1>3, StoreKeeps, PointedKeeps, UnpointKeeps, WriteDefaultKeeps, IndexKeeps, WriteKeeps, PublishKeeps,
     WriteVersionKeeps, PointToVersionKeeps, WriteForkKeeps, ReplyKeeps, WriteSwitchKeeps,
     PersonaBreakKeeps
     DEF Persona!Continue
<1>4. ASSUME NEW c \in Calls, NEW i \in PersonaIds, NEW u \in Owners \cup {Official},
             \/ \E v \in {"public", "private"}, d \in BOOLEAN : Persona!Create(c, u, i, v, d)
             \/ \E v \in {"public", "private", "same"}, p \in BOOLEAN, g \in Graphs \cup {Nil} :
                  Persona!Edit(c, u, i, v, p, g)
      PROVE  PersonaInv'
  BY <1>4, CreateBegins, EditBegins
<1>5. ASSUME NEW c \in Calls, NEW i \in PersonaIds,
             \/ Persona!SetDefault(c, i) \/ Persona!PublishByAdmin(c, i)
             \/ \E on \in BOOLEAN : Persona!Switch(c, i, on)
      PROVE  PersonaInv'
  BY <1>5, DefaultBegins, PublishBegins, SwitchBegins
<1>6. ASSUME NEW c \in Calls, NEW i \in PersonaIds, NEW u \in Owners,
             \/ \E s \in PersonaIds, admin \in BOOLEAN : Persona!Fork(c, u, admin, i, s)
             \/ Persona!AddToLibrary(c, u, i) \/ Persona!RemoveFromLibrary(c, u, i)
             \/ \E p \in Peers : Persona!Assign(c, u, p, i)
      PROVE  PersonaInv'
  BY <1>6, ForkBegins, AddBegins, RemoveBegins, AssignBegins
<1> QED
  BY <1>1, <1>2, <1>3, <1>4, <1>5, <1>6, Zenon DEF Persona!Next

LEMMA PersonaInvariant == RecordsSpec => [](InPersonas => PersonaInv)
<1>1. RecordsInit => (InPersonas => PersonaInv)
  BY PersonaInitHolds DEF RecordsInit, InPersonas
<1>2. (InPersonas => PersonaInv) /\ [RecordsNext]_recordsVars => (InPersonas => PersonaInv)'
  BY PartSteps, PersonaKeeps DEF InPersonas
<1> QED
  BY <1>1, <1>2, PTL DEF RecordsSpec

\* Whatever requests race, the version a persona publishes exists and is one of its
\* own; and where no two overlapped and no edit broke off half way, the square lists
\* exactly the personas that are enabled and public.
THEOREM OwnIsPublished == RecordsSpec => []PublishedIsOwn
<1>1. (InPersonas => PersonaInv) => PublishedIsOwn
  <2> SUFFICES ASSUME PersonaInv PROVE Persona!PublishedIsOwn
    BY DEF PublishedIsOwn, InPersonas
  <2>1. \A i \in PersonaIds : persona[i] # Nil =>
          persona[i].version \in 1..Len(versions) /\ versions[persona[i].version].persona = i
    BY DEF PersonaInv, Table, Holds, Own
  <2>2. ASSUME ~raced, ~cut, \A c \in Calls : call[c] = Persona!NoCall
        PROVE  publicSet = {i \in PersonaIds : persona[i] # Nil /\ Persona!Square(persona[i])}
    <3>1. Exact(persona, publicSet) /\ publicSet \subseteq PersonaIds
      BY <2>2 DEF PersonaInv, Smooth, Table
    <3> QED
      BY <3>1 DEF Exact, Shown
  <2> QED
    BY <2>1, <2>2, Zenon DEF Persona!PublishedIsOwn
<1> QED
  BY <1>1, PersonaInvariant, PTL

-----------------------------------------------------------------------------
(* TryChat                                                                 *)

Held == {"model", "append", "save"}
SendRecs == [at : {"none", "check", "reserve"} \cup Held, try : Tries \cup {"none"}, count : Nat, day : Nat]

\* A send that is under way is in a session that had room when it was read, and
\* has a place of a day from the reservation on.
SendSound(c) ==
    /\ c \in SendRecs
    /\ c.at = "none" => c = Try!NoSend
    /\ c.at # "none" => c.try \in Tries /\ c.count < MaxPerSession
    /\ c.at \in Held => c.day \in 1..Days

TryTypes ==
    /\ tryRow \in [Tries -> 0..MaxPerSession + 1] /\ tryMsgs \in [Tries -> Nat]
    /\ tryDay \in [1..Days -> [Triers -> Nat]] /\ dayAnswers \in [1..Days -> [Triers -> Nat]]
    /\ tryAnswers \in [Tries -> Nat] /\ today \in 1..Days
    /\ DOMAIN opening = Tries /\ DOMAIN sent = Sends
    /\ \A m \in Sends : SendSound(sent[m])

\* The places held and the answers given never exceed what the counter of the
\* day has reserved, nor the cap: the counter may run past the cap, the places not.
DayKept(u, d) ==
    /\ Cardinality(Try!Reserved(u, d)) + dayAnswers[d][u] <= MaxPerDay
    /\ Cardinality(Try!Reserved(u, d)) + dayAnswers[d][u] <= tryDay[d][u]

\* A session whose requests never overlapped: its row, while there, counts the
\* answers given; the one send under way has read that row and finds it so.
SessionKept(s) ==
    /\ \A m, n \in Sends : sent[m].at # "none" /\ sent[m].try = s
                           /\ sent[n].at # "none" /\ sent[n].try = s => m = n
    /\ \A m \in Sends : sent[m].at # "none" /\ sent[m].try = s =>
          tryRow[s] # Try!Gone /\ sent[m].count = tryRow[s]
    /\ tryRow[s] # Try!Gone => tryRow[s] = tryAnswers[s] /\ opening[s] = "done" /\ s \notin closed
    /\ opening[s] # "done" => tryAnswers[s] = 0 /\ s \notin closed
    /\ tryAnswers[s] <= MaxPerSession
    /\ s \in closed => s \in ending \/ tryMsgs[s] = 0
    /\ s \in ending => s \in closed

TryInv ==
    /\ TryTypes
    /\ \A u \in Triers, d \in 1..Days : DayKept(u, d)
    /\ \A s \in Tries \ tryMixed : SessionKept(s)

\* The module of TryChat and this one mean the same by a finite set and its size.
LEMMA SameSizes ==
    ASSUME NEW S
    PROVE  (Try!IsFiniteSet(S) <=> IsFiniteSet(S)) /\ Try!Cardinality(S) = Cardinality(S)
<1>1. Try!IsFiniteSet(S) <=> IsFiniteSet(S)
  BY Zenon DEF Try!IsFiniteSet, IsFiniteSet
<1>2. Try!Cardinality(S) = Cardinality(S)
  BY Zenon DEF Try!Cardinality, Cardinality
<1> QED
  BY <1>1, <1>2

LEMMA TryFacts ==
    /\ TryOwner \in [Tries -> Triers] /\ IsFiniteSet(Sends)
    /\ MaxPerDay \in Nat /\ MaxPerSession \in Nat /\ Days \in Nat \ {0}
    /\ Try!Gone = MaxPerSession + 1
<1>1. Try!TryChatAssumption
  BY Assumed
<1> QED
  BY <1>1, SameSizes DEF Try!TryChatAssumption, Try!Gone

LEMMA PlacesFinite ==
    ASSUME NEW T, T \subseteq Sends
    PROVE  IsFiniteSet(T) /\ Cardinality(T) \in Nat
BY TryFacts, FS_Subset, FS_CardinalityType

\* A step that takes no place and gives no answer leaves the days as they should be.
LEMMA NoPlaceTaken ==
    ASSUME TryInv, dayAnswers' = dayAnswers,
           \A d \in 1..Days, u \in Triers : tryDay'[d][u] \in Nat /\ tryDay[d][u] <= tryDay'[d][u],
           \A m \in Sends : sent'[m].at \in Held =>
               /\ sent[m].at \in Held
               /\ sent[m].day = sent'[m].day /\ sent[m].try = sent'[m].try
    PROVE  \A u \in Triers, d \in 1..Days : DayKept(u, d)'
<1> SUFFICES ASSUME NEW u \in Triers, NEW d \in 1..Days PROVE DayKept(u, d)'
  OBVIOUS
<1>1. PICK S : S = Try!Reserved(u, d)
  OBVIOUS
<1>2. PICK T : T = Try!Reserved(u, d)'
  OBVIOUS
<1>3. T \subseteq S /\ S \subseteq Sends
  BY <1>1, <1>2 DEF Try!Reserved, Held
<1>4. Cardinality(T) <= Cardinality(S) /\ Cardinality(T) \in Nat /\ Cardinality(S) \in Nat
  BY <1>3, PlacesFinite, FS_Subset
<1>5. Cardinality(S) + dayAnswers[d][u] <= MaxPerDay /\ Cardinality(S) + dayAnswers[d][u] <= tryDay[d][u]
  BY <1>1 DEF TryInv, DayKept
<1>6. dayAnswers[d][u] \in Nat /\ tryDay[d][u] \in Nat /\ tryDay'[d][u] \in Nat /\ tryDay[d][u] <= tryDay'[d][u]
  BY DEF TryInv, TryTypes
<1>7. Cardinality(T) + dayAnswers[d][u] <= MaxPerDay /\ Cardinality(T) + dayAnswers[d][u] <= tryDay'[d][u]
  BY <1>4, <1>5, <1>6, TryFacts
<1> QED
  BY <1>2, <1>7 DEF DayKept

\* One that concerns no send at all, nor the counters of the days.
LEMMA StillSends ==
    ASSUME TryInv, UNCHANGED <<sent, tryDay, dayAnswers>>
    PROVE  \A u \in Triers, d \in 1..Days : DayKept(u, d)'
<1>1. \A d \in 1..Days, u \in Triers : tryDay[d][u] \in Nat
  BY DEF TryInv, TryTypes
<1>2. \A d \in 1..Days, u \in Triers : tryDay'[d][u] \in Nat /\ tryDay[d][u] <= tryDay'[d][u]
  BY <1>1
<1> QED
  BY <1>2, NoPlaceTaken

LEMMA TryInitHolds == Try!TryInit => TryInv
<1> SUFFICES ASSUME Try!TryInit PROVE TryInv
  OBVIOUS
<1>1. TryTypes
  BY TryFacts DEF Try!TryInit, TryTypes, SendSound, SendRecs, Try!NoSend, Held
<1>2. ASSUME NEW u \in Triers, NEW d \in 1..Days PROVE DayKept(u, d)
  <2>1. Try!Reserved(u, d) = {}
    BY DEF Try!TryInit, Try!Reserved, Try!NoSend
  <2>2. Cardinality(Try!Reserved(u, d)) = 0
    BY <2>1, FS_EmptySet
  <2> QED
    BY <2>2, TryFacts DEF DayKept, Try!TryInit
<1>3. ASSUME NEW s \in Tries PROVE SessionKept(s)
  BY TryFacts DEF SessionKept, Try!TryInit, Try!NoSend
<1> QED
  BY <1>1, <1>2, <1>3 DEF TryInv

LEMMA OpenKeeps ==
    ASSUME TryInv, NEW s \in Tries, Try!OpenAsked(s) \/ Try!OpenMade(s)
    PROVE  TryInv'
<1>1. TryTypes'
  <2>1. /\ DOMAIN opening' = Tries /\ tryRow' \in [Tries -> 0..MaxPerSession + 1]
        /\ UNCHANGED <<tryMsgs, tryDay, today, sent, dayAnswers, tryAnswers>>
    <3>1. CASE Try!OpenAsked(s)
      BY <3>1 DEF TryInv, TryTypes, Try!OpenAsked
    <3>2. CASE Try!OpenMade(s)
      BY <3>2, TryFacts DEF TryInv, TryTypes, Try!OpenMade
    <3> QED
      BY <3>1, <3>2
  <2> QED
    BY <2>1 DEF TryInv, TryTypes
<1>2. \A u \in Triers, d \in 1..Days : DayKept(u, d)'
  BY StillSends DEF Try!OpenAsked, Try!OpenMade
<1>3. ASSUME NEW t \in Tries \ tryMixed' PROVE SessionKept(t)'
  <2>1. SessionKept(t)
    BY <1>3 DEF TryInv, Try!OpenAsked, Try!OpenMade
  <2>2. CASE Try!OpenAsked(s)
    BY <2>1, <2>2, TryFacts DEF SessionKept, TryInv, TryTypes, Try!OpenAsked
  <2>3. CASE Try!OpenMade(s)
    BY <2>1, <2>3, TryFacts DEF SessionKept, TryInv, TryTypes, Try!OpenMade
  <2> QED
    BY <2>2, <2>3
<1> QED
  BY <1>1, <1>2, <1>3 DEF TryInv

LEMMA ReadKeeps ==
    ASSUME TryInv, NEW v \in Triers, NEW k \in Sends, NEW s \in Tries, Try!SendRead(v, k, s)
    PROVE  TryInv'
<1> DEFINE r == [at |-> "check", try |-> s, count |-> tryRow[s], day |-> 0]
<1>1. /\ sent' = [sent EXCEPT ![k] = r] /\ sent[k] = Try!NoSend /\ DOMAIN sent = Sends
      /\ tryRow[s] # Try!Gone /\ tryRow[s] < MaxPerSession /\ opening[s] = "done"
      /\ UNCHANGED <<tryRow, tryMsgs, tryDay, today, opening, ending, dayAnswers, tryAnswers, closed>>
      /\ tryMixed \subseteq tryMixed'
  BY DEF Try!SendRead, TryInv, TryTypes
<1>2. SendSound(r) /\ r.at = "check" /\ r.try = s /\ r.count = tryRow[s]
  <2>1. tryRow[s] \in Nat
    BY TryFacts DEF TryInv, TryTypes
  <2> QED
    BY <1>1, <2>1 DEF SendSound, SendRecs, Held
<1> HIDE DEF r
<1>3. \A m \in Sends : sent'[m] = IF m = k THEN r ELSE sent[m]
  BY <1>1
<1>4. TryTypes'
  <2>1. DOMAIN sent' = Sends /\ \A m \in Sends : SendSound(sent'[m])
    BY <1>1, <1>2, <1>3 DEF TryInv, TryTypes
  <2> QED
    BY <1>1, <2>1 DEF TryInv, TryTypes
<1>5. \A u \in Triers, d \in 1..Days : DayKept(u, d)'
  <2>1. \A m \in Sends : sent'[m].at \in Held =>
          sent[m].at \in Held /\ sent[m].day = sent'[m].day /\ sent[m].try = sent'[m].try
    BY <1>2, <1>3 DEF Held
  <2>2. \A d \in 1..Days, u \in Triers : tryDay[d][u] \in Nat
    BY DEF TryInv, TryTypes
  <2>3. \A d \in 1..Days, u \in Triers : tryDay'[d][u] \in Nat /\ tryDay[d][u] <= tryDay'[d][u]
    BY <1>1, <2>2
  <2> QED
    BY <1>1, <2>1, <2>3, NoPlaceTaken
<1>6. ASSUME NEW t \in Tries \ tryMixed' PROVE SessionKept(t)'
  <2>1. SessionKept(t)
    BY <1>1, <1>6 DEF TryInv
  <2>2. t = s => \A m \in Sends : ~(sent[m].at # "none" /\ sent[m].try = s)
    BY <1>6 DEF Try!SendRead, Try!Under
  <2> QED
    BY <1>1, <1>2, <1>3, <2>1, <2>2 DEF SessionKept
<1> QED
  BY <1>4, <1>5, <1>6 DEF TryInv

\* A send that moves on or stops stays in its session with what it read there.
LEMMA SendMoves ==
    ASSUME TryInv, NEW k \in Sends, NEW r, SendSound(r), sent[k].at # "none",
           sent' = [sent EXCEPT ![k] = r],
           r.at # "none" => r.try = sent[k].try /\ r.count = sent[k].count,
           UNCHANGED <<tryRow, opening, ending, tryAnswers, tryMixed, closed>>
    PROVE  /\ DOMAIN sent' = Sends /\ \A m \in Sends : SendSound(sent'[m])
           /\ \A t \in Tries \ tryMixed' :
                 tryMsgs'[t] = tryMsgs[t] \/ (\E m \in Sends : sent[m].at # "none" /\ sent[m].try = t)
                 => SessionKept(t)'
<1>1. \A m \in Sends : sent'[m] = IF m = k THEN r ELSE sent[m]
  BY DEF TryInv, TryTypes
<1>2. \A m \in Sends : sent'[m].at # "none" =>
        sent[m].at # "none" /\ sent'[m].try = sent[m].try /\ sent'[m].count = sent[m].count
  BY <1>1
<1>3. ASSUME NEW t \in Tries \ tryMixed',
             tryMsgs'[t] = tryMsgs[t] \/ (\E m \in Sends : sent[m].at # "none" /\ sent[m].try = t)
      PROVE  SessionKept(t)'
  <2>1. SessionKept(t)
    BY <1>3 DEF TryInv
  <2> QED
    BY <1>2, <1>3, <2>1 DEF SessionKept
<1> QED
  BY <1>1, <1>3 DEF TryInv, TryTypes

\* Where a send goes next.
LEMMA Stopped == SendSound(Try!NoSend) /\ Try!NoSend.at = "none"
BY DEF SendSound, SendRecs, Held, Try!NoSend

LEMMA Advanced ==
    ASSUME NEW c, SendSound(c), c.at # "none", NEW at \in {"reserve", "append", "save"},
           at \in Held => c.at \in Held
    PROVE  LET r == [c EXCEPT !.at = at]
           IN  SendSound(r) /\ r.at = at /\ r.try = c.try /\ r.count = c.count /\ r.day = c.day
BY DEF SendSound, SendRecs, Held

LEMMA MoveKeeps ==
    ASSUME TryInv, NEW k \in Sends, Try!SendCheck(k) \/ Try!SendModel(k)
    PROVE  TryInv'
<1>1. SendSound(sent[k]) /\ DOMAIN sent = Sends
  BY DEF TryInv, TryTypes
<1>2. PICK at \in {"reserve", "append", "end"} :
        Try!Stage(k, at) /\ sent[k].at # "none" /\ (at \in Held => sent[k].at \in Held)
  BY DEF Try!SendCheck, Try!SendModel, Held
<1> DEFINE r == IF at = "end" THEN Try!NoSend ELSE [sent[k] EXCEPT !.at = at]
<1>a. sent' = [sent EXCEPT ![k] = r]
  BY <1>2 DEF Try!Stage
<1>b. /\ SendSound(r)
      /\ r.at # "none" => r.try = sent[k].try /\ r.count = sent[k].count
      /\ r.at \in Held => sent[k].at \in Held /\ r.day = sent[k].day /\ r.try = sent[k].try
  <2>1. CASE at = "end"
    BY <2>1, Stopped DEF Held
  <2>2. CASE at # "end"
    <3>1. r = [sent[k] EXCEPT !.at = at] /\ at \in {"reserve", "append", "save"}
      BY <1>2, <2>2
    <3>2. /\ SendSound(r) /\ r.try = sent[k].try /\ r.count = sent[k].count /\ r.day = sent[k].day
          /\ r.at = at
      BY <1>1, <1>2, <3>1, Advanced
    <3> QED
      BY <1>2, <3>2
  <2> QED
    BY <2>1, <2>2
<1> HIDE DEF r
<1>3. UNCHANGED <<tryRow, tryMsgs, tryDay, today, usable, opening, ending, dayAnswers, tryAnswers,
                  tryMixed, closed>>
  BY DEF Try!SendCheck, Try!SendModel
<1>4. \A u \in Triers, d \in 1..Days : DayKept(u, d)'
  <2>1. \A m \in Sends : sent'[m].at \in Held =>
          sent[m].at \in Held /\ sent[m].day = sent'[m].day /\ sent[m].try = sent'[m].try
    BY <1>1, <1>a, <1>b
  <2>2. \A d \in 1..Days, u \in Triers : tryDay[d][u] \in Nat
    BY DEF TryInv, TryTypes
  <2>3. \A d \in 1..Days, u \in Triers : tryDay'[d][u] \in Nat /\ tryDay[d][u] <= tryDay'[d][u]
    BY <1>3, <2>2
  <2> QED
    BY <1>3, <2>1, <2>3, NoPlaceTaken
<1>5. /\ DOMAIN sent' = Sends /\ \A m \in Sends : SendSound(sent'[m])
      /\ \A t \in Tries \ tryMixed' : SessionKept(t)'
  BY <1>2, <1>3, <1>a, <1>b, SendMoves
<1>6. TryTypes'
  BY <1>3, <1>5 DEF TryInv, TryTypes
<1> QED
  BY <1>4, <1>5, <1>6 DEF TryInv

LEMMA ReserveKeeps ==
    ASSUME TryInv, NEW k \in Sends, Try!SendReserve(k)
    PROVE  TryInv'
<1>1. PICK c : c = sent[k]
  OBVIOUS
<1>2. /\ SendSound(c) /\ c.at = "reserve" /\ c.try \in Tries /\ DOMAIN sent = Sends
      /\ today \in 1..Days /\ today' = today
      /\ UNCHANGED <<tryRow, tryMsgs, opening, ending, dayAnswers, tryAnswers, tryMixed, closed>>
  BY <1>1 DEF TryInv, TryTypes, SendSound, Try!SendReserve
<1>3. PICK v \in Triers : v = TryOwner[c.try]
  BY <1>2, TryFacts
<1>4. PICK n : n = tryDay[today][v] + 1
  OBVIOUS
<1>5. n \in Nat /\ tryDay[today][v] \in Nat
  <2>1. tryDay \in [1..Days -> [Triers -> Nat]]
    BY DEF TryInv, TryTypes
  <2>2. tryDay[today][v] \in Nat
    BY <1>2, <1>3, <2>1
  <2> QED
    BY <1>4, <2>2
<1> DEFINE r == IF n <= MaxPerDay THEN [c EXCEPT !.at = "model", !.day = today] ELSE Try!NoSend
<1>6. tryDay' = [tryDay EXCEPT ![today][v] = n] /\ sent' = [sent EXCEPT ![k] = r]
  <2>1. /\ tryDay' = [tryDay EXCEPT ![today][v] = n]
        /\ sent' = [sent EXCEPT ![k] = IF ~(n > MaxPerDay) THEN [c EXCEPT !.at = "model", !.day = today]
                                       ELSE Try!NoSend]
    BY <1>1, <1>3, <1>4 DEF Try!SendReserve, Try!Reserves, Try!Overdrawn
  <2>2. ~(n > MaxPerDay) <=> n <= MaxPerDay
    BY <1>5, TryFacts
  <2> QED
    BY <2>1, <2>2
<1>7. /\ SendSound(r)
      /\ r.at # "none" => r.try = c.try /\ r.count = c.count /\ r.day = today /\ n <= MaxPerDay
      /\ n <= MaxPerDay => r.at = "model"
  <2>1. CASE n <= MaxPerDay
    <3>1. r = [c EXCEPT !.at = "model", !.day = today]
      BY <2>1
    <3> HIDE DEF r
    <3>2. today \in Nat
      BY <1>2, TryFacts
    <3> QED
      BY <1>2, <2>1, <3>1, <3>2 DEF SendSound, SendRecs, Held
  <2>2. CASE ~(n <= MaxPerDay)
    BY <2>2, Stopped
  <2> QED
    BY <2>1, <2>2
<1> HIDE DEF r
<1>8. /\ DOMAIN sent' = Sends /\ \A m \in Sends : SendSound(sent'[m])
      /\ \A t \in Tries \ tryMixed' : SessionKept(t)'
  BY <1>1, <1>2, <1>6, <1>7, SendMoves
<1>9. /\ tryDay' \in [1..Days -> [Triers -> Nat]]
      /\ \A d \in 1..Days, u \in Triers :
            tryDay'[d][u] = IF d = today /\ u = v THEN n ELSE tryDay[d][u]
  BY <1>2, <1>5, <1>6 DEF TryInv, TryTypes
<1>10. TryTypes'
  BY <1>2, <1>8, <1>9 DEF TryInv, TryTypes
<1>11. ASSUME NEW u \in Triers, NEW d \in 1..Days PROVE DayKept(u, d)'
  <2>1. PICK S : S = Try!Reserved(u, d)
    OBVIOUS
  <2>2. PICK T : T = Try!Reserved(u, d)'
    OBVIOUS
  <2>3. \A m \in Sends : sent'[m] = IF m = k THEN r ELSE sent[m]
    BY <1>2, <1>6
  <2>4. S \subseteq Sends /\ T \subseteq Sends /\ k \notin S
    BY <1>1, <1>2, <2>1, <2>2 DEF Try!Reserved
  <2>5. T \subseteq S \cup {k} /\ (k \in T => d = today /\ u = v /\ n <= MaxPerDay)
    BY <1>1, <1>3, <1>7, <2>1, <2>2, <2>3 DEF Try!Reserved
  <2>6. Cardinality(S) \in Nat /\ Cardinality(T) \in Nat /\ IsFiniteSet(S)
    BY <2>4, PlacesFinite
  <2>7. /\ Cardinality(S) + dayAnswers[d][u] <= MaxPerDay
        /\ Cardinality(S) + dayAnswers[d][u] <= tryDay[d][u]
        /\ dayAnswers[d][u] \in Nat /\ tryDay[d][u] \in Nat
    BY <2>1 DEF TryInv, TryTypes, DayKept
  <2>8. /\ Cardinality(T) + dayAnswers[d][u] <= MaxPerDay
        /\ Cardinality(T) + dayAnswers[d][u] <= tryDay'[d][u]
    <3>1. CASE k \in T
      <4>1. Cardinality(S \cup {k}) = Cardinality(S) + 1 /\ IsFiniteSet(S \cup {k})
        BY <2>4, <2>6, FS_AddElement
      <4>2. Cardinality(T) <= Cardinality(S) + 1
        BY <2>5, <4>1, FS_Subset
      <4>3. n = tryDay[d][u] + 1 /\ n <= MaxPerDay /\ tryDay'[d][u] = n
        BY <1>4, <1>9, <2>5, <3>1
      <4> QED
        BY <2>6, <2>7, <4>2, <4>3, TryFacts
    <3>2. CASE k \notin T
      <4>1. T \subseteq S
        BY <2>5, <3>2
      <4>2. Cardinality(T) <= Cardinality(S)
        BY <2>6, <4>1, FS_Subset
      <4>3. tryDay[d][u] <= tryDay'[d][u] /\ tryDay'[d][u] \in Nat
        BY <1>4, <1>5, <1>9, <2>7
      <4> QED
        BY <2>6, <2>7, <4>2, <4>3, TryFacts
    <3> QED
      BY <3>1, <3>2
  <2> QED
    BY <1>2, <2>2, <2>8 DEF DayKept
<1> QED
  BY <1>8, <1>10, <1>11 DEF TryInv

LEMMA AppendKeeps ==
    ASSUME TryInv, NEW k \in Sends, Try!SendAppend(k)
    PROVE  TryInv'
<1>1. PICK c : c = sent[k]
  OBVIOUS
<1>2. /\ SendSound(c) /\ c.at = "append" /\ c.try \in Tries /\ DOMAIN sent = Sends
      /\ UNCHANGED <<tryRow, tryDay, today, opening, ending, dayAnswers, tryAnswers, tryMixed, closed>>
  BY <1>1 DEF TryInv, TryTypes, SendSound, Try!SendAppend
<1> DEFINE r == [c EXCEPT !.at = "save"]
<1>3. sent' = [sent EXCEPT ![k] = r]
  BY <1>1 DEF Try!SendAppend, Try!Stage
<1>4. SendSound(r) /\ r.at = "save" /\ r.try = c.try /\ r.count = c.count /\ r.day = c.day
  BY <1>2, Advanced DEF Held
<1> HIDE DEF r
<1>5. tryMsgs' \in [Tries -> Nat] /\ \A t \in Tries : t # c.try => tryMsgs'[t] = tryMsgs[t]
  <2>1. tryMsgs' = [tryMsgs EXCEPT ![c.try] = Try!Kept(tryMsgs[c.try] + 1)]
    BY <1>1 DEF Try!SendAppend
  <2>2. Try!Kept(tryMsgs[c.try] + 1) \in Nat /\ tryMsgs \in [Tries -> Nat]
    BY <1>2, Assumed, SMTT(30) DEF Try!Kept, TryInv, TryTypes, Try!TryChatAssumption
  <2> QED
    BY <1>2, <2>1, <2>2
<1>6. /\ DOMAIN sent' = Sends /\ \A m \in Sends : SendSound(sent'[m])
      /\ \A t \in Tries \ tryMixed' : SessionKept(t)'
  <2>1. \A t \in Tries \ tryMixed' :
          tryMsgs'[t] = tryMsgs[t] \/ \E m \in Sends : sent[m].at # "none" /\ sent[m].try = t
    BY <1>1, <1>2, <1>5
  <2> QED
    BY <1>1, <1>2, <1>3, <1>4, <2>1, SendMoves
<1>7. TryTypes'
  BY <1>2, <1>5, <1>6 DEF TryInv, TryTypes
<1>8. \A u \in Triers, d \in 1..Days : DayKept(u, d)'
  <2>1. \A m \in Sends : sent'[m].at \in Held =>
          sent[m].at \in Held /\ sent[m].day = sent'[m].day /\ sent[m].try = sent'[m].try
    BY <1>1, <1>2, <1>3, <1>4 DEF Held
  <2>2. \A d \in 1..Days, u \in Triers : tryDay[d][u] \in Nat
    BY DEF TryInv, TryTypes
  <2>3. \A d \in 1..Days, u \in Triers : tryDay'[d][u] \in Nat /\ tryDay[d][u] <= tryDay'[d][u]
    BY <1>2, <2>2
  <2> QED
    BY <1>2, <2>1, <2>3, NoPlaceTaken
<1> QED
  BY <1>6, <1>7, <1>8 DEF TryInv

LEMMA SaveKeeps ==
    ASSUME TryInv, NEW k \in Sends, Try!SendSave(k)
    PROVE  TryInv'
<1>1. PICK c : c = sent[k]
  OBVIOUS
<1>2. PICK s \in Tries : s = c.try
  BY <1>1 DEF TryInv, TryTypes, SendSound, Try!SendSave
<1>3. PICK v \in Triers : v = TryOwner[s]
  BY TryFacts
<1>4. PICK e \in 1..Days : e = c.day
  BY <1>1 DEF TryInv, TryTypes, SendSound, Try!SendSave, Held
<1>5. /\ SendSound(c) /\ c.at = "save" /\ DOMAIN sent = Sends
      /\ c.count \in Nat /\ c.count < MaxPerSession
      /\ UNCHANGED <<tryMsgs, tryDay, today, opening, ending, tryMixed, closed>>
  BY <1>1 DEF TryInv, TryTypes, SendSound, SendRecs, Try!SendSave
<1>6. /\ sent' = [sent EXCEPT ![k] = Try!NoSend]
      /\ tryRow' = [tryRow EXCEPT ![s] = c.count + 1]
      /\ dayAnswers' = [dayAnswers EXCEPT ![e][v] = dayAnswers[e][v] + 1]
      /\ tryAnswers' = [tryAnswers EXCEPT ![s] = tryAnswers[s] + 1]
  BY <1>1, <1>2, <1>3, <1>4 DEF Try!SendSave, Try!Stage, Try!Counted
<1>7. /\ dayAnswers' \in [1..Days -> [Triers -> Nat]]
      /\ \A d \in 1..Days, u \in Triers :
            dayAnswers'[d][u] = IF d = e /\ u = v THEN dayAnswers[d][u] + 1 ELSE dayAnswers[d][u]
  BY <1>6 DEF TryInv, TryTypes
<1>8. \A m \in Sends : sent'[m] = IF m = k THEN Try!NoSend ELSE sent[m]
  BY <1>5, <1>6
<1>9. /\ tryRow' \in [Tries -> 0..MaxPerSession + 1] /\ tryAnswers' \in [Tries -> Nat]
      /\ \A t \in Tries : /\ tryRow'[t] = IF t = s THEN c.count + 1 ELSE tryRow[t]
                          /\ tryAnswers'[t] = IF t = s THEN tryAnswers[t] + 1 ELSE tryAnswers[t]
  <2>1. tryRow \in [Tries -> 0..MaxPerSession + 1] /\ tryAnswers \in [Tries -> Nat]
    BY DEF TryInv, TryTypes
  <2>2. c.count + 1 \in 0..MaxPerSession + 1
    BY <1>5, TryFacts
  <2>3. tryAnswers[s] + 1 \in Nat
    BY <2>1
  <2> QED
    BY <1>6, <2>1, <2>2, <2>3
<1>10. TryTypes'
  <2>1. DOMAIN sent' = Sends /\ \A m \in Sends : SendSound(sent'[m])
    BY <1>5, <1>6, <1>8, Stopped DEF TryInv, TryTypes
  <2> QED
    BY <1>5, <1>7, <1>9, <2>1 DEF TryInv, TryTypes
<1>11. ASSUME NEW u \in Triers, NEW d \in 1..Days PROVE DayKept(u, d)'
  <2>1. PICK S : S = Try!Reserved(u, d)
    OBVIOUS
  <2>2. PICK T : T = Try!Reserved(u, d)'
    OBVIOUS
  <2>3. S \subseteq Sends /\ T = S \ {k} /\ (k \in S <=> d = e /\ u = v)
    <3>1. T = S \ {k}
      BY <1>8, <2>1, <2>2, Stopped DEF Try!Reserved
    <3> QED
      BY <1>1, <1>2, <1>3, <1>4, <1>5, <2>1, <3>1 DEF Try!Reserved
  <2>4. /\ Cardinality(S) \in Nat
        /\ Cardinality(T) = IF k \in S THEN Cardinality(S) - 1 ELSE Cardinality(S)
    BY <2>3, PlacesFinite, FS_RemoveElement
  <2>5. /\ Cardinality(S) + dayAnswers[d][u] <= MaxPerDay
        /\ Cardinality(S) + dayAnswers[d][u] <= tryDay[d][u]
        /\ dayAnswers[d][u] \in Nat
    BY <2>1 DEF TryInv, TryTypes, DayKept
  <2>6. Cardinality(T) + dayAnswers'[d][u] = Cardinality(S) + dayAnswers[d][u]
    <3>1. CASE k \in S
      <4>1. dayAnswers'[d][u] = dayAnswers[d][u] + 1
        BY <1>7, <2>3, <3>1
      <4>2. Cardinality(T) = Cardinality(S) - 1
        BY <2>4, <3>1
      <4> QED
        BY <2>4, <2>5, <4>1, <4>2
    <3>2. CASE k \notin S
      <4>1. dayAnswers'[d][u] = dayAnswers[d][u]
        BY <1>7, <2>3, <3>2
      <4> QED
        BY <2>4, <3>2, <4>1
    <3> QED
      BY <3>1, <3>2
  <2> QED
    BY <1>5, <2>2, <2>5, <2>6 DEF DayKept
<1>12. ASSUME NEW t \in Tries \ tryMixed' PROVE SessionKept(t)'
  <2>1. SessionKept(t)
    BY <1>5, <1>12 DEF TryInv
  <2>2. CASE t # s
    BY <1>5, <1>8, <1>9, <2>1, <2>2, Stopped DEF SessionKept
  <2>3. CASE t = s
    <3>1. /\ c.count = tryRow[s] /\ tryRow[s] = tryAnswers[s] /\ opening[s] = "done" /\ s \notin closed
          /\ \A m \in Sends : sent[m].at # "none" /\ sent[m].try = s => m = k
      BY <1>1, <1>2, <1>5, <2>1, <2>3 DEF SessionKept
    <3>2. \A m \in Sends : ~(sent'[m].at # "none" /\ sent'[m].try = s)
      BY <1>8, <3>1, Stopped
    <3>3. tryRow'[s] = tryAnswers'[s] /\ tryAnswers'[s] <= MaxPerSession
      BY <1>5, <1>9, <3>1, TryFacts
    <3> QED
      BY <1>5, <2>1, <2>3, <3>1, <3>2, <3>3 DEF SessionKept
  <2> QED
    BY <2>2, <2>3
<1> QED
  BY <1>10, <1>11, <1>12 DEF TryInv

LEMMA EndKeeps ==
    ASSUME TryInv, NEW s \in Tries,
           (\E v \in Triers : Try!EndRow(v, s)) \/ Try!EndMsgs(s) \/ Try!TryExpires(s)
    PROVE  TryInv'
<1>1. UNCHANGED <<tryDay, today, opening, sent, dayAnswers, tryAnswers>> /\ tryMixed \subseteq tryMixed'
  BY DEF Try!EndRow, Try!EndMsgs, Try!TryExpires
<1>2. TryTypes'
  <2>1. tryRow' \in [Tries -> 0..MaxPerSession + 1] /\ tryMsgs' \in [Tries -> Nat]
    <3>1. tryRow' = tryRow \/ tryRow' = [tryRow EXCEPT ![s] = Try!Gone]
      BY DEF Try!EndRow, Try!EndMsgs, Try!TryExpires
    <3>2. tryMsgs' = tryMsgs \/ tryMsgs' = [tryMsgs EXCEPT ![s] = 0]
      BY DEF Try!EndRow, Try!EndMsgs, Try!TryExpires
    <3> QED
      <4>1. tryRow \in [Tries -> 0..MaxPerSession + 1] /\ tryMsgs \in [Tries -> Nat]
        BY DEF TryInv, TryTypes
      <4>2. Try!Gone \in 0..MaxPerSession + 1
        BY TryFacts
      <4> QED
        BY <3>1, <3>2, <4>1, <4>2
  <2> QED
    BY <1>1, <2>1 DEF TryInv, TryTypes
<1>3. \A u \in Triers, d \in 1..Days : DayKept(u, d)'
  BY <1>1, StillSends
<1>4. ASSUME NEW t \in Tries \ tryMixed' PROVE SessionKept(t)'
  <2>1. SessionKept(t) /\ tryRow \in [Tries -> 0..MaxPerSession + 1] /\ tryMsgs \in [Tries -> Nat]
    BY <1>1, <1>4 DEF TryInv, TryTypes
  <2>2. CASE \E v \in Triers : Try!EndRow(v, s)
    <3>1. t = s => \A m \in Sends : ~(sent[m].at # "none" /\ sent[m].try = s)
      BY <1>4, <2>2 DEF Try!EndRow, Try!Under
    <3> QED
      BY <2>1, <2>2, <3>1 DEF SessionKept, Try!EndRow
  <2>3. CASE Try!EndMsgs(s)
    BY <2>1, <2>3 DEF SessionKept, Try!EndMsgs
  <2>4. CASE Try!TryExpires(s)
    <3>1. \A m \in Sends : ~(sent[m].at # "none" /\ sent[m].try = s)
      BY <2>4 DEF Try!TryExpires, Try!Under
    <3> QED
      BY <2>1, <2>4, <3>1 DEF SessionKept, Try!TryExpires
  <2> QED
    BY <2>2, <2>3, <2>4
<1> QED
  BY <1>2, <1>3, <1>4 DEF TryInv

LEMMA WorldTurns ==
    ASSUME TryInv, Try!Midnight \/ Try!TakenDown \/ UNCHANGED Try!tryVars
    PROVE  TryInv'
<1>1. /\ UNCHANGED <<tryRow, tryMsgs, tryDay, opening, ending, sent, dayAnswers, tryAnswers, tryMixed, closed>>
      /\ today' \in 1..Days
  BY TryFacts DEF Try!Midnight, Try!TakenDown, Try!tryVars, TryInv, TryTypes
<1>2. TryTypes'
  BY <1>1 DEF TryInv, TryTypes
<1>3. \A u \in Triers, d \in 1..Days : DayKept(u, d)'
  BY <1>1, StillSends
<1>4. \A t \in Tries \ tryMixed' : SessionKept(t)'
  BY <1>1 DEF TryInv, SessionKept
<1> QED
  BY <1>2, <1>3, <1>4 DEF TryInv

LEMMA TryKeeps ==
    ASSUME TryInv, [Try!TryNext]_(Try!tryVars)
    PROVE  TryInv'
<1>1. ASSUME NEW s \in Tries, Try!OpenAsked(s) \/ Try!OpenMade(s) PROVE TryInv'
  BY <1>1, OpenKeeps
<1>2. ASSUME NEW u \in Triers, NEW m \in Sends, NEW s \in Tries, Try!SendRead(u, m, s) PROVE TryInv'
  BY <1>2, ReadKeeps
<1>3. ASSUME NEW m \in Sends,
             \/ Try!SendCheck(m) \/ Try!SendReserve(m) \/ Try!SendModel(m)
             \/ Try!SendAppend(m) \/ Try!SendSave(m)
      PROVE  TryInv'
  BY <1>3, MoveKeeps, ReserveKeeps, AppendKeeps, SaveKeeps
<1>4. ASSUME NEW s \in Tries,
             (\E u \in Triers : Try!EndRow(u, s)) \/ Try!EndMsgs(s) \/ Try!TryExpires(s)
      PROVE  TryInv'
  BY <1>4, EndKeeps
<1>5. ASSUME Try!Midnight \/ Try!TakenDown \/ UNCHANGED Try!tryVars PROVE TryInv'
  BY <1>5, WorldTurns
<1> QED
  BY <1>1, <1>2, <1>3, <1>4, <1>5, Zenon DEF Try!TryNext

LEMMA TryInvariant == RecordsSpec => [](InTry => TryInv)
<1>1. RecordsInit => (InTry => TryInv)
  BY TryInitHolds DEF RecordsInit, InTry
<1>2. (InTry => TryInv) /\ [RecordsNext]_recordsVars => (InTry => TryInv)'
  BY PartSteps, TryKeeps DEF InTry
<1> QED
  BY <1>1, <1>2, PTL DEF RecordsSpec

\* The cap of a day holds whatever sends run at once and wherever one stops; that of
\* a session, and its end, where its requests never overlapped.
THEOREM TryCapsHold == RecordsSpec => []TryCaps
<1>1. (InTry => TryInv) => TryCaps
  <2> SUFFICES ASSUME TryInv PROVE Try!TryCaps
    BY DEF TryCaps, InTry
  <2>1. \A u \in Triers, d \in 1..Days :
          Try!Cardinality(Try!Reserved(u, d)) + dayAnswers[d][u] <= MaxPerDay
    BY SameSizes DEF TryInv, DayKept
  <2>2. \A s \in Tries \ tryMixed :
          /\ tryAnswers[s] <= MaxPerSession
          /\ s \in closed => tryRow[s] = Try!Gone /\ (s \in ending \/ tryMsgs[s] = 0)
    BY DEF TryInv, SessionKept
  <2> QED
    BY <2>1, <2>2 DEF Try!TryCaps
<1> QED
  BY <1>1, TryInvariant, PTL

-----------------------------------------------------------------------------
(* Stickers                                                                *)

Carrying == {"store", "unslug", "slug", "write", "sync", "erase", "shelf"}
Changes == [image : Images \cup {Null}, slug : Slugs \cup {Null},
            visibility : {"public", "private", "same"}, enabled : {"on", "off", "same"},
            review : BOOLEAN]
StickerReqs ==
    [op : {"idle", "create", "edit", "approve", "reject", "takedown", "restore", "delete", "shelve"},
     at : {"end", "image", "load", "unshelf"} \cup Carrying, id : StickerIds \cup {Null},
     by : Sticker!Creators \cup {Null}, row : Sticker!Rows \cup {Null}, patch : Changes]

\* A user's row that others see, were it enabled: somebody must have approved it.
Promised(row) == row.owner # System /\ row.visibility = "public" /\ row.review = "approved"
Granted(row, approved) == Promised(row) => approved # {}

\* What a request has in hand.
ReqSound(q) ==
    /\ q \in StickerReqs
    /\ q.at = "end" => q = Sticker!Idle
    /\ q.at # "end" => q.id \in StickerIds
    /\ q.at \in Carrying => q.row \in Sticker!Rows
    /\ q.at \in {"image", "load", "unslug", "slug"} => q.op = "edit"
    /\ q.at \in {"shelf", "unshelf"} => q.op = "shelve"
    /\ q.at = "image" => q.patch.image \in Images
    /\ q.at \in {"unslug", "slug"} => q.patch.image = Null /\ q.patch.slug \in Slugs
    /\ q.at = "store" => ~Promised(q.row)
    /\ q.op # "edit" => q.patch.image = Null
\* Whatever it writes was approved, but for what it is about to approve itself.
Carries(q) == q.at \in Carrying \ {"store"} /\ ~(q.at = "write" /\ q.op = "approve")

\* The records of a sticker agree, and what others see is the image approved, but for
\* what a request that broke off had half written.
SlugRight(i) == torn["slug"] = {} /\ rows[i] # Null => bySlug[rows[i].slug] = i
ImageRight(i) ==
    i \notin torn["image"] /\ rows[i] # Null =>
      /\ images[i] = rows[i].hash
      /\ Promised(rows[i]) => images[i] \in approvals[i]
ListsRight(i) ==
    i \notin torn["lists"] /\ rows[i] # Null =>
      /\ i \in square <=> Sticker!OnSquare(rows[i])
      /\ i \in queue <=> Sticker!AwaitsReview(rows[i])
Right(i) == SlugRight(i) /\ ImageRight(i) /\ ListsRight(i)
Unclaimed(i, s) == torn["slug"] = {} => \A k \in StickerIds \ {i} : rows[k] # Null => rows[k].slug # s

\* How far a request that is alone has brought the records of its sticker.
Brought(q) ==
    LET i == q.id IN
    /\ q.at = "store" => Unclaimed(i, q.row.slug)
    /\ q.at \in {"image", "unshelf", "unslug", "erase", "shelf"} => Right(i)
    /\ q.at = "load" => /\ SlugRight(i) /\ ListsRight(i)
                        /\ q.patch.image = Null => ImageRight(i)
                        /\ q.patch.image # Null /\ rows[i] # Null => images[i] = q.patch.image
    /\ q.at \in {"unslug", "slug", "erase", "shelf", "sync"} => rows[i] = q.row
    /\ q.at \in {"unslug", "slug"} => Unclaimed(i, q.patch.slug)
    /\ q.at = "slug" => ImageRight(i) /\ ListsRight(i)
    /\ q.at = "write" => /\ ListsRight(i)
                         /\ q.op # "edit" \/ q.patch.image # Null => SlugRight(i)
                         /\ q.patch.image = Null => ImageRight(i)
                         /\ torn["slug"] = {} => bySlug[q.row.slug] = i
                         /\ i \notin torn["image"] =>
                              /\ images[i] = q.row.hash
                              /\ Promised(q.row) => q.op = "approve" \/ images[i] \in approvals[i]
                         /\ q.op = "shelve" => rows[i] = q.row
    /\ q.at = "sync" => SlugRight(i) /\ ImageRight(i)

SquareTypes ==
    /\ rows \in [StickerIds -> Sticker!Rows \cup {Null}]
    /\ images \in [StickerIds -> Images \cup {Null}]
    /\ bySlug \in [Slugs -> StickerIds \cup {Null}]
    /\ square \subseteq StickerIds /\ queue \subseteq StickerIds
    /\ approvals \in [StickerIds -> SUBSET (Images \cup {Null})]
    /\ overlapped \in BOOLEAN
    /\ torn \in [{"image", "slug", "lists"} -> SUBSET StickerIds]

\* Nothing of a sticker that is yet to be stored is in anybody's hands.
Unborn(r) ==
    req[r].at = "store" =>
      /\ rows[req[r].id] = Null
      /\ \A q \in Requests \ {r} : req[q].id = req[r].id => req[q].at = "unshelf"

SquareInv ==
    /\ SquareTypes
    /\ DOMAIN req = Requests
    /\ \A r \in Requests : ReqSound(req[r])
    /\ \A r \in Requests : Unborn(r)
    /\ \A i \in StickerIds : rows[i] # Null => Granted(rows[i], approvals[i])
    /\ \A r \in Requests : Carries(req[r]) => Granted(req[r].row, approvals[req[r].id])
    /\ ~overlapped =>
         /\ \A r, q \in Requests : req[r].at # "end" /\ req[q].at # "end" => r = q
         /\ \A i \in StickerIds : (\A r \in Requests : req[r].id # i) => Right(i)
         /\ \A r \in Requests, c \in StickerReqs : c = req[r] /\ c.at # "end" => Brought(c)

LEMMA StickerFacts ==
    /\ Patches \subseteq Changes /\ Sticker!NoPatch \in Changes /\ System \in Sticker!Creators
    /\ Null \notin StickerIds /\ Null \notin Images /\ Null \notin Slugs /\ Null \notin Sticker!Rows
    /\ System # Null /\ System \notin Collectors
    /\ Sticker!NoPatch.image = Null
<1>1. Sticker!StickerAssumption
  BY Assumed
<1> QED
  BY <1>1 DEF Sticker!StickerAssumption, Changes, Sticker!NoPatch, Sticker!Creators

LEMMA IdleIs ==
    /\ Sticker!Idle \in StickerReqs /\ Sticker!Idle.op = "idle" /\ Sticker!Idle.at = "end"
    /\ Sticker!Idle.id = Null /\ ReqSound(Sticker!Idle)
<1>1. Sticker!Idle \in StickerReqs /\ Sticker!Idle.op = "idle" /\ Sticker!Idle.at = "end" /\ Sticker!Idle.id = Null
      /\ Sticker!Idle.patch.image = Null
  BY StickerFacts DEF Sticker!Idle, StickerReqs, Carrying
<1> QED
  BY <1>1 DEF ReqSound, Carrying

\* What an edit and a review may do to a row: neither makes a row public that was
\* not approved as it is, but an approval.
LEMMA EditedRow ==
    ASSUME NEW row \in Sticker!Rows, NEW p \in Changes
    PROVE  LET new == Sticker!Edited(row, p)
           IN  /\ new \in Sticker!Rows /\ new.slug = row.slug
               /\ new.hash = IF p.image = Null THEN row.hash ELSE p.image
               /\ Promised(new) => Promised(row) /\ p.image = Null
<1> DEFINE set == [row EXCEPT !.enabled = IF p.enabled = "same" THEN @ ELSE p.enabled = "on",
                              !.hash = IF p.image = Null THEN @ ELSE p.image,
                              !.visibility = IF p.visibility = "same" THEN @ ELSE p.visibility]
           again == set.visibility = "public" /\ set.owner # System
                    /\ (p.review \/ p.visibility = "public" \/ p.image # Null)
           judged == IF again THEN [set EXCEPT !.review = "pending"] ELSE set
           new == IF Sticker!Hidden(judged) THEN [judged EXCEPT !.review = "approved"] ELSE judged
<1>1. /\ set \in Sticker!Rows /\ set.slug = row.slug /\ set.owner = row.owner /\ set.review = row.review
      /\ set.hash = (IF p.image = Null THEN row.hash ELSE p.image)
      /\ set.visibility = IF p.visibility = "same" THEN row.visibility ELSE p.visibility
  BY StickerFacts DEF Sticker!Rows, Changes
<1>2. new = Sticker!Edited(row, p)
  BY DEF Sticker!Edited
<1> HIDE DEF set
<1>3. /\ judged \in Sticker!Rows /\ judged.slug = set.slug /\ judged.owner = set.owner
      /\ judged.hash = set.hash /\ judged.visibility = set.visibility
      /\ judged.review = IF again THEN "pending" ELSE set.review
  BY <1>1 DEF Sticker!Rows
<1> HIDE DEF judged
<1>4. /\ new \in Sticker!Rows /\ new.slug = judged.slug /\ new.owner = judged.owner
      /\ new.hash = judged.hash /\ new.visibility = judged.visibility
      /\ new.visibility = "public" => new.review = judged.review
  BY <1>3 DEF Sticker!Rows, Sticker!Hidden
<1> HIDE DEF new
<1>5. Promised(new) => Promised(row) /\ p.image = Null
  <2> SUFFICES ASSUME Promised(new) PROVE Promised(row) /\ p.image = Null
    OBVIOUS
  <2>1. set.visibility = "public" /\ set.owner # System /\ ~again /\ set.review = "approved"
    BY <1>3, <1>4 DEF Promised
  <2>2. p.visibility # "public" /\ p.image = Null
    BY <2>1
  <2>3. p.visibility = "same"
    BY <1>1, <2>1, <2>2 DEF Changes
  <2> QED
    BY <1>1, <2>1, <2>2, <2>3 DEF Promised
<1> QED
  BY <1>1, <1>2, <1>3, <1>4, <1>5

LEMMA ReviewedRow ==
    ASSUME NEW row \in Sticker!Rows, NEW op \in {"approve", "reject", "takedown", "restore"}
    PROVE  LET new == Sticker!Reviewed(row, op)
           IN  /\ new \in Sticker!Rows /\ new.slug = row.slug /\ new.hash = row.hash
               /\ op # "approve" /\ Promised(new) => Promised(row)
<1>1. CASE op = "approve"
  BY <1>1 DEF Sticker!Reviewed, Sticker!Rows
<1>2. CASE op = "reject"
  BY <1>2 DEF Sticker!Reviewed, Sticker!Rows, Promised
<1>3. CASE op = "takedown"
  BY <1>3 DEF Sticker!Reviewed, Sticker!Rows, Promised
<1>4. CASE op = "restore"
  BY <1>4 DEF Sticker!Reviewed, Sticker!Rows, Promised
<1> QED
  BY <1>1, <1>2, <1>3, <1>4

LEMMA StickerInitHolds == ASSUME Sticker!Init PROVE SquareInv
<1>1. /\ \A i \in StickerIds : rows[i] = Null
      /\ \A r \in Requests : req[r] = Sticker!Idle
      /\ DOMAIN req = Requests
  BY DEF Sticker!Init
<1>2. SquareTypes
  BY DEF Sticker!Init, SquareTypes
<1>3. \A i \in StickerIds : Right(i)
  BY <1>1 DEF Right, SlugRight, ImageRight, ListsRight
<1> QED
  BY <1>1, <1>2, <1>3, IdleIs DEF SquareInv, Unborn, Carries, Carrying

-----------------------------------------------------------------------------
\* Request r, about sticker i, goes on to c or ends; or begins as c.
Onward(r, i, c) ==
    /\ req' = [req EXCEPT ![r] = c]
    /\ \/ /\ req[r].at # "end" /\ i = req[r].id /\ overlapped' = overlapped
          /\ c = Sticker!Idle \/ (c.at \notin {"end", "store"} /\ c.id = i)
       \/ /\ req[r] = Sticker!Idle /\ c.at # "end" /\ c.id = i
          /\ overlapped' = (overlapped \/ \E q \in Requests : req[q] # Sticker!Idle)

\* A request that is alone finds every other sticker right.
LEMMA AloneFinds ==
    ASSUME SquareInv, NEW r \in Requests, NEW i \in StickerIds, NEW c, Onward(r, i, c), ~overlapped'
    PROVE  /\ \A q \in Requests \ {r} : req[q] = Sticker!Idle
           /\ \A k \in StickerIds \ {i} : Right(k)
           /\ req[r].at = "end" => Right(i)
           /\ \A q \in StickerReqs : q = req[r] /\ q.at # "end" => Brought(q)
<1>1. ~overlapped
  BY DEF Onward, SquareInv, SquareTypes
<1>2. \A q \in Requests \ {r} : req[q] = Sticker!Idle
  <2>1. CASE req[r].at # "end"
    BY <1>1, <2>1 DEF SquareInv, ReqSound
  <2>2. CASE req[r].at = "end"
    BY <2>2 DEF Onward
  <2> QED
    BY <2>1, <2>2
<1>3. \A q \in Requests : req[q].id \in {i, Null}
  <2>1. req[r].id \in {i, Null}
    BY IdleIs DEF Onward
  <2> QED
    BY <1>2, <2>1, IdleIs
<1>4. \A k \in StickerIds \ {i} : Right(k)
  BY <1>1, <1>3, StickerFacts DEF SquareInv
<1>5. req[r].at = "end" => \A q \in Requests : req[q].id # i
  BY <1>2, IdleIs, StickerFacts DEF SquareInv, ReqSound
<1>6. req[r].at = "end" => Right(i)
  BY <1>1, <1>5 DEF SquareInv
<1> QED
  BY <1>1, <1>2, <1>4, <1>6 DEF SquareInv

\* A step of a request keeps the invariant when what it leaves behind does.
LEMMA StickerMoved ==
    ASSUME SquareInv, NEW r \in Requests, NEW i \in StickerIds, NEW c, Onward(r, i, c),
           SquareTypes', ReqSound(c),
           \A k \in StickerIds \ {i} : rows'[k] = rows[k] /\ approvals'[k] = approvals[k],
           c.at = "store" => rows'[i] = Null /\ \A q \in Requests : req[q].id # i,
           c.at \in {"end", "store", "unshelf"} \/ req[r].at \notin {"end", "unshelf"} \/ rows[i] # Null,
           rows'[i] = rows[i] \/ req[r].at \notin {"end", "unshelf"},
           approvals[i] # {} => req[r].at = "store" \/ approvals'[i] # {},
           rows'[i] # Null => Granted(rows'[i], approvals'[i]),
           Carries(c) => Granted(c.row, approvals'[i]),
           ~overlapped' => /\ \A k \in StickerIds \ {i} : Right(k)'
                           /\ c.at = "end" => Right(i)'
                           /\ c.at # "end" => Brought(c)'
    PROVE  SquareInv'
<1>1. \A q \in Requests : req'[q] = IF q = r THEN c ELSE req[q]
  BY DEF Onward, SquareInv
<1>2. c.at = "end" => c = Sticker!Idle
  BY DEF ReqSound
<1>3. c.at # "end" => c.id = i
  BY IdleIs DEF Onward
<1>4. \A q \in Requests : ReqSound(req'[q])
  BY <1>1 DEF SquareInv
<1>5. \A q \in Requests \ {r} : req[q].at = "store" /\ req[q].id = i =>
        req[r].at \in {"end", "unshelf"} /\ rows[i] = Null
  <2> SUFFICES ASSUME NEW q \in Requests \ {r}, req[q].at = "store", req[q].id = i
               PROVE  req[r].at \in {"end", "unshelf"} /\ rows[i] = Null
    OBVIOUS
  <2>1. Unborn(q)
    BY DEF SquareInv
  <2>2. rows[i] = Null /\ (req[r].id = i => req[r].at = "unshelf")
    BY <2>1 DEF Unborn
  <2> QED
    BY <2>2, IdleIs DEF Onward
<1>6. ASSUME NEW q \in Requests PROVE Unborn(q)'
  <2> SUFFICES ASSUME req'[q].at = "store"
               PROVE  /\ rows'[req'[q].id] = Null
                      /\ \A p \in Requests \ {q} : req'[p].id = req'[q].id => req'[p].at = "unshelf"
    BY DEF Unborn
  <2>1. CASE q = r
    BY <1>1, <1>3, <2>1
  <2>2. CASE q # r
    <3>1. req[q].at = "store" /\ Unborn(q) /\ req[q].id \in StickerIds /\ req'[q] = req[q]
      BY <1>1, <2>2 DEF SquareInv, ReqSound
    <3>2. rows[req[q].id] = Null /\ \A p \in Requests \ {q} : req[p].id = req[q].id => req[p].at = "unshelf"
      BY <3>1 DEF Unborn
    <3>3. rows'[req[q].id] = Null
      BY <1>5, <2>2, <3>1, <3>2
    <3>4. c.at # "end" /\ c.id = req[q].id => c.at = "unshelf"
      BY <1>3, <1>5, <2>2, <3>1
    <3>5. c.at = "end" => c.id # req[q].id
      BY <1>2, <3>1, IdleIs, StickerFacts
    <3> QED
      BY <1>1, <3>1, <3>2, <3>3, <3>4, <3>5
  <2> QED
    BY <2>1, <2>2
<1>7. \A k \in StickerIds : rows'[k] # Null => Granted(rows'[k], approvals'[k])
  BY DEF SquareInv
<1>8. ASSUME NEW q \in Requests, Carries(req'[q]) PROVE Granted(req'[q].row, approvals'[req'[q].id])
  <2>1. CASE q = r
    <3>1. c.at # "end"
      BY <1>1, <1>8, <2>1 DEF Carries, Carrying
    <3> QED
      BY <1>1, <1>3, <1>8, <2>1, <3>1
  <2>2. CASE q # r
    <3>1. req'[q] = req[q] /\ Granted(req[q].row, approvals[req[q].id]) /\ req[q].id \in StickerIds
      BY <1>1, <1>8, <2>2 DEF SquareInv, ReqSound, Carries, Carrying
    <3>2. req[q].id = i => req[r].at # "store"
      <4>1. Unborn(r)
        BY DEF SquareInv
      <4>2. req[q].at # "unshelf"
        BY <1>8, <3>1 DEF Carries, Carrying
      <4> QED
        BY <2>2, <4>1, <4>2, IdleIs DEF Unborn, Onward
    <3> QED
      BY <3>1, <3>2 DEF Granted
  <2> QED
    BY <2>1, <2>2
<1>9. ASSUME ~overlapped'
      PROVE  /\ \A q, p \in Requests : req'[q].at # "end" /\ req'[p].at # "end" => q = p
             /\ \A k \in StickerIds : (\A q \in Requests : req'[q].id # k) => Right(k)'
             /\ \A q \in Requests, d \in StickerReqs : d = req'[q] /\ d.at # "end" => Brought(d)'
  <2>1. \A q \in Requests \ {r} : req'[q] = Sticker!Idle
    BY <1>1, <1>9, AloneFinds
  <2>2. req'[r] = c
    BY <1>1
  <2>3. \A k \in StickerIds : (\A q \in Requests : req'[q].id # k) => Right(k)'
    BY <1>3, <1>9, <2>2
  <2>4. \A q \in Requests : req'[q].at # "end" => q = r
    BY <2>1, IdleIs
  <2> QED
    BY <1>9, <2>2, <2>3, <2>4
<1>10. DOMAIN req' = Requests
  BY DEF Onward, SquareInv
<1> QED
  BY <1>4, <1>6, <1>7, <1>8, <1>9, <1>10 DEF SquareInv

\* A request begins: nothing that is stored changes.
LEMMA StickerBegins ==
    ASSUME SquareInv, NEW r \in Requests, NEW i \in StickerIds, NEW op, NEW at, NEW u, NEW row, NEW p,
           Sticker!Start(r, op, at, i, u, row, p),
           UNCHANGED <<rows, images, bySlug, square, queue, approvals>>,
           NEW c, c = [op |-> op, at |-> at, id |-> i, by |-> u, row |-> row, patch |-> p],
           ReqSound(c), at # "end",
           at = "store" => rows[i] = Null /\ \A q \in Requests : req[q].id # i,
           at \notin {"store", "unshelf"} => rows[i] # Null,
           Carries(c) => Granted(row, approvals[i]),
           (\A k \in StickerIds : Right(k)) => Brought(c)
    PROVE  SquareInv'
<1>1. Onward(r, i, c) /\ req[r].at = "end" /\ c.at = at /\ c.row = row /\ torn' = torn
  BY IdleIs DEF Sticker!Start, Onward
<1>2. SquareTypes'
  BY <1>1 DEF SquareInv, SquareTypes, Onward
<1>3. ASSUME ~overlapped'
      PROVE  /\ \A k \in StickerIds \ {i} : Right(k)'
             /\ Brought(c)'
  <2>1. \A k \in StickerIds : Right(k)
    BY <1>1, <1>3, AloneFinds
  <2>2. \A k \in StickerIds : Right(k)'
    BY <1>1, <2>1 DEF Right, SlugRight, ImageRight, ListsRight
  <2>3. Brought(c)'
    BY <1>1, <2>1 DEF Brought, Unclaimed, Right, SlugRight, ImageRight, ListsRight
  <2> QED
    BY <2>2, <2>3
<1>4. rows[i] # Null => Granted(rows[i], approvals[i])
  BY DEF SquareInv
<1> QED
  BY <1>1, <1>2, <1>3, <1>4, StickerMoved

\* The parts of a request.
LEMMA ReqParts ==
    ASSUME NEW op \in {"create", "edit", "approve", "reject", "takedown", "restore", "delete", "shelve"},
           NEW at \in {"image", "load", "unshelf"} \cup Carrying, NEW i \in StickerIds,
           NEW u \in Sticker!Creators, NEW row \in Sticker!Rows \cup {Null}, NEW p \in Changes,
           NEW c, c = [op |-> op, at |-> at, id |-> i, by |-> u, row |-> row, patch |-> p]
    PROVE  /\ c \in StickerReqs /\ c.op = op /\ c.at = at /\ c.id = i /\ c.row = row /\ c.patch = p
           /\ at # "end"
BY DEF StickerReqs, Carrying

LEMMA StickerRow ==
    ASSUME SquareInv, NEW i \in StickerIds, rows[i] # Null
    PROVE  /\ rows[i] \in Sticker!Rows /\ rows[i].owner \in Sticker!Creators /\ rows[i].slug \in Slugs
           /\ Granted(rows[i], approvals[i])
BY DEF SquareInv, SquareTypes, Sticker!Rows

LEMMA SubmitBegins ==
    ASSUME SquareInv, NEW r \in Requests, NEW i \in StickerIds, NEW u \in Sticker!Creators, NEW s \in Slugs,
           NEW v \in {"public", "private"}, NEW auto \in BOOLEAN, NEW image \in Images,
           Sticker!Submit(r, u, i, s, v, auto, image)
    PROVE  SquareInv'
<1>1. PICK row : row = Sticker!NewRow(u, s, v, auto, image)
  OBVIOUS
<1>2. row \in Sticker!Rows /\ row.slug = s /\ ~Promised(row)
  BY <1>1 DEF Sticker!Submit, Sticker!MayAutoApprove, Sticker!NewRow, Sticker!Rows, Promised
<1>3. PICK c : c = [op |-> "create", at |-> "store", id |-> i, by |-> u, row |-> row, patch |-> Sticker!NoPatch]
  OBVIOUS
<1>4. /\ c \in StickerReqs /\ c.op = "create" /\ c.at = "store" /\ c.id = i /\ c.row = row /\ c.patch = Sticker!NoPatch
  <2>1. "store" \in Carrying
    BY DEF Carrying
  <2> QED
    BY <1>2, <1>3, <2>1, ReqParts, StickerFacts
<1>5. ReqSound(c) /\ ~Carries(c)
  BY <1>2, <1>4, StickerFacts DEF ReqSound, Carries
<1>6. (\A k \in StickerIds : Right(k)) => Brought(c)
  <2> SUFFICES ASSUME \A k \in StickerIds : Right(k), torn["slug"] = {}, NEW k \in StickerIds \ {i}, rows[k] # Null
               PROVE  rows[k].slug # s
    BY <1>2, <1>4 DEF Brought, Unclaimed
  <2>1. bySlug[rows[k].slug] = k
    BY DEF Right, SlugRight
  <2> QED
    BY <2>1, StickerFacts DEF Sticker!Submit, Sticker!SlugTaken
<1> QED
  BY <1>1, <1>3, <1>5, <1>6, StickerBegins DEF Sticker!Submit, Sticker!Stored

LEMMA ChangeBegins ==
    ASSUME SquareInv, NEW r \in Requests, NEW i \in StickerIds, NEW u \in Sticker!Creators, NEW p \in Patches,
           Sticker!Edit(r, u, i, p)
    PROVE  SquareInv'
<1>1. PICK at : at = IF p.image # Null THEN "image" ELSE "load"
  OBVIOUS
<1>2. PICK patch : patch = [p EXCEPT !.review = u # System \/ rows[i].owner # System]
  OBVIOUS
<1>3. patch \in Changes /\ patch.image = p.image /\ p.image \in Images \cup {Null}
  BY <1>2, StickerFacts DEF Changes
<1>4. PICK c : c = [op |-> "edit", at |-> at, id |-> i, by |-> u, row |-> Null, patch |-> patch]
  OBVIOUS
<1>5. at \in {"image", "load"}
  BY <1>1
<1>6. /\ c \in StickerReqs /\ c.op = "edit" /\ c.at = at /\ c.id = i /\ c.patch = patch
  BY <1>3, <1>4, <1>5, ReqParts
<1>7. ReqSound(c) /\ ~Carries(c)
  BY <1>1, <1>3, <1>5, <1>6 DEF ReqSound, Carries, Carrying
<1>8. (\A k \in StickerIds : Right(k)) => Brought(c)
  BY <1>1, <1>3, <1>5, <1>6 DEF Brought, Right
<1>9. Sticker!Start(r, "edit", at, i, u, Null, patch) /\ rows[i] # Null
      /\ UNCHANGED <<rows, images, bySlug, square, queue, approvals>>
  BY <1>1, <1>2 DEF Sticker!Edit, Sticker!Stored
<1> QED
  BY <1>4, <1>5, <1>7, <1>8, <1>9, StickerBegins

\* A review or a removal by its owner: the row is read and changed.
LEMMA JudgeBegins ==
    ASSUME SquareInv, NEW r \in Requests, NEW i \in StickerIds, rows[i] # Null,
           NEW op \in {"approve", "reject", "takedown", "restore"}, NEW u \in Sticker!Creators,
           Sticker!Start(r, op, "write", i, u, Sticker!Reviewed(rows[i], op), Sticker!NoPatch),
           UNCHANGED <<rows, images, bySlug, square, queue, approvals>>
    PROVE  SquareInv'
<1>1. PICK row : row = Sticker!Reviewed(rows[i], op)
  OBVIOUS
<1>2. /\ row \in Sticker!Rows /\ row.slug = rows[i].slug /\ row.hash = rows[i].hash
      /\ op # "approve" /\ Promised(row) => Promised(rows[i])
  BY <1>1, StickerRow, ReviewedRow
<1>3. PICK c : c = [op |-> op, at |-> "write", id |-> i, by |-> u, row |-> row, patch |-> Sticker!NoPatch]
  OBVIOUS
<1>4. /\ c \in StickerReqs /\ c.op = op /\ c.at = "write" /\ c.id = i /\ c.row = row /\ c.patch = Sticker!NoPatch
  <2>1. "write" \in Carrying
    BY DEF Carrying
  <2> QED
    BY <1>2, <1>3, <2>1, ReqParts, StickerFacts
<1>5. ReqSound(c) /\ (Carries(c) => op # "approve")
  BY <1>2, <1>4, StickerFacts DEF ReqSound, Carries
<1>6. (\A k \in StickerIds : Right(k)) => Brought(c)
  BY <1>2, <1>4 DEF Brought, Right, SlugRight, ImageRight, ListsRight
<1>7. Carries(c) => Granted(row, approvals[i])
  BY <1>2, <1>5, StickerRow DEF Granted
<1> QED
  BY <1>1, <1>3, <1>5, <1>6, <1>7, StickerBegins

\* A removal by an administrator, and a sticker taken into a library: the row is
\* read and kept.
LEMMA ReadBegins ==
    ASSUME SquareInv, NEW r \in Requests, NEW i \in StickerIds, rows[i] # Null, NEW u \in Sticker!Creators,
           \/ Sticker!Start(r, "delete", "erase", i, u, rows[i], Sticker!NoPatch)
           \/ Sticker!Start(r, "shelve", "shelf", i, u, rows[i], Sticker!NoPatch),
           UNCHANGED <<rows, images, bySlug, square, queue, approvals>>
    PROVE  SquareInv'
<1>1. PICK op \in {"delete", "shelve"}, at \in {"erase", "shelf"} :
        /\ Sticker!Start(r, op, at, i, u, rows[i], Sticker!NoPatch)
        /\ at = "shelf" => op = "shelve"
  OBVIOUS
<1>2. PICK row : row = rows[i]
  OBVIOUS
<1>3. PICK c : c = [op |-> op, at |-> at, id |-> i, by |-> u, row |-> row, patch |-> Sticker!NoPatch]
  OBVIOUS
<1>4. /\ c \in StickerReqs /\ c.op = op /\ c.at = at /\ c.id = i /\ c.row = row /\ row \in Sticker!Rows /\ c.patch = Sticker!NoPatch
  <2>1. at \in Carrying /\ row \in Sticker!Rows
    BY <1>2, StickerRow DEF Carrying
  <2> QED
    BY <1>3, <2>1, ReqParts, StickerFacts
<1>5. ReqSound(c)
  BY <1>1, <1>4, StickerFacts DEF ReqSound
<1>6. (\A k \in StickerIds : Right(k)) => Brought(c)
  BY <1>2, <1>4 DEF Brought
<1>7. Granted(row, approvals[i])
  BY <1>2, StickerRow
<1> QED
  BY <1>1, <1>2, <1>3, <1>5, <1>6, <1>7, StickerBegins

LEMMA UnshelveBegins ==
    ASSUME SquareInv, NEW r \in Requests, NEW i \in StickerIds, NEW u \in Collectors, Sticker!Unshelve(r, u, i)
    PROVE  SquareInv'
<1>1. PICK c : c = [op |-> "shelve", at |-> "unshelf", id |-> i, by |-> u, row |-> Null,
                    patch |-> Sticker!NoPatch]
  OBVIOUS
<1>2. c \in StickerReqs /\ c.op = "shelve" /\ c.at = "unshelf" /\ c.id = i /\ c.patch = Sticker!NoPatch
  <2>1. u \in Sticker!Creators
    BY DEF Sticker!Creators
  <2> QED
    BY <1>1, <2>1, ReqParts, StickerFacts
<1>3. ReqSound(c) /\ ~Carries(c)
  BY <1>2, StickerFacts DEF ReqSound, Carries, Carrying
<1>4. (\A k \in StickerIds : Right(k)) => Brought(c)
  BY <1>2 DEF Brought
<1>5. /\ Sticker!Start(r, "shelve", "unshelf", i, u, Null, Sticker!NoPatch)
      /\ UNCHANGED <<rows, images, bySlug, square, queue, approvals>>
  BY DEF Sticker!Unshelve
<1> QED
  BY <1>1, <1>3, <1>4, <1>5, StickerBegins

LEMMA RequestBegins ==
    ASSUME SquareInv, NEW r \in Requests, NEW i \in StickerIds,
           \/ \E op \in {"approve", "reject", "takedown", "restore"} : Sticker!Review(r, op, i)
           \/ Sticker!TakeBack(r, i) \/ Sticker!Delete(r, i)
           \/ \E u \in Collectors : Sticker!Shelve(r, u, i) \/ Sticker!Unshelve(r, u, i)
    PROVE  SquareInv'
<1>1. ASSUME NEW op \in {"approve", "reject", "takedown", "restore"}, Sticker!Review(r, op, i) PROVE SquareInv'
  BY <1>1, JudgeBegins, StickerFacts DEF Sticker!Review, Sticker!Stored
<1>2. CASE Sticker!TakeBack(r, i)
  <2>1. rows[i] # Null /\ rows[i].owner \in Sticker!Creators
    BY <1>2, StickerRow DEF Sticker!TakeBack
  <2> QED
    BY <1>2, <2>1, JudgeBegins DEF Sticker!TakeBack, Sticker!Stored
<1>3. CASE Sticker!Delete(r, i)
  BY <1>3, ReadBegins, StickerFacts DEF Sticker!Delete, Sticker!Stored
<1>4. ASSUME NEW u \in Collectors, Sticker!Shelve(r, u, i) PROVE SquareInv'
  <2>1. u \in Sticker!Creators
    BY DEF Sticker!Creators
  <2> QED
    BY <1>4, <2>1, ReadBegins DEF Sticker!Shelve, Sticker!Stored
<1> QED
  BY <1>1, <1>2, <1>3, <1>4, UnshelveBegins

LEMMA ReqFacts ==
    ASSUME SquareInv, NEW r \in Requests, NEW q, q = req[r], q.at # "end"
    PROVE  /\ ReqSound(q) /\ q \in StickerReqs /\ q.id \in StickerIds /\ Unborn(r) /\ SquareTypes
           /\ q.patch \in Changes /\ q.row \in Sticker!Rows \cup {Null}
           /\ Carries(q) => Granted(q.row, approvals[q.id])
BY DEF SquareInv, ReqSound, StickerReqs

\* A request at another stage.
LEMMA ReqGoes ==
    ASSUME NEW q \in StickerReqs, NEW at \in {"image", "load", "unshelf"} \cup Carrying,
           NEW c, c = [q EXCEPT !.at = at]
    PROVE  /\ c \in StickerReqs /\ c.at = at /\ c.op = q.op /\ c.id = q.id /\ c.row = q.row
           /\ c.patch = q.patch /\ c.by = q.by
<1>1. at \in {"end", "image", "load", "unshelf"} \cup Carrying
  OBVIOUS
<1> QED
  BY <1>1 DEF StickerReqs

LEMMA StickerStoreKeeps ==
    ASSUME SquareInv, NEW r \in Requests, Sticker!Store(r)
    PROVE  SquareInv'
<1>1. PICK q : q = req[r]
  OBVIOUS
<1>2. PICK i \in StickerIds : i = q.id
  BY <1>1, ReqFacts DEF Sticker!Store, Sticker!At
<1>3. /\ q.at = "store" /\ ReqSound(q) /\ q \in StickerReqs /\ Unborn(r) /\ SquareTypes
      /\ q.row \in Sticker!Rows /\ ~Promised(q.row)
  BY <1>1, ReqFacts DEF Sticker!Store, Sticker!At, ReqSound, Carrying
<1> DEFINE c == [q EXCEPT !.at = "sync"]
<1>4. /\ c \in StickerReqs /\ c.at = "sync" /\ c.op = q.op /\ c.id = i /\ c.row = q.row /\ c.patch = q.patch
  <2>1. "sync" \in Carrying
    BY DEF Carrying
  <2> QED
    BY <1>2, <1>3, <2>1, ReqGoes
<1>5. req' = [req EXCEPT ![r] = c] /\ overlapped' = overlapped /\ torn' = torn
  BY <1>1 DEF Sticker!Store, Sticker!Goto
<1> HIDE DEF c
<1>6. Onward(r, i, c) /\ ReqSound(c) /\ Carries(c)
  BY <1>1, <1>2, <1>3, <1>4, <1>5 DEF Onward, ReqSound, Carries, Carrying
<1>7. /\ rows' = [rows EXCEPT ![i] = q.row] /\ images' = [images EXCEPT ![i] = q.row.hash]
      /\ bySlug' = [bySlug EXCEPT ![q.row.slug] = i] /\ approvals' = [approvals EXCEPT ![i] = {}]
      /\ UNCHANGED <<square, queue>> /\ q.row.slug \in Slugs /\ q.row.hash \in Images
  BY <1>1, <1>2, <1>3 DEF Sticker!Store, Sticker!Rows
<1>8. /\ rows'[i] = q.row /\ images'[i] = q.row.hash /\ bySlug'[q.row.slug] = i /\ approvals'[i] = {}
      /\ \A k \in StickerIds \ {i} : rows'[k] = rows[k] /\ approvals'[k] = approvals[k] /\ images'[k] = images[k]
      /\ \A s \in Slugs \ {q.row.slug} : bySlug'[s] = bySlug[s]
  BY <1>3, <1>7 DEF SquareTypes
<1>9. SquareTypes'
  BY <1>3, <1>5, <1>7 DEF SquareTypes
<1>10. ASSUME ~overlapped'
       PROVE  (\A k \in StickerIds \ {i} : Right(k)') /\ Brought(c)'
  <2>1. Unclaimed(i, q.row.slug)
    BY <1>1, <1>2, <1>3, <1>6, <1>10, AloneFinds DEF Brought
  <2>2. ASSUME NEW k \in StickerIds \ {i} PROVE Right(k)'
    <3>1. Right(k) /\ (torn["slug"] = {} /\ rows[k] # Null => rows[k].slug \in Slugs \ {q.row.slug})
      BY <1>6, <1>10, <2>1, <2>2, AloneFinds, StickerRow DEF Unclaimed
    <3> QED
      BY <1>5, <1>7, <1>8, <2>2, <3>1 DEF Right, SlugRight, ImageRight, ListsRight
  <2>3. Brought(c)'
    BY <1>3, <1>4, <1>5, <1>8 DEF Brought, SlugRight, ImageRight
  <2> QED
    BY <2>2, <2>3
<1> QED
  BY <1>1, <1>3, <1>4, <1>6, <1>8, <1>9, <1>10, StickerMoved DEF Granted

LEMMA PutImageKeeps ==
    ASSUME SquareInv, NEW r \in Requests, Sticker!PutImage(r)
    PROVE  SquareInv'
<1>1. PICK q : q = req[r]
  OBVIOUS
<1>2. PICK i \in StickerIds : i = q.id
  BY <1>1, ReqFacts DEF Sticker!PutImage, Sticker!At
<1>3. /\ q.at = "image" /\ ReqSound(q) /\ q \in StickerReqs /\ SquareTypes
      /\ q.op = "edit" /\ q.patch.image \in Images
  BY <1>1, ReqFacts DEF Sticker!PutImage, Sticker!At, ReqSound
<1> DEFINE c == [q EXCEPT !.at = "load"]
<1>4. /\ c \in StickerReqs /\ c.at = "load" /\ c.op = q.op /\ c.id = i /\ c.row = q.row /\ c.patch = q.patch
  BY <1>2, <1>3, ReqGoes
<1>5. req' = [req EXCEPT ![r] = c] /\ overlapped' = overlapped /\ torn' = torn
  BY <1>1 DEF Sticker!PutImage, Sticker!Goto
<1> HIDE DEF c
<1>6. Onward(r, i, c) /\ ReqSound(c) /\ ~Carries(c)
  BY <1>1, <1>2, <1>3, <1>4, <1>5 DEF Onward, ReqSound, Carries, Carrying
<1>7. /\ images' = [images EXCEPT ![i] = q.patch.image]
      /\ UNCHANGED <<rows, bySlug, square, queue, approvals>>
  BY <1>1, <1>2 DEF Sticker!PutImage
<1>8. images'[i] = q.patch.image /\ \A k \in StickerIds \ {i} : images'[k] = images[k]
  BY <1>3, <1>7 DEF SquareTypes
<1>9. SquareTypes'
  BY <1>3, <1>5, <1>7 DEF SquareTypes
<1>10. ASSUME ~overlapped'
       PROVE  (\A k \in StickerIds \ {i} : Right(k)') /\ Brought(c)'
  <2>1. Right(i)
    BY <1>1, <1>2, <1>3, <1>6, <1>10, AloneFinds DEF Brought
  <2>2. \A k \in StickerIds \ {i} : Right(k)'
    BY <1>5, <1>6, <1>7, <1>8, <1>10, AloneFinds DEF Right, SlugRight, ImageRight, ListsRight
  <2>3. Brought(c)'
    BY <1>3, <1>4, <1>5, <1>7, <1>8, <2>1, StickerFacts DEF Brought, Right, SlugRight, ListsRight
  <2> QED
    BY <2>2, <2>3
<1>11. rows[i] # Null => Granted(rows[i], approvals[i])
  BY StickerRow
<1> QED
  BY <1>1, <1>3, <1>4, <1>6, <1>7, <1>9, <1>10, <1>11, StickerMoved

\* A step that stores nothing.
LEMMA StickerWaits ==
    ASSUME SquareInv, NEW r \in Requests, NEW q, q = req[r], q.at # "end", NEW c,
           req' = [req EXCEPT ![r] = c], overlapped' = overlapped, torn' = torn,
           UNCHANGED <<rows, images, bySlug, square, queue, approvals>>,
           c = Sticker!Idle \/ (c.at \notin {"end", "store", "unshelf"} /\ c.id = q.id),
           ReqSound(c),
           c = Sticker!Idle \/ q.at # "unshelf" \/ rows[q.id] # Null,
           Carries(c) => Granted(c.row, approvals[q.id]),
           Brought(q) /\ (\A k \in StickerIds \ {q.id} : Right(k)) =>
             IF c = Sticker!Idle THEN Right(q.id) ELSE Brought(c)
    PROVE  SquareInv'
<1>1. PICK i \in StickerIds : i = q.id
  BY ReqFacts
<1>2. Onward(r, i, c)
  BY <1>1 DEF Onward
<1>3. SquareTypes'
  BY ReqFacts DEF SquareTypes
<1>4. ASSUME ~overlapped'
      PROVE  /\ \A k \in StickerIds \ {i} : Right(k)'
             /\ c.at = "end" => Right(i)'
             /\ c.at # "end" => Brought(c)'
  <2>1. Brought(q) /\ \A k \in StickerIds \ {i} : Right(k)
    BY <1>2, <1>4, AloneFinds, ReqFacts
  <2>2. \A k \in StickerIds : Right(k) => Right(k)'
    BY DEF Right, SlugRight, ImageRight, ListsRight
  <2>3. Brought(c) => Brought(c)'
    BY ZenonT(30) DEF Brought, Unclaimed, Right, SlugRight, ImageRight, ListsRight
  <2>4. c.at = "end" <=> c = Sticker!Idle
    BY IdleIs
  <2> QED
    BY <1>1, <2>1, <2>2, <2>3, <2>4
<1>5. rows[i] # Null => Granted(rows[i], approvals[i])
  BY StickerRow
<1>6. /\ c.at = "store" => rows'[i] = Null /\ \A p \in Requests : req[p].id # i
      /\ c.at \in {"end", "store", "unshelf"} \/ req[r].at \notin {"end", "unshelf"} \/ rows[i] # Null
  BY <1>1, IdleIs
<1> QED
  BY <1>1, <1>2, <1>3, <1>4, <1>5, <1>6, StickerMoved

LEMMA LoadKeeps ==
    ASSUME SquareInv, NEW r \in Requests, Sticker!Load(r)
    PROVE  SquareInv'
<1>1. PICK q : q = req[r]
  OBVIOUS
<1>2. PICK i \in StickerIds : i = q.id
  BY <1>1, ReqFacts DEF Sticker!Load, Sticker!At
<1>3. PICK row : row = rows[i]
  OBVIOUS
<1>4. /\ q.at = "load" /\ ReqSound(q) /\ q \in StickerReqs /\ q.op = "edit" /\ q.patch \in Changes
      /\ UNCHANGED <<rows, images, bySlug, square, queue, approvals>>
  BY <1>1, ReqFacts DEF Sticker!Load, Sticker!At, Sticker!Stored, ReqSound
<1>5. SUFFICES ASSUME row # Null, req' # [req EXCEPT ![r] = Sticker!Idle] PROVE SquareInv'
  <2>1. CASE req' = [req EXCEPT ![r] = Sticker!Idle]
    <3>1. overlapped' = overlapped /\ torn' = torn
      BY DEF Sticker!Load, Sticker!Goto, Sticker!GotoWith
    <3>2. Brought(q) => Right(i) \/ req' # [req EXCEPT ![r] = Sticker!Idle]
      <4> SUFFICES ASSUME Brought(q), ~Right(i) PROVE FALSE
        BY <2>1
      <4>1. row # Null /\ q.patch.image # Null
        BY <1>2, <1>3, <1>4 DEF Brought, Right, SlugRight, ListsRight, ImageRight
      <4>2. PICK new : Sticker!GotoWith(r, "write", new)
        BY <1>1, <1>2, <1>3, <4>1 DEF Sticker!Load
      <4>3. req'[r].at = "write"
        BY <4>2 DEF Sticker!GotoWith, SquareInv
      <4>4. req'[r].at = "end"
        BY <2>1, IdleIs DEF SquareInv
      <4> QED
        BY <4>3, <4>4
    <3> QED
      BY <1>1, <1>2, <1>4, <2>1, <3>1, <3>2, IdleIs, StickerWaits DEF Carries, Carrying
  <2>2. CASE row = Null
    <3>1. Sticker!Goto(r, "end")
      BY <1>1, <1>2, <1>3, <2>2 DEF Sticker!Load
    <3> QED
      BY <2>1, <3>1 DEF Sticker!Goto
  <2> QED
    BY <1>5, <2>1, <2>2
<1>6. row \in Sticker!Rows /\ row.slug \in Slugs /\ Granted(row, approvals[i])
  BY <1>2, <1>3, <1>5, StickerRow
<1>7. CASE q.patch.image = Null /\ q.patch.slug \notin {Null, row.slug}
  <2>0. PICK c : c = [q EXCEPT !.at = "unslug", !.row = row]
    OBVIOUS
  <2>1. /\ req' = [req EXCEPT ![r] = c] /\ overlapped' = overlapped /\ torn' = torn
        /\ ~(Sticker!SlugTaken(q.patch.slug) /\ bySlug[q.patch.slug] # i)
    <3>1. ~(Sticker!SlugTaken(q.patch.slug) /\ bySlug[q.patch.slug] # i) /\ Sticker!GotoWith(r, "unslug", row)
      BY <1>1, <1>2, <1>3, <1>5, <1>7 DEF Sticker!Load, Sticker!Goto
    <3> QED
      BY <1>1, <2>0, <3>1 DEF Sticker!GotoWith
  <2>2. /\ c \in StickerReqs /\ c.at = "unslug" /\ c.op = q.op /\ c.id = i /\ c.row = row /\ c.patch = q.patch
    <3>1. "unslug" \in Carrying
      BY DEF Carrying
    <3> QED
      BY <1>2, <1>4, <1>6, <2>0, <3>1 DEF StickerReqs
  <2>3. ReqSound(c) /\ q.patch.slug \in Slugs
    BY <1>4, <1>6, <1>7, <2>2 DEF ReqSound, Changes
  <2>4. ASSUME Brought(q), \A k \in StickerIds \ {i} : Right(k) PROVE Brought(c)
    <3>1. Right(i)
      BY <1>2, <1>4, <1>7, <2>4 DEF Brought, Right
    <3>2. Unclaimed(i, q.patch.slug)
      <4> SUFFICES ASSUME torn["slug"] = {}, NEW k \in StickerIds \ {i}, rows[k] # Null PROVE rows[k].slug # q.patch.slug
        BY DEF Unclaimed
      <4>1. bySlug[rows[k].slug] = k
        BY <2>4 DEF Right, SlugRight
      <4> QED
        BY <2>1, <4>1, StickerFacts DEF Sticker!SlugTaken
    <3> QED
      BY <1>3, <2>2, <3>1, <3>2 DEF Brought
  <2> QED
    BY <1>1, <1>2, <1>4, <1>6, <2>1, <2>2, <2>3, <2>4, IdleIs, StickerWaits
<1>8. CASE ~(q.patch.image = Null /\ q.patch.slug \notin {Null, row.slug})
  <2>1. PICK p : p = IF q.patch.image = Null THEN q.patch
                     ELSE [Sticker!NoPatch EXCEPT !.image = q.patch.image, !.review = TRUE]
    OBVIOUS
  <2>2. p \in Changes /\ p.image = q.patch.image
    <3>1. Sticker!NoPatch \in Changes /\ q.patch.image \in Images \cup {Null}
      BY <1>4, StickerFacts DEF Changes
    <3> QED
      BY <1>4, <2>1, <3>1 DEF Changes
  <2>3. PICK new : new = Sticker!Edited(row, p)
    OBVIOUS
  <2>4. /\ new \in Sticker!Rows /\ new.slug = row.slug
        /\ new.hash = IF p.image = Null THEN row.hash ELSE p.image
        /\ Promised(new) => Promised(row) /\ p.image = Null
    BY <1>6, <2>2, <2>3, EditedRow
  <2>0. PICK c : c = [q EXCEPT !.at = "write", !.row = new]
    OBVIOUS
  <2>5. req' = [req EXCEPT ![r] = c] /\ overlapped' = overlapped /\ torn' = torn
    <3>1. Sticker!GotoWith(r, "write", new)
      BY <1>1, <1>2, <1>3, <1>5, <1>8, <2>1, <2>3 DEF Sticker!Load
    <3> QED
      BY <1>1, <2>0, <3>1 DEF Sticker!GotoWith
  <2>6. /\ c \in StickerReqs /\ c.at = "write" /\ c.op = q.op /\ c.id = i /\ c.row = new /\ c.patch = q.patch
    <3>1. "write" \in Carrying
      BY DEF Carrying
    <3> QED
      BY <1>2, <1>4, <2>0, <2>4, <3>1 DEF StickerReqs
  <2>7. ReqSound(c)
    BY <1>4, <2>4, <2>6 DEF ReqSound
  <2>8. Granted(new, approvals[i])
    BY <1>6, <2>4 DEF Granted
  <2>9. ASSUME Brought(q) PROVE Brought(c)
    BY <1>2, <1>3, <1>4, <1>5, <2>2, <2>4, <2>6, <2>9 DEF Brought, SlugRight, ImageRight, ListsRight
  <2> QED
    BY <1>1, <1>2, <1>4, <2>5, <2>6, <2>7, <2>8, <2>9, IdleIs, StickerWaits
<1> QED
  BY <1>7, <1>8

LEMMA DropSlugKeeps ==
    ASSUME SquareInv, NEW r \in Requests, Sticker!DropSlug(r)
    PROVE  SquareInv'
<1>1. PICK q : q = req[r]
  OBVIOUS
<1>2. PICK i \in StickerIds : i = q.id
  BY <1>1, ReqFacts DEF Sticker!DropSlug, Sticker!At
<1>3. /\ q.at = "unslug" /\ ReqSound(q) /\ q \in StickerReqs /\ SquareTypes /\ q.op = "edit"
      /\ q.row \in Sticker!Rows /\ q.row.slug \in Slugs
  BY <1>1, ReqFacts DEF Sticker!DropSlug, Sticker!At, ReqSound, Carrying, Sticker!Rows
<1> DEFINE c == [q EXCEPT !.at = "slug"]
<1>4. /\ c \in StickerReqs /\ c.at = "slug" /\ c.op = q.op /\ c.id = i /\ c.row = q.row /\ c.patch = q.patch
  <2>1. "slug" \in Carrying
    BY DEF Carrying
  <2> QED
    BY <1>2, <1>3, <2>1, ReqGoes
<1>5. req' = [req EXCEPT ![r] = c] /\ overlapped' = overlapped /\ torn' = torn
  BY <1>1 DEF Sticker!DropSlug, Sticker!Goto
<1> HIDE DEF c
<1>6. Onward(r, i, c) /\ ReqSound(c) /\ (Carries(c) => Carries(q))
  BY <1>1, <1>2, <1>3, <1>4, <1>5 DEF Onward, ReqSound, Carries, Carrying
<1>7. /\ bySlug' = [bySlug EXCEPT ![q.row.slug] = Null]
      /\ UNCHANGED <<rows, images, square, queue, approvals>>
  BY <1>1 DEF Sticker!DropSlug
<1>8. SquareTypes' /\ \A s \in Slugs \ {q.row.slug} : bySlug'[s] = bySlug[s]
  BY <1>3, <1>5, <1>7 DEF SquareTypes
<1>9. ASSUME ~overlapped'
      PROVE  (\A k \in StickerIds \ {i} : Right(k)') /\ Brought(c)'
  <2>1. Right(i) /\ rows[i] = q.row /\ Unclaimed(i, q.patch.slug)
    BY <1>1, <1>2, <1>3, <1>6, <1>9, AloneFinds DEF Brought
  <2>2. torn["slug"] = {} => bySlug[q.row.slug] = i
    BY <1>3, <2>1, StickerFacts DEF Right, SlugRight
  <2>3. ASSUME NEW k \in StickerIds \ {i} PROVE Right(k)'
    <3>1. Right(k) /\ (torn["slug"] = {} /\ rows[k] # Null => rows[k].slug \in Slugs \ {q.row.slug})
      BY <1>6, <1>9, <2>2, <2>3, AloneFinds, StickerRow DEF Right, SlugRight
    <3> QED
      BY <1>5, <1>7, <1>8, <3>1 DEF Right, SlugRight, ImageRight, ListsRight
  <2>4. Brought(c)'
    BY <1>4, <1>5, <1>7, <2>1 DEF Brought, Unclaimed, Right, ImageRight, ListsRight
  <2> QED
    BY <2>3, <2>4
<1>10. (rows[i] # Null => Granted(rows[i], approvals[i])) /\ (Carries(c) => Granted(c.row, approvals[i]))
  BY <1>1, <1>2, <1>3, <1>4, <1>6, StickerRow, ReqFacts
<1> QED
  BY <1>1, <1>3, <1>4, <1>6, <1>7, <1>8, <1>9, <1>10, StickerMoved

LEMMA TakeSlugKeeps ==
    ASSUME SquareInv, NEW r \in Requests, Sticker!TakeSlug(r)
    PROVE  SquareInv'
<1>1. PICK q : q = req[r]
  OBVIOUS
<1>2. PICK i \in StickerIds : i = q.id
  BY <1>1, ReqFacts DEF Sticker!TakeSlug, Sticker!At
<1>3. /\ q.at = "slug" /\ ReqSound(q) /\ q \in StickerReqs /\ SquareTypes /\ q.op = "edit"
      /\ q.row \in Sticker!Rows /\ q.patch \in Changes /\ q.patch.slug \in Slugs /\ q.patch.image = Null
      /\ Granted(q.row, approvals[i])
  <2>1. q.at = "slug"
    BY <1>1 DEF Sticker!TakeSlug, Sticker!At
  <2>2. Carries(q)
    BY <2>1 DEF Carries, Carrying
  <2> QED
    BY <1>1, <1>2, <2>1, <2>2, ReqFacts DEF ReqSound, Carrying
<1>a. PICK slugged : slugged = [q.row EXCEPT !.slug = q.patch.slug]
  OBVIOUS
<1>b. /\ slugged \in Sticker!Rows /\ slugged.slug = q.patch.slug /\ slugged.hash = q.row.hash
      /\ Promised(slugged) <=> Promised(q.row)
  BY <1>3, <1>a DEF Sticker!Rows, Promised
<1>c. PICK new : new = Sticker!Edited(slugged, q.patch)
  OBVIOUS
<1>d. /\ new \in Sticker!Rows /\ new.slug = q.patch.slug /\ new.hash = q.row.hash
      /\ Promised(new) => Promised(q.row)
  BY <1>3, <1>b, <1>c, EditedRow
<1>e. PICK c : c = [q EXCEPT !.at = "write", !.row = new]
  OBVIOUS
<1>4. /\ c \in StickerReqs /\ c.at = "write" /\ c.op = q.op /\ c.id = i /\ c.row = new /\ c.patch = q.patch
  <2>1. "write" \in Carrying
    BY DEF Carrying
  <2> QED
    BY <1>2, <1>3, <1>d, <1>e, <2>1 DEF StickerReqs
<1>5. req' = [req EXCEPT ![r] = c] /\ overlapped' = overlapped /\ torn' = torn
  BY <1>1, <1>a, <1>c, <1>e DEF Sticker!TakeSlug, Sticker!GotoWith
<1>6. Onward(r, i, c) /\ ReqSound(c)
  BY <1>1, <1>2, <1>3, <1>4, <1>5, <1>d DEF Onward, ReqSound
<1>7. /\ bySlug' = [bySlug EXCEPT ![q.patch.slug] = i]
      /\ UNCHANGED <<rows, images, square, queue, approvals>>
  BY <1>1, <1>2 DEF Sticker!TakeSlug
<1>8. SquareTypes' /\ bySlug'[q.patch.slug] = i /\ \A s \in Slugs \ {q.patch.slug} : bySlug'[s] = bySlug[s]
  BY <1>3, <1>5, <1>7 DEF SquareTypes
<1>9. ASSUME ~overlapped'
      PROVE  (\A k \in StickerIds \ {i} : Right(k)') /\ Brought(c)'
  <2>1. rows[i] = q.row /\ Unclaimed(i, q.patch.slug) /\ ImageRight(i) /\ ListsRight(i)
    BY <1>1, <1>2, <1>3, <1>6, <1>9, AloneFinds DEF Brought
  <2>2. ASSUME NEW k \in StickerIds \ {i} PROVE Right(k)'
    <3>1. Right(k) /\ (torn["slug"] = {} /\ rows[k] # Null => rows[k].slug \in Slugs \ {q.patch.slug})
      BY <1>6, <1>9, <2>1, <2>2, AloneFinds, StickerRow DEF Unclaimed
    <3> QED
      BY <1>5, <1>7, <1>8, <3>1 DEF Right, SlugRight, ImageRight, ListsRight
  <2>3. i \notin torn["image"] => images[i] = q.row.hash /\ (Promised(q.row) => images[i] \in approvals[i])
    BY <1>3, <2>1, StickerFacts DEF ImageRight
  <2>4. Brought(c)'
    BY <1>3, <1>4, <1>5, <1>7, <1>8, <1>d, <2>1, <2>3 DEF Brought, ImageRight, ListsRight
  <2> QED
    BY <2>2, <2>4
<1>10. (rows[i] # Null => Granted(rows[i], approvals[i])) /\ Granted(c.row, approvals[i])
  BY <1>3, <1>4, <1>d, StickerRow DEF Granted
<1> QED
  BY <1>1, <1>3, <1>4, <1>6, <1>7, <1>8, <1>9, <1>10, StickerMoved

LEMMA StickerWriteKeeps ==
    ASSUME SquareInv, NEW r \in Requests, Sticker!Write(r)
    PROVE  SquareInv'
<1>1. PICK q : q = req[r]
  OBVIOUS
<1>2. PICK i \in StickerIds : i = q.id
  BY <1>1, ReqFacts DEF Sticker!Write, Sticker!At
<1>3. /\ q.at = "write" /\ ReqSound(q) /\ q \in StickerReqs /\ SquareTypes /\ q.row \in Sticker!Rows
      /\ q.op # "approve" => Granted(q.row, approvals[i])
  <2>1. q.at = "write"
    BY <1>1 DEF Sticker!Write, Sticker!At
  <2>2. q.op # "approve" => Carries(q)
    BY <2>1 DEF Carries, Carrying
  <2> QED
    BY <1>1, <1>2, <2>1, <2>2, ReqFacts DEF ReqSound, Carrying
<1> DEFINE c == IF q.op = "shelve" THEN Sticker!Idle ELSE [q EXCEPT !.at = "sync"]
<1>4. /\ q.op = "shelve" => c = Sticker!Idle
      /\ q.op # "shelve" => /\ c \in StickerReqs /\ c.at = "sync" /\ c.op = q.op /\ c.id = i
                            /\ c.row = q.row /\ c.patch = q.patch
  <2>1. "sync" \in Carrying
    BY DEF Carrying
  <2>2. q.op # "shelve" => c = [q EXCEPT !.at = "sync"]
    OBVIOUS
  <2> QED
    BY <1>2, <1>3, <2>1, <2>2, ReqGoes
<1>5. req' = [req EXCEPT ![r] = c] /\ overlapped' = overlapped /\ torn' = torn
  BY <1>1 DEF Sticker!Write, Sticker!Goto
<1> HIDE DEF c
<1>6. Onward(r, i, c) /\ ReqSound(c) /\ c.at \in {"end", "sync"} /\ (c.at = "sync" => c.row = q.row)
  BY <1>1, <1>2, <1>3, <1>4, <1>5, IdleIs DEF Onward, ReqSound, Carrying
<1>7. /\ rows' = [rows EXCEPT ![i] = q.row]
      /\ approvals' = [approvals EXCEPT ![i] = IF q.op = "approve" THEN approvals[i] \cup {images[i]}
                                               ELSE approvals[i]]
      /\ UNCHANGED <<images, bySlug, square, queue>>
  BY <1>1, <1>2 DEF Sticker!Write
<1>8. /\ rows'[i] = q.row
      /\ approvals'[i] = IF q.op = "approve" THEN approvals[i] \cup {images[i]} ELSE approvals[i]
      /\ \A k \in StickerIds \ {i} : rows'[k] = rows[k] /\ approvals'[k] = approvals[k]
  BY <1>3, <1>7 DEF SquareTypes
<1>9. SquareTypes'
  BY <1>3, <1>5, <1>7 DEF SquareTypes
<1>10. ASSUME ~overlapped'
       PROVE  /\ \A k \in StickerIds \ {i} : Right(k)'
              /\ c.at = "end" => Right(i)'
              /\ c.at # "end" => Brought(c)'
  <2>1. /\ torn["slug"] = {} => bySlug[q.row.slug] = i
        /\ i \notin torn["image"] =>
             /\ images[i] = q.row.hash
             /\ Promised(q.row) => q.op = "approve" \/ images[i] \in approvals[i]
        /\ q.op = "shelve" => rows[i] = q.row
        /\ ListsRight(i)
    BY <1>1, <1>2, <1>3, <1>6, <1>10, AloneFinds DEF Brought
  <2>2. \A k \in StickerIds \ {i} : Right(k)'
    BY <1>5, <1>6, <1>7, <1>8, <1>10, AloneFinds DEF Right, SlugRight, ImageRight, ListsRight
  <2>3. SlugRight(i)' /\ ImageRight(i)'
    BY <1>5, <1>7, <1>8, <2>1 DEF SlugRight, ImageRight
  <2>4. CASE q.op = "shelve"
    <3>1. ListsRight(i)'
      BY <1>5, <1>7, <1>8, <2>1, <2>4 DEF ListsRight
    <3> QED
      BY <1>4, <2>2, <2>3, <2>4, <3>1, IdleIs DEF Right
  <2>5. CASE q.op # "shelve"
    <3>1. Brought(c)'
      BY <1>4, <1>8, <2>3, <2>5 DEF Brought
    <3> QED
      BY <1>4, <2>2, <2>5, <3>1
  <2> QED
    BY <2>4, <2>5
<1>11. Granted(q.row, approvals'[i]) /\ (approvals[i] # {} => approvals'[i] # {})
  BY <1>3, <1>8 DEF Granted
<1>12. Carries(c) => Granted(c.row, approvals'[i])
  BY <1>6, <1>11, IdleIs DEF Carries, Carrying
<1> QED
  BY <1>1, <1>3, <1>6, <1>8, <1>9, <1>10, <1>11, <1>12, StickerMoved

LEMMA SyncKeeps ==
    ASSUME SquareInv, NEW r \in Requests, Sticker!Sync(r)
    PROVE  SquareInv'
<1>1. PICK q : q = req[r]
  OBVIOUS
<1>2. PICK i \in StickerIds : i = q.id
  BY <1>1, ReqFacts DEF Sticker!Sync, Sticker!At
<1>3. /\ q.at = "sync" /\ ReqSound(q) /\ q \in StickerReqs /\ SquareTypes /\ q.patch \in Changes
  BY <1>1, ReqFacts DEF Sticker!Sync, Sticker!At
<1>a. PICK rest : rest = [q.patch EXCEPT !.image = Null]
  OBVIOUS
<1>b. rest \in Changes /\ rest.image = Null
  BY <1>3, <1>a DEF Changes
<1>c. PICK next : next = [q EXCEPT !.at = "load", !.row = Null, !.patch = rest]
  OBVIOUS
<1>d. /\ next \in StickerReqs /\ next.at = "load" /\ next.op = q.op /\ next.id = i /\ next.patch = rest
  BY <1>2, <1>3, <1>b, <1>c DEF StickerReqs
<1>e. PICK c : c = IF q.op = "edit" /\ q.patch.image # Null THEN next ELSE Sticker!Idle
  OBVIOUS
<1>4. req' = [req EXCEPT ![r] = c] /\ overlapped' = overlapped /\ torn' = torn
  <2>1. CASE q.op = "edit" /\ q.patch.image # Null
    <3>1. /\ req' = [req EXCEPT ![r].at = "load", ![r].row = Null, ![r].patch.image = Null]
          /\ overlapped' = overlapped /\ torn' = torn
      BY <1>1, <2>1 DEF Sticker!Sync
    <3>2. req' = [req EXCEPT ![r] = next]
      BY <1>1, <1>3, <1>a, <1>c, <3>1 DEF SquareInv, StickerReqs, Changes
    <3> QED
      BY <1>e, <2>1, <3>1, <3>2
  <2>2. CASE ~(q.op = "edit" /\ q.patch.image # Null)
    BY <1>1, <1>e, <2>2 DEF Sticker!Sync, Sticker!Goto
  <2> QED
    BY <2>1, <2>2
<1>5. Onward(r, i, c) /\ ReqSound(c) /\ ~Carries(c) /\ c.at \in {"end", "load"}
  <2>1. ReqSound(c) /\ ~Carries(c) /\ c.at \in {"end", "load"}
    BY <1>d, <1>e, IdleIs DEF ReqSound, Carries, Carrying
  <2> QED
    BY <1>1, <1>2, <1>3, <1>4, <1>d, <1>e, <2>1 DEF Onward
<1>6. /\ square' = IF Sticker!OnSquare(q.row) THEN square \cup {i} ELSE square \ {i}
      /\ queue' = IF Sticker!AwaitsReview(q.row) THEN queue \cup {i} ELSE queue \ {i}
      /\ UNCHANGED <<rows, images, bySlug, approvals>>
  BY <1>1, <1>2 DEF Sticker!Sync
<1>7. /\ i \in square' <=> Sticker!OnSquare(q.row)
      /\ i \in queue' <=> Sticker!AwaitsReview(q.row)
      /\ \A k \in StickerIds \ {i} : (k \in square' <=> k \in square) /\ (k \in queue' <=> k \in queue)
  BY <1>6
<1>8. SquareTypes'
  BY <1>3, <1>4, <1>6 DEF SquareTypes
<1>9. ASSUME ~overlapped'
      PROVE  /\ \A k \in StickerIds : Right(k)'
             /\ c.at # "end" => Brought(c)'
  <2>1. rows[i] = q.row /\ SlugRight(i) /\ ImageRight(i)
    BY <1>1, <1>2, <1>3, <1>5, <1>9, AloneFinds DEF Brought
  <2>2. \A k \in StickerIds \ {i} : Right(k)'
    BY <1>4, <1>5, <1>6, <1>7, <1>9, AloneFinds DEF Right, SlugRight, ImageRight, ListsRight
  <2>3. SlugRight(i)' /\ ImageRight(i)' /\ ListsRight(i)'
    BY <1>4, <1>6, <1>7, <2>1 DEF SlugRight, ImageRight, ListsRight
  <2>4. c.at # "end" => Brought(c)'
    BY <1>b, <1>d, <1>e, <2>3, IdleIs DEF Brought
  <2> QED
    BY <2>2, <2>3, <2>4 DEF Right
<1>10. rows[i] # Null => Granted(rows[i], approvals[i])
  BY StickerRow
<1> QED
  BY <1>1, <1>3, <1>5, <1>6, <1>8, <1>9, <1>10, StickerMoved

LEMMA EraseKeeps ==
    ASSUME SquareInv, NEW r \in Requests, Sticker!Erase(r)
    PROVE  SquareInv'
<1>1. PICK q : q = req[r]
  OBVIOUS
<1>2. PICK i \in StickerIds : i = q.id
  BY <1>1, ReqFacts DEF Sticker!Erase, Sticker!At
<1>3. /\ q.at = "erase" /\ ReqSound(q) /\ q \in StickerReqs /\ SquareTypes
      /\ q.row \in Sticker!Rows /\ q.row.slug \in Slugs
  BY <1>1, ReqFacts DEF Sticker!Erase, Sticker!At, ReqSound, Carrying, Sticker!Rows
<1>4. req' = [req EXCEPT ![r] = Sticker!Idle] /\ overlapped' = overlapped /\ torn' = torn
  BY DEF Sticker!Erase, Sticker!Goto
<1>5. Onward(r, i, Sticker!Idle) /\ ~Carries(Sticker!Idle)
  BY <1>1, <1>2, <1>3, <1>4, IdleIs DEF Onward, Carries, Carrying
<1>6. /\ rows' = [rows EXCEPT ![i] = Null] /\ images' = [images EXCEPT ![i] = Null]
      /\ bySlug' = [bySlug EXCEPT ![q.row.slug] = Null]
      /\ square' = square \ {i} /\ queue' = queue \ {i} /\ approvals' = approvals
  BY <1>1, <1>2 DEF Sticker!Erase
<1>7. /\ rows'[i] = Null
      /\ \A k \in StickerIds \ {i} : rows'[k] = rows[k] /\ images'[k] = images[k]
      /\ \A s \in Slugs \ {q.row.slug} : bySlug'[s] = bySlug[s]
  BY <1>3, <1>6 DEF SquareTypes
<1>8. SquareTypes'
  BY <1>3, <1>4, <1>6 DEF SquareTypes
<1>9. ASSUME ~overlapped' PROVE \A k \in StickerIds : Right(k)'
  <2>1. Right(i) /\ rows[i] = q.row
    BY <1>1, <1>2, <1>3, <1>5, <1>9, AloneFinds DEF Brought
  <2>2. torn["slug"] = {} => bySlug[q.row.slug] = i
    BY <1>3, <2>1, StickerFacts DEF Right, SlugRight
  <2>3. ASSUME NEW k \in StickerIds \ {i} PROVE Right(k)'
    <3>1. Right(k) /\ (torn["slug"] = {} /\ rows[k] # Null => rows[k].slug \in Slugs \ {q.row.slug})
      BY <1>5, <1>9, <2>2, <2>3, AloneFinds, StickerRow DEF Right, SlugRight
    <3> QED
      BY <1>4, <1>6, <1>7, <3>1 DEF Right, SlugRight, ImageRight, ListsRight
  <2>4. Right(i)'
    BY <1>7 DEF Right, SlugRight, ImageRight, ListsRight
  <2> QED
    BY <2>3, <2>4
<1> QED
  BY <1>1, <1>3, <1>5, <1>6, <1>7, <1>8, <1>9, IdleIs, StickerMoved

LEMMA ShelfKeeps ==
    ASSUME SquareInv, NEW r \in Requests, Sticker!PutOnShelf(r) \/ Sticker!LoadShelved(r)
    PROVE  SquareInv'
<1>1. PICK q : q = req[r]
  OBVIOUS
<1>2. PICK i \in StickerIds : i = q.id
  BY <1>1, ReqFacts DEF Sticker!PutOnShelf, Sticker!LoadShelved, Sticker!At
<1>3. /\ q.at \in {"shelf", "unshelf"} /\ q.op = "shelve" /\ ReqSound(q) /\ q \in StickerReqs
      /\ overlapped' = overlapped /\ torn' = torn
      /\ UNCHANGED <<rows, images, bySlug, square, queue, approvals>>
  BY <1>1, ReqFacts DEF Sticker!PutOnShelf, Sticker!LoadShelved, Sticker!At, Sticker!Stored, ReqSound,
     Sticker!Goto, Sticker!GotoWith
<1>4. CASE req' = [req EXCEPT ![r] = Sticker!Idle]
  <2>1. Brought(q) => Right(i)
    BY <1>2, <1>3 DEF Brought
  <2> QED
    BY <1>1, <1>2, <1>3, <1>4, <2>1, IdleIs, StickerWaits DEF Carries, Carrying
<1>5. CASE req' # [req EXCEPT ![r] = Sticker!Idle]
  <2>1. PICK c, row : /\ c = [q EXCEPT !.at = "write", !.row = row] /\ req' = [req EXCEPT ![r] = c]
                      /\ row \in Sticker!Rows /\ Granted(row, approvals[i])
                      /\ q.at = "shelf" => row = q.row
                      /\ q.at = "unshelf" => row = rows[i] /\ rows[i] # Null
    <3>1. CASE Sticker!PutOnShelf(r)
      <4>1. req' = [req EXCEPT ![r] = [q EXCEPT !.at = "write"]]
        BY <1>1, <1>5, <3>1 DEF Sticker!PutOnShelf, Sticker!Goto
      <4>2. q.at = "shelf" /\ q.row \in Sticker!Rows /\ Carries(q)
        BY <1>1, <1>3, <3>1 DEF Sticker!PutOnShelf, Sticker!At, ReqSound, Carries, Carrying
      <4>3. [q EXCEPT !.at = "write"] = [q EXCEPT !.at = "write", !.row = q.row]
        BY <1>3 DEF StickerReqs
      <4>4. Granted(q.row, approvals[i])
        BY <1>1, <1>2, <4>2, ReqFacts
      <4> QED
        BY <4>1, <4>2, <4>3, <4>4
    <3>2. CASE Sticker!LoadShelved(r)
      <4>1. Sticker!GotoWith(r, "write", rows[i]) /\ rows[i] # Null /\ q.at = "unshelf"
        BY <1>1, <1>2, <1>5, <3>2 DEF Sticker!LoadShelved, Sticker!Goto, Sticker!At
      <4>2. req' = [req EXCEPT ![r] = [q EXCEPT !.at = "write", !.row = rows[i]]]
        BY <1>1, <4>1 DEF Sticker!GotoWith
      <4> QED
        BY <4>1, <4>2, StickerRow
    <3> QED
      BY <3>1, <3>2
  <2>2. /\ c \in StickerReqs /\ c.at = "write" /\ c.op = q.op /\ c.id = i /\ c.row = row
        /\ c.patch = q.patch
    <3>1. "write" \in Carrying
      BY DEF Carrying
    <3> QED
      BY <1>2, <1>3, <2>1, <3>1 DEF StickerReqs
  <2>3. ReqSound(c)
    BY <1>3, <2>1, <2>2 DEF ReqSound
  <2>4. ASSUME Brought(q) PROVE Brought(c)
    <3>1. Right(i) /\ rows[i] = row
      BY <1>2, <1>3, <2>1, <2>4 DEF Brought
    <3>2. row # Null
      BY <2>1, StickerFacts
    <3> QED
      BY <1>3, <2>2, <3>1, <3>2 DEF Brought, Right, SlugRight, ImageRight, ListsRight
  <2>5. /\ req' = [req EXCEPT ![r] = c] /\ q.at # "end" /\ c # Sticker!Idle
        /\ c.at \notin {"end", "store", "unshelf"} /\ c.id = q.id
        /\ q.at # "unshelf" \/ rows[q.id] # Null
        /\ Granted(c.row, approvals[q.id])
    BY <1>2, <1>3, <2>1, <2>2, IdleIs
  <2> QED
    BY <1>1, <1>3, <2>3, <2>4, <2>5, StickerWaits
<1> QED
  BY <1>4, <1>5

\* A request breaks off: what it had half written is set apart.
LEMMA StickerBreakKeeps ==
    ASSUME SquareInv, NEW r \in Requests, Sticker!BreaksOff(r)
    PROVE  SquareInv'
<1>1. PICK q : q = req[r]
  OBVIOUS
<1>2. q.at # "end"
  BY <1>1 DEF Sticker!BreaksOff, SquareInv, ReqSound
<1>3. PICK i \in StickerIds : i = q.id
  BY <1>1, <1>2, ReqFacts
<1>4. /\ ReqSound(q) /\ Unborn(r) /\ SquareTypes
      /\ q.at \in {"image", "load", "unshelf"} \cup Carrying
  BY <1>1, <1>2, ReqFacts DEF StickerReqs
<1>5. /\ req' = [req EXCEPT ![r] = Sticker!Idle] /\ overlapped' = overlapped
      /\ UNCHANGED <<rows, images, bySlug, square, queue, approvals>>
      /\ torn' = [half \in DOMAIN torn |-> IF half = Sticker!Half(q) THEN torn[half] \cup {q.id} ELSE torn[half]]
  BY <1>1 DEF Sticker!BreaksOff, Sticker!Stored
<1>6. \A half \in {"image", "slug", "lists"} :
        torn'[half] = IF half = Sticker!Half(q) THEN torn[half] \cup {i} ELSE torn[half]
  BY <1>3, <1>4, <1>5 DEF SquareTypes
<1>7. torn' \in [{"image", "slug", "lists"} -> SUBSET StickerIds]
  BY <1>3, <1>4, <1>5 DEF SquareTypes
<1>8. SquareTypes'
  BY <1>4, <1>5, <1>7 DEF SquareTypes
<1>9. Onward(r, i, Sticker!Idle) /\ ~Carries(Sticker!Idle)
  BY <1>1, <1>2, <1>3, <1>5, IdleIs DEF Onward, Carries, Carrying
<1>10. /\ torn["slug"] \subseteq torn'["slug"] /\ torn["image"] \subseteq torn'["image"]
       /\ torn["lists"] \subseteq torn'["lists"]
  BY <1>6
<1>11. \A k \in StickerIds : /\ SlugRight(k) => SlugRight(k)'
                             /\ ImageRight(k) => ImageRight(k)'
                             /\ ListsRight(k) => ListsRight(k)'
  BY <1>5, <1>10 DEF SlugRight, ImageRight, ListsRight
<1>12. ASSUME ~overlapped' PROVE \A k \in StickerIds : Right(k)'
  <2>1. Brought(q) /\ \A k \in StickerIds \ {i} : Right(k)
    BY <1>1, <1>2, <1>4, <1>9, <1>12, AloneFinds DEF ReqSound
  <2>2. \A k \in StickerIds \ {i} : Right(k)'
    BY <1>11, <2>1 DEF Right
  <2>3. CASE q.at \in {"image", "unshelf", "unslug", "erase", "shelf"}
    BY <1>3, <1>11, <2>1, <2>2, <2>3 DEF Brought, Right
  <2>4. CASE q.at = "store"
    <3>1. rows'[i] = Null
      BY <1>1, <1>3, <1>4, <1>5, <2>4 DEF Unborn
    <3> QED
      BY <2>2, <3>1 DEF Right, SlugRight, ImageRight, ListsRight
  <2>5. CASE q.at = "load"
    <3>1. SlugRight(i)' /\ ListsRight(i)'
      BY <1>3, <1>11, <2>1, <2>5 DEF Brought
    <3>2. ImageRight(i)'
      <4>1. CASE q.patch.image = Null
        BY <1>3, <1>11, <2>1, <2>5, <4>1 DEF Brought
      <4>2. CASE q.patch.image # Null
        <5>1. i \in torn'["image"]
          BY <1>6, <2>5, <4>2 DEF Sticker!Half
        <5> QED
          BY <5>1 DEF ImageRight
      <4> QED
        BY <4>1, <4>2
    <3> QED
      BY <2>2, <3>1, <3>2 DEF Right
  <2>6. CASE q.at = "slug"
    <3>1. q.patch.image = Null /\ i \in torn'["slug"]
      BY <1>4, <1>6, <2>6 DEF ReqSound, Sticker!Half
    <3>2. ImageRight(i)' /\ ListsRight(i)'
      BY <1>3, <1>11, <2>1, <2>6 DEF Brought
    <3> QED
      BY <2>2, <3>1, <3>2 DEF Right, SlugRight
  <2>7. CASE q.at = "write"
    <3>1. ListsRight(i)'
      BY <1>3, <1>11, <2>1, <2>7 DEF Brought
    <3>2. SlugRight(i)'
      <4>1. CASE q.op # "edit" \/ q.patch.image # Null
        BY <1>3, <1>11, <2>1, <2>7, <4>1 DEF Brought
      <4>2. CASE q.op = "edit" /\ q.patch.image = Null
        <5>1. i \in torn'["slug"]
          BY <1>6, <2>7, <4>2 DEF Sticker!Half
        <5> QED
          BY <5>1 DEF SlugRight
      <4> QED
        BY <4>1, <4>2
    <3>3. ImageRight(i)'
      <4>1. CASE q.patch.image = Null
        BY <1>3, <1>11, <2>1, <2>7, <4>1 DEF Brought
      <4>2. CASE q.patch.image # Null
        <5>1. i \in torn'["image"]
          BY <1>6, <2>7, <4>2 DEF Sticker!Half
        <5> QED
          BY <5>1 DEF ImageRight
      <4> QED
        BY <4>1, <4>2
    <3> QED
      BY <2>2, <3>1, <3>2, <3>3 DEF Right
  <2>8. CASE q.at = "sync"
    <3>1. i \in torn'["lists"]
      BY <1>6, <2>8 DEF Sticker!Half
    <3>2. SlugRight(i)' /\ ImageRight(i)'
      BY <1>3, <1>11, <2>1, <2>8 DEF Brought
    <3> QED
      BY <2>2, <3>1, <3>2 DEF Right, ListsRight
  <2> QED
    BY <1>4, <2>3, <2>4, <2>5, <2>6, <2>7, <2>8 DEF Carrying
<1>13. rows[i] # Null => Granted(rows[i], approvals[i])
  BY StickerRow
<1>14. req[r].at = "store" \/ req[r].at \notin {"end", "store"}
  BY <1>1, <1>2
<1> QED
  BY <1>1, <1>2, <1>5, <1>8, <1>9, <1>12, <1>13, IdleIs, StickerMoved

LEMMA StickerKeeps ==
    ASSUME SquareInv, [Sticker!Next]_(Sticker!stickerVars)
    PROVE  SquareInv'
<1>1. CASE UNCHANGED Sticker!stickerVars
  BY <1>1 DEF Sticker!stickerVars, SquareInv, SquareTypes, Unborn, Brought, Unclaimed, Right, SlugRight,
     ImageRight, ListsRight
<1>2. ASSUME NEW r \in Requests, Sticker!Continue(r) PROVE SquareInv'
  BY <1>2, StickerStoreKeeps, PutImageKeeps, LoadKeeps, DropSlugKeeps, TakeSlugKeeps, StickerWriteKeeps, SyncKeeps,
     EraseKeeps, ShelfKeeps, StickerBreakKeeps DEF Sticker!Continue
<1>3. ASSUME NEW r \in Requests, NEW i \in StickerIds,
             NEW u \in Sticker!Creators, NEW s \in Slugs, NEW v \in {"public", "private"},
             NEW auto \in BOOLEAN, NEW image \in Images, Sticker!Submit(r, u, i, s, v, auto, image)
      PROVE  SquareInv'
  BY <1>3, SubmitBegins
<1>4. ASSUME NEW r \in Requests, NEW i \in StickerIds,
             NEW u \in Sticker!Creators, NEW p \in Patches, Sticker!Edit(r, u, i, p)
      PROVE  SquareInv'
  BY <1>4, ChangeBegins
<1>5. ASSUME NEW r \in Requests, NEW i \in StickerIds,
             \/ \E op \in {"approve", "reject", "takedown", "restore"} : Sticker!Review(r, op, i)
             \/ Sticker!TakeBack(r, i) \/ Sticker!Delete(r, i)
             \/ \E u \in Collectors : Sticker!Shelve(r, u, i) \/ Sticker!Unshelve(r, u, i)
      PROVE  SquareInv'
  BY <1>5, RequestBegins
<1> QED
  BY <1>1, <1>2, <1>3, <1>4, <1>5, Zenon DEF Sticker!Next

LEMMA SquareInvariant == RecordsSpec => [](InStickers => SquareInv)
<1>1. RecordsInit => (InStickers => SquareInv)
  BY StickerInitHolds DEF RecordsInit, InStickers
<1>2. (InStickers => SquareInv) /\ [RecordsNext]_recordsVars => (InStickers => SquareInv)'
  BY PartSteps, StickerKeeps DEF InStickers
<1> QED
  BY <1>1, <1>2, PTL DEF RecordsSpec

\* Whatever edits, reviews and removals race, what other users see of a sticker was
\* approved, wherever they break off; where no two overlapped it is the very image that
\* was, and slugs, images and lists agree with the rows, but for what one that broke off
\* had half written.
THEOREM SquareIsReviewed == RecordsSpec => []SquareReviewed
<1>1. (InStickers => SquareInv) => SquareReviewed
  <2> SUFFICES ASSUME SquareInv PROVE Sticker!SquareReviewed
    BY DEF SquareReviewed, InStickers
  <2> SUFFICES ASSUME NEW i \in StickerIds, rows[i] # Null
               PROVE  /\ \A u \in Collectors \ {rows[i].owner} :
                         rows[i].owner # System
                         /\ (Sticker!UsableBy(rows[i], u) \/ Sticker!ShownTo(rows[i], u)) =>
                           /\ approvals[i] # {}
                           /\ Sticker!Quiet /\ i \notin torn["image"] => images[i] \in approvals[i]
                      /\ Sticker!Quiet =>
                           /\ torn["slug"] = {} => bySlug[rows[i].slug] = i
                           /\ i \notin torn["image"] => images[i] = rows[i].hash
                           /\ i \notin torn["lists"] => /\ i \in square <=> Sticker!OnSquare(rows[i])
                                                       /\ i \in queue <=> Sticker!AwaitsReview(rows[i])
    BY Zenon DEF Sticker!SquareReviewed
  <2>1. ASSUME Sticker!Quiet PROVE Right(i)
    BY <2>1, IdleIs, StickerFacts DEF Sticker!Quiet, SquareInv
  <2>2. ASSUME NEW u \in Collectors \ {rows[i].owner}, rows[i].owner # System,
               Sticker!UsableBy(rows[i], u) \/ Sticker!ShownTo(rows[i], u)
        PROVE  Promised(rows[i])
    BY <2>2 DEF Sticker!UsableBy, Sticker!ShownTo, Sticker!OnSquare, Promised
  <2>3. Granted(rows[i], approvals[i])
    BY StickerRow
  <2> QED
    BY <2>1, <2>2, <2>3 DEF Granted, Right, SlugRight, ImageRight, ListsRight
<1> QED
  BY <1>1, SquareInvariant, PTL

-----------------------------------------------------------------------------
(* Web accounts                                                            *)

LEMMA AccountsInvariant == RecordsSpec => [](InAccounts => AccountInv)
<1>1. RecordsInit => (InAccounts => AccountInv)
  BY AccountBegins DEF RecordsInit, InAccounts
<1>2. (InAccounts => AccountInv) /\ [RecordsNext]_recordsVars => (InAccounts => AccountInv)'
  BY PartSteps, AccountKeeps DEF InAccounts
<1> QED
  BY <1>1, <1>2, PTL DEF RecordsSpec

\* Whatever requests race or break off: each local account was let in by a code, once, or
\* where none was asked for, and its name leads to it unless another's request took it; a
\* refused registration leaves nothing behind, and who is banned or deleted has no session.
\* Set apart are the accounts that two requests were at, about which one decided on a row of
\* its cache that was outdated, and those that a request left unfinished.
THEOREM AccountsHoldThroughout == RecordsSpec => []AccountsHold
<1>1. (InAccounts => AccountInv) => AccountsHold
  BY AccountsWell DEF AccountsHold, InAccounts
<1> QED
  BY <1>1, AccountsInvariant, PTL

-----------------------------------------------------------------------------
(* Types                                                                   *)

\* What the other invariants do not say of the types of the square and of TryChat.
ShelfTypes == shelf \in [Collectors -> SUBSET StickerIds] /\ commands \in 0..MaxCommands
ListTypes ==
    /\ tryMsgs \in [Tries -> 0..MaxHistory] /\ usable \in BOOLEAN
    /\ opening \in [Tries -> {"none", "create", "done"}]
    /\ ending \subseteq Tries /\ tryMixed \subseteq Tries /\ closed \subseteq Tries

\* A library is added to and taken from one sticker at a time, and a request is
\* counted as it starts.
LEMMA ShelfTypesKept ==
    ASSUME ShelfTypes, SquareInv, [Sticker!Next]_(Sticker!stickerVars)
    PROVE  ShelfTypes'
<1> USE DEF ShelfTypes
<1>0. MaxCommands \in Nat
  BY Assumed DEF Sticker!StickerAssumption
<1>1. CASE UNCHANGED Sticker!stickerVars
  BY <1>1 DEF Sticker!stickerVars
<1>2. ASSUME NEW r \in Requests, Sticker!Continue(r) PROVE ShelfTypes'
  <2>1. req[r].at # "end" => req[r].id \in StickerIds
    BY DEF SquareInv, ReqSound
  <2>2. commands' = commands
    BY <1>2, Zenon DEF Sticker!Continue, Sticker!Store, Sticker!PutImage, Sticker!Load, Sticker!DropSlug,
       Sticker!TakeSlug, Sticker!Write, Sticker!Sync, Sticker!Erase, Sticker!PutOnShelf,
       Sticker!LoadShelved, Sticker!BreaksOff, Sticker!Goto, Sticker!GotoWith
  <2>3. CASE Sticker!Store(r)
    BY <2>1, <2>2, <2>3 DEF Sticker!Store, Sticker!At
  <2>4. CASE Sticker!PutOnShelf(r)
    BY <2>1, <2>2, <2>4 DEF Sticker!PutOnShelf, Sticker!At
  <2>5. CASE shelf' = shelf
    BY <2>2, <2>5
  <2> QED
    BY <1>2, <2>3, <2>4, <2>5, Zenon DEF Sticker!Continue, Sticker!PutImage, Sticker!Load, Sticker!DropSlug,
       Sticker!TakeSlug, Sticker!Write, Sticker!Sync, Sticker!Erase, Sticker!LoadShelved, Sticker!BreaksOff,
       Sticker!Stored
<1>3. ASSUME NEW op, NEW at, NEW u, NEW row, NEW p, NEW r, NEW i,
             Sticker!Start(r, op, at, i, u, row, p)
      PROVE  commands' \in 0..MaxCommands
  BY <1>0, <1>3 DEF Sticker!Start
<1>4. ASSUME NEW r \in Requests, NEW i \in StickerIds,
             NEW u \in Sticker!Creators, NEW s \in Slugs, NEW v \in {"public", "private"},
             NEW auto \in BOOLEAN, NEW image \in Images, Sticker!Submit(r, u, i, s, v, auto, image)
      PROVE  ShelfTypes'
  BY <1>3, <1>4, Zenon DEF Sticker!Submit, Sticker!Stored
<1>5. ASSUME NEW r \in Requests, NEW i \in StickerIds,
             NEW u \in Sticker!Creators, NEW p \in Patches, Sticker!Edit(r, u, i, p)
      PROVE  ShelfTypes'
  BY <1>3, <1>5, Zenon DEF Sticker!Edit, Sticker!Stored
<1>6. ASSUME NEW r \in Requests, NEW i \in StickerIds,
             \/ \E op \in {"approve", "reject", "takedown", "restore"} : Sticker!Review(r, op, i)
             \/ Sticker!TakeBack(r, i) \/ Sticker!Delete(r, i)
             \/ \E u \in Collectors : Sticker!Shelve(r, u, i)
      PROVE  ShelfTypes'
  BY <1>3, <1>6, Zenon DEF Sticker!Review, Sticker!TakeBack, Sticker!Delete, Sticker!Shelve, Sticker!Stored
<1>7. ASSUME NEW r \in Requests, NEW i \in StickerIds, NEW u \in Collectors, Sticker!Unshelve(r, u, i)
      PROVE  ShelfTypes'
  <2>1. commands' \in 0..MaxCommands
    BY <1>3, <1>7, Zenon DEF Sticker!Unshelve
  <2>2. shelf' = [shelf EXCEPT ![u] = @ \ {i}]
    BY <1>7 DEF Sticker!Unshelve
  <2> QED
    BY <2>1, <2>2
<1> QED
  BY <1>1, <1>2, <1>4, <1>5, <1>6, <1>7, Zenon DEF Sticker!Next

\* The list of a session is cut to the length that is kept.
LEMMA ListTypesKept ==
    ASSUME ListTypes, TryInv, [Try!TryNext]_(Try!tryVars)
    PROVE  ListTypes'
<1> USE DEF ListTypes
<1>0. MaxHistory \in Nat \ {0}
  BY Assumed DEF Try!TryChatAssumption
<1>1. ASSUME NEW s \in Tries,
             \/ Try!OpenAsked(s) \/ Try!OpenMade(s)
             \/ (\E u \in Triers : Try!EndRow(u, s)) \/ Try!EndMsgs(s) \/ Try!TryExpires(s)
      PROVE  ListTypes'
  BY <1>0, <1>1 DEF Try!OpenAsked, Try!OpenMade, Try!EndRow, Try!EndMsgs, Try!TryExpires
<1>2. ASSUME NEW u \in Triers, NEW m \in Sends, NEW s \in Tries, Try!SendRead(u, m, s) PROVE ListTypes'
  BY <1>2 DEF Try!SendRead
<1>3. ASSUME NEW m \in Sends, Try!SendCheck(m) \/ Try!SendReserve(m) \/ Try!SendModel(m) \/ Try!SendSave(m)
      PROVE  ListTypes'
  BY <1>3 DEF Try!SendCheck, Try!SendReserve, Try!SendModel, Try!SendSave
<1>4. ASSUME NEW m \in Sends, Try!SendAppend(m) PROVE ListTypes'
  <2>1. sent[m].try \in Tries
    BY <1>4 DEF Try!SendAppend, TryInv, TryTypes, SendSound
  <2>2. tryMsgs' = [tryMsgs EXCEPT ![sent[m].try] = Try!Kept(@ + 1)]
    BY <1>4 DEF Try!SendAppend
  <2>3. Try!Kept(tryMsgs[sent[m].try] + 1) \in 0..MaxHistory
    BY <1>0, <2>1 DEF Try!Kept
  <2> QED
    BY <1>4, <2>1, <2>2, <2>3 DEF Try!SendAppend
<1>5. ASSUME Try!Midnight \/ Try!TakenDown \/ UNCHANGED Try!tryVars PROVE ListTypes'
  BY <1>5 DEF Try!Midnight, Try!TakenDown, Try!tryVars
<1> QED
  BY <1>1, <1>2, <1>3, <1>4, <1>5, Zenon DEF Try!TryNext

LEMMA RestTyped == RecordsSpec => []((InStickers => ShelfTypes) /\ (InTry => ListTypes))
<1>1. RecordsInit => (InStickers => ShelfTypes)
  <2>1. 0 \in 0..MaxCommands
    BY Assumed DEF Sticker!StickerAssumption
  <2> QED
    BY <2>1 DEF RecordsInit, InStickers, Sticker!Init, ShelfTypes
<1>2. RecordsInit => (InTry => ListTypes)
  <2>1. 0 \in 0..MaxHistory
    BY Assumed DEF Try!TryChatAssumption
  <2> QED
    BY <2>1 DEF RecordsInit, InTry, Try!TryInit, ListTypes
<1>3. /\ InStickers => ShelfTypes
      /\ InStickers => SquareInv
      /\ [RecordsNext]_recordsVars
      => (InStickers => ShelfTypes)'
  BY PartSteps, ShelfTypesKept DEF InStickers
<1>4. /\ InTry => ListTypes
      /\ InTry => TryInv
      /\ [RecordsNext]_recordsVars
      => (InTry => ListTypes)'
  BY PartSteps, ListTypesKept DEF InTry
<1> QED
  BY <1>1, <1>2, <1>3, <1>4, SquareInvariant, TryInvariant, PTL DEF RecordsSpec

\* Whatever requests race over them, the records of the five components keep their types: a
\* list never outgrows its cap, a pointer names an id or nothing.
THEOREM RecordsTyped == RecordsSpec => []TypeOK
<1>1. (InStickers => SquareInv) /\ (InStickers => ShelfTypes) => (InStickers => Sticker!StickerTypeOK)
  BY DEF SquareInv, SquareTypes, ShelfTypes, Sticker!StickerTypeOK
<1>2. (InPersonas => PersonaInv) => (InPersonas => Persona!PersonaTypeOK)
  BY DEF PersonaInv, Table, Holds, Persona!PersonaTypeOK
<1>3. (InAccounts => AccountInv) => (InAccounts => AccountTypeOK)
  BY AccountTypesWell
<1>4. (InTry => TryInv) /\ (InTry => ListTypes) => (InTry => Try!TryTypeOK)
  <2> SUFFICES ASSUME TryInv, ListTypes PROVE Try!TryTypeOK
    OBVIOUS
  <2>1. MaxPerSession \in Nat
    BY Assumed DEF Try!TryChatAssumption
  <2>2. \A s \in Tries : tryRow[s] \in 0..MaxPerSession \cup {Try!Gone}
    BY <2>1 DEF TryInv, TryTypes, Try!Gone
  <2>3. \A m \in Sends : sent[m].at \in {"none", "check", "reserve", "model", "append", "save"}
    BY DEF TryInv, TryTypes, SendSound, SendRecs, Held
  <2> QED
    BY <2>2, <2>3 DEF TryInv, TryTypes, ListTypes, Try!TryTypeOK
<1>5. (InBind => BindInv) => (InBind => Bind!BindTypeOK)
  BY DEF BindInv, CmdSound, BindCmds, BindStages, Binds, Pointing, Made, Bind!BindTypeOK
<1>6. /\ InStickers => Sticker!StickerTypeOK
      /\ InPersonas => Persona!PersonaTypeOK
      /\ InAccounts => AccountTypeOK
      /\ InTry => Try!TryTypeOK
      /\ InBind => Bind!BindTypeOK
      => TypeOK
  BY DEF TypeOK, InStickers, InPersonas, InAccounts, InTry, InBind
<1> QED
  BY <1>1, <1>2, <1>3, <1>4, <1>5, <1>6, RestTyped, SquareInvariant, PersonaInvariant, AccountsInvariant,
     TryInvariant, BindInvariant, PTL
=============================================================================
