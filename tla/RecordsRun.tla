----------------------------- MODULE RecordsRun -----------------------------
(* The components of the web API whose requests race over records in Redis: *)
(* Stickers, Personas, Accounts, TryChat and P2PBind.  They share no key,   *)
(* so a behaviour runs one of them, chosen at the start in `part`; the      *)
(* variables of the others are Off.                                         *)
EXTENDS Accounts, TLC

CONSTANTS
    Collectors, System, StickerIds, Images, Slugs, Requests, Patches, MaxCommands, Null,
    Owners, Official, PersonaIds, Graphs, Peers, Calls, MaxCalls, Nil,
    Triers, Tries, TryOwner, Sends, MaxPerDay, MaxPerSession, MaxHistory, Days,
    Accounts, Phones, MaxCodes, BindCommands, MaxGiven, Nobody

VARIABLES
    part,
    rows, images, bySlug, square, queue, shelf, req, commands, overlapped, approvals, torn,
    persona, versions, publicSet, library, defaultPtr, assignment, call, calls, raced, cut,
    tryRow, tryMsgs, tryDay, today, usable, opening, ending, sent, dayAnswers, tryAnswers, tryMixed, closed,
    bindUser, bindPeer, code, codesMade, bindCmd, given, proved, spent, bindOver

Sticker == INSTANCE Stickers WITH Users <- Collectors
Persona == INSTANCE Personas
Try == INSTANCE TryChat WITH Users <- Triers
Bind == INSTANCE P2PBind WITH Commands <- BindCommands

ASSUME RecordsAssumption ==
    /\ Sticker!StickerAssumption /\ Persona!PersonaAssumption /\ AccountAssumption
    /\ Try!TryChatAssumption /\ Bind!BindAssumption

stickerVars ==
    <<rows, images, bySlug, square, queue, shelf, req, commands, overlapped,
      approvals, torn>>
personaVars ==
    <<persona, versions, publicSet, library, defaultPtr, assignment, call,
      calls, raced, cut>>
tryVars ==
    <<tryRow, tryMsgs, tryDay, today, usable, opening, ending, sent, dayAnswers, tryAnswers,
      tryMixed, closed>>
bindVars ==
    <<bindUser, bindPeer, code, codesMade, bindCmd, given, proved, spent, bindOver>>
recordsVars == <<part, stickerVars, personaVars, accountVars, tryVars, bindVars>>
-----------------------------------------------------------------------------
Off == "off"
StickersOff ==
    /\ rows = Off /\ images = Off /\ bySlug = Off /\ square = Off /\ queue = Off /\ shelf = Off
    /\ req = Off /\ commands = Off /\ overlapped = Off /\ approvals = Off /\ torn = Off
PersonasOff ==
    /\ persona = Off /\ versions = Off /\ publicSet = Off /\ library = Off /\ defaultPtr = Off
    /\ assignment = Off /\ call = Off /\ calls = Off /\ raced = Off /\ cut = Off
AccountsOff ==
    /\ account = Off /\ listedUsers = Off /\ nameIndex = Off /\ session = Off /\ sessionIdx = Off
    /\ invite = Off /\ openInvites = Off /\ job = Off /\ starts = Off /\ admitted = Off
    /\ copies = Off /\ overlap = Off /\ robbed = Off /\ broken = Off
TryOff ==
    /\ tryRow = Off /\ tryMsgs = Off /\ tryDay = Off /\ today = Off /\ usable = Off
    /\ opening = Off /\ ending = Off /\ sent = Off /\ dayAnswers = Off /\ tryAnswers = Off /\ tryMixed = Off
    /\ closed = Off
BindOff ==
    /\ bindUser = Off /\ bindPeer = Off /\ code = Off /\ codesMade = Off /\ bindCmd = Off /\ given = Off
    /\ proved = Off /\ spent = Off /\ bindOver = Off

RecordsInit ==
    \/ part = "stickers" /\ Sticker!Init /\ PersonasOff /\ AccountsOff /\ TryOff /\ BindOff
    \/ part = "personas" /\ Persona!Init /\ StickersOff /\ AccountsOff /\ TryOff /\ BindOff
    \/ part = "accounts" /\ AccountInit /\ StickersOff /\ PersonasOff /\ TryOff /\ BindOff
    \/ part = "try" /\ Try!TryInit /\ StickersOff /\ PersonasOff /\ AccountsOff /\ BindOff
    \/ part = "bind" /\ Bind!BindInit /\ StickersOff /\ PersonasOff /\ AccountsOff /\ TryOff

\* Only the component that runs takes steps.
InStickers == part = "stickers"
InPersonas == part = "personas"
InAccounts == part = "accounts"
InTry == part = "try"
InBind == part = "bind"
RestStickers == UNCHANGED <<part, personaVars, accountVars, tryVars, bindVars>>
RestPersonas == UNCHANGED <<part, stickerVars, accountVars, tryVars, bindVars>>
RestAccounts == UNCHANGED <<part, stickerVars, personaVars, tryVars, bindVars>>
RestTry == UNCHANGED <<part, stickerVars, personaVars, accountVars, bindVars>>
RestBind == UNCHANGED <<part, stickerVars, personaVars, accountVars, tryVars>>

StickersRun ==
    \E r \in Requests :
      \/ InStickers /\ Sticker!Store(r) /\ RestStickers
      \/ InStickers /\ Sticker!PutImage(r) /\ RestStickers
      \/ InStickers /\ Sticker!Load(r) /\ RestStickers
      \/ InStickers /\ Sticker!DropSlug(r) /\ RestStickers
      \/ InStickers /\ Sticker!TakeSlug(r) /\ RestStickers
      \/ InStickers /\ Sticker!Write(r) /\ RestStickers
      \/ InStickers /\ Sticker!Sync(r) /\ RestStickers
      \/ InStickers /\ Sticker!Erase(r) /\ RestStickers
      \/ InStickers /\ Sticker!PutOnShelf(r) /\ RestStickers
      \/ InStickers /\ Sticker!LoadShelved(r) /\ RestStickers
      \/ InStickers /\ Sticker!BreaksOff(r) /\ RestStickers
      \/ \E i \in StickerIds :
           \/ \E u \in Sticker!Creators, s \in Slugs, v \in {"public", "private"},
                 auto \in BOOLEAN, image \in Images :
                InStickers /\ Sticker!Submit(r, u, i, s, v, auto, image) /\ RestStickers
           \/ \E u \in Sticker!Creators, p \in Patches :
                InStickers /\ Sticker!Edit(r, u, i, p) /\ RestStickers
           \/ \E op \in {"approve", "reject", "takedown", "restore"} :
                InStickers /\ Sticker!Review(r, op, i) /\ RestStickers
           \/ InStickers /\ Sticker!TakeBack(r, i) /\ RestStickers
           \/ InStickers /\ Sticker!Delete(r, i) /\ RestStickers
           \/ \E u \in Collectors : \/ InStickers /\ Sticker!Shelve(r, u, i) /\ RestStickers
                                    \/ InStickers /\ Sticker!Unshelve(r, u, i) /\ RestStickers

PersonasRun ==
    \/ \E i \in PersonaIds : InPersonas /\ Persona!Fallback(i) /\ RestPersonas
    \/ \E c \in Calls :
      \/ InPersonas /\ Persona!Store(c) /\ RestPersonas
      \/ InPersonas /\ Persona!Pointed(c) /\ RestPersonas
      \/ InPersonas /\ Persona!Unpoint(c) /\ RestPersonas
      \/ InPersonas /\ Persona!WriteDefault(c) /\ RestPersonas
      \/ InPersonas /\ Persona!Index(c) /\ RestPersonas
      \/ InPersonas /\ Persona!Write(c) /\ RestPersonas
      \/ InPersonas /\ Persona!Publish(c) /\ RestPersonas
      \/ InPersonas /\ Persona!WriteVersion(c) /\ RestPersonas
      \/ InPersonas /\ Persona!PointToVersion(c) /\ RestPersonas
      \/ InPersonas /\ Persona!WriteFork(c) /\ RestPersonas
      \/ InPersonas /\ Persona!Reply(c) /\ RestPersonas
      \/ InPersonas /\ Persona!WriteSwitch(c) /\ RestPersonas
      \/ InPersonas /\ Persona!BreaksOff(c) /\ RestPersonas
      \/ \E i \in PersonaIds :
           \/ \E u \in Owners \cup {Official} :
                \/ \E v \in {"public", "private"}, d \in BOOLEAN :
                     InPersonas /\ Persona!Create(c, u, i, v, d) /\ RestPersonas
                \/ \E v \in {"public", "private", "same"}, p \in BOOLEAN,
                      g \in Graphs \cup {Nil} :
                     InPersonas /\ Persona!Edit(c, u, i, v, p, g) /\ RestPersonas
           \/ InPersonas /\ Persona!SetDefault(c, i) /\ RestPersonas
           \/ InPersonas /\ Persona!PublishByAdmin(c, i) /\ RestPersonas
           \/ \E on \in BOOLEAN : InPersonas /\ Persona!Switch(c, i, on) /\ RestPersonas
           \/ \E u \in Owners :
                \/ \E s \in PersonaIds, admin \in BOOLEAN :
                     InPersonas /\ Persona!Fork(c, u, admin, i, s) /\ RestPersonas
                \/ InPersonas /\ Persona!AddToLibrary(c, u, i) /\ RestPersonas
                \/ InPersonas /\ Persona!RemoveFromLibrary(c, u, i) /\ RestPersonas
                \/ \E p \in Peers : InPersonas /\ Persona!Assign(c, u, p, i) /\ RestPersonas

AccountsRun ==
    \/ \E j \in Jobs :
         \/ InAccounts /\ Claim(j) /\ RestAccounts
         \/ InAccounts /\ WriteLocal(j) /\ RestAccounts
         \/ InAccounts /\ Take(j) /\ RestAccounts
         \/ InAccounts /\ Burn(j) /\ RestAccounts
         \/ InAccounts /\ OpenSession(j) /\ RestAccounts
         \/ InAccounts /\ IndexSession(j) /\ RestAccounts
         \/ InAccounts /\ Resolve(j) /\ RestAccounts
         \/ InAccounts /\ LookAgain(j) /\ RestAccounts
         \/ InAccounts /\ Upsert(j) /\ RestAccounts
         \/ InAccounts /\ WriteJudged(j) /\ RestAccounts
         \/ InAccounts /\ Clean(j) /\ RestAccounts
         \/ InAccounts /\ Drop(j) /\ RestAccounts
         \/ InAccounts /\ Erase(j) /\ RestAccounts
         \/ InAccounts /\ ListCode(j) /\ RestAccounts
         \/ InAccounts /\ Breaks(j) /\ RestAccounts
         \/ \E c \in Codes : InAccounts /\ NewCode(j, c) /\ RestAccounts
         \/ \E i \in Locals, n \in Names, c \in Codes :
              InAccounts /\ Register(j, i, n, c) /\ RestAccounts
         \/ \E n \in Names : InAccounts /\ Login(j, n) /\ RestAccounts
         \/ \E i \in Known, n \in Names : InAccounts /\ OAuth(j, i, n) /\ RestAccounts
         \/ \E i \in Ids :
              \/ \E op \in {"ban", "unban", "admin"} :
                   InAccounts /\ Judge(j, i, op) /\ RestAccounts
              \/ InAccounts /\ Delete(j, i) /\ RestAccounts
              \/ InAccounts /\ Invite(j, i) /\ RestAccounts
    \/ \E i \in Ids :
         \/ InAccounts /\ EndSession(i) /\ RestAccounts
         \/ InAccounts /\ ListInvites(i) /\ RestAccounts
         \/ \E c \in Codes : InAccounts /\ Revoke(i, c) /\ RestAccounts
    \/ \E c \in Codes : InAccounts /\ Expire(c) /\ RestAccounts

TryRun ==
    \/ \E s \in Tries :
         \/ InTry /\ Try!OpenAsked(s) /\ RestTry
         \/ InTry /\ Try!OpenMade(s) /\ RestTry
         \/ InTry /\ Try!EndMsgs(s) /\ RestTry
         \/ InTry /\ Try!TryExpires(s) /\ RestTry
         \/ \E u \in Triers : \/ InTry /\ Try!EndRow(u, s) /\ RestTry
                             \/ \E m \in Sends : InTry /\ Try!SendRead(u, m, s) /\ RestTry
    \/ \E m \in Sends :
         \/ InTry /\ Try!SendCheck(m) /\ RestTry
         \/ InTry /\ Try!SendReserve(m) /\ RestTry
         \/ InTry /\ Try!SendModel(m) /\ RestTry
         \/ InTry /\ Try!SendAppend(m) /\ RestTry
         \/ InTry /\ Try!SendSave(m) /\ RestTry
    \/ InTry /\ Try!Midnight /\ RestTry
    \/ InTry /\ Try!TakenDown /\ RestTry

BindRun ==
    \/ \E c \in Bind!BindCodes :
         \/ InBind /\ Bind!CodeExpires(c) /\ RestBind
         \/ \E u \in Accounts : InBind /\ Bind!CreateBindCode(u, c) /\ RestBind
         \/ \E k \in BindCommands, p \in Phones : InBind /\ Bind!TakeCode(k, p, c) /\ RestBind
    \/ \E k \in BindCommands :
         \/ InBind /\ Bind!DropCode(k) /\ RestBind
         \/ InBind /\ Bind!Look(k) /\ RestBind
         \/ \E u \in Accounts : InBind /\ Bind!Unbind(k, u) /\ RestBind
         \/ \E p \in Phones : InBind /\ Bind!UnbindPeer(k, p) /\ RestBind
         \/ InBind /\ Bind!ClearUser(k) /\ RestBind
         \/ InBind /\ Bind!PointerAsked(k) /\ RestBind
         \/ InBind /\ Bind!DropPointer(k) /\ RestBind
         \/ InBind /\ Bind!WriteUser(k) /\ RestBind
         \/ InBind /\ Bind!WritePeer(k) /\ RestBind

RecordsNext == StickersRun \/ PersonasRun \/ AccountsRun \/ TryRun \/ BindRun

RecordsSpec == RecordsInit /\ [][RecordsNext]_recordsVars
-----------------------------------------------------------------------------
(* The properties of the components, each where it runs.                    *)

\* The records of the running component have their types.
TypeOK ==
    /\ part = "stickers" => Sticker!StickerTypeOK
    /\ part = "personas" => Persona!PersonaTypeOK
    /\ part = "accounts" => AccountTypeOK
    /\ part = "try" => Try!TryTypeOK
    /\ part = "bind" => Bind!BindTypeOK

\* What the sticker square shows was approved (Stickers).
SquareReviewed == part = "stickers" => Sticker!SquareReviewed

\* A persona publishes a version of its own (Personas).
PublishedIsOwn == part = "personas" => Persona!PublishedIsOwn

\* Accounts are let in by codes, one each, or where none is asked for, under names
\* that differ, and only they have sessions, but for those that requests were at
\* together, on an outdated row or not to the end (Accounts).
AccountsHold == part = "accounts" => AccountsKept

\* The caps of a day and of a session hold (TryChat).
TryCaps == part = "try" => Try!TryCaps

\* A peer is bound to the user whose code it sent, both ways alike (P2PBind).
BindsAgree == part = "bind" => Bind!BindsAgree

-----------------------------------------------------------------------------
(* Instances for TLC                                                        *)
CONSTANTS a1, a2, b1, b2, c1, c2

Change(image, slug, visibility, enabled) ==
    [image |-> image, slug |-> slug, visibility |-> visibility,
     enabled |-> enabled, review |-> FALSE]
MCPatches ==
    {Change("second", Null, "same", "same"), Change(Null, Null, "public", "same"),
     Change(Null, Null, "private", "same"), Change("second", "other", "private", "on")}

MCTryOwner == [s \in Tries |-> CHOOSE u \in Triers : TRUE]

\* Model values that play a part in several components: a for what is under
\* way, b for people and names, c for ids and phones.
Sym == Permutations({a1, a2}) \cup Permutations({b1, b2}) \cup Permutations({c1, c2})
=============================================================================
