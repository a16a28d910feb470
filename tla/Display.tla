------------------------------- MODULE Display --------------------------------
(***************************************************************************)
(* The frame transactions of internal/display: what Send writes to a pump, *)
(* a fan or a Cyclops, which replies it waits for, and which it takes for  *)
(* an answer although earlier frames, or another program, may have left    *)
(* replies in the queue.                                                   *)
(*                                                                         *)
(* The firmware is external: it takes commands in order and answers them   *)
(* as docs/protocol.md observed. Commands and replies are tagged with the  *)
(* frame they come from, "mine" for the frame being sent or just sent and  *)
(* "old" for every other. Only a pump's reply carries that tag on the wire *)
(* (its timestamp); a fan's reply is its opcode alone. A write arrives as  *)
(* a whole or not at all, and of the two commands a Cyclops gets before    *)
(* its frame (mounting, brightness) only the last is modelled.             *)
(***************************************************************************)
EXTENDS Naturals, Sequences

CONSTANTS Kinds,        \* the kinds of display to consider
          Chunks,       \* pixel writes per frame (90 fan, 113 Cyclops)
          ReadLimit,    \* replies read in one wait (8)
          DrainLimit,   \* reads of the fan's drain (16)
          EmptyLimit,   \* zero-length reads in a row (4)
          Buffer,       \* commands the endpoint holds before a write has to wait
          Leftovers,    \* bound: replies queued before the first frame
          MaxGlitches   \* bound: failures with no lasting cause

ASSUME DisplayAssumption == /\ Kinds \subseteq {"fan", "pump", "cyclops"}
                            /\ {Chunks, ReadLimit, DrainLimit, EmptyLimit, Buffer} \subseteq
                                  Nat \ {0}
                            /\ {Leftovers, MaxGlitches} \subseteq Nat

VARIABLES
    kind,
    step,      \* the step of Script the host is at; 0 between two frames
    reads,     \* replies consumed at this step
    empties,   \* zero-length reads in a row
    result,    \* what the last Send returned
    inbox,     \* commands the firmware has not taken yet
    memory,    \* the pixel writes it holds
    screen,    \* the frame it shows
    outbox,    \* replies the host has not read yet
    glitches   \* bound

host == <<step, reads, empties, result>>
firmware == <<memory, screen>>
frameVars == <<kind, host, inbox, firmware, outbox, glitches>>

Tag == {"mine", "old"}
Command == [code : {"stop", "reset", "pixels", "mode", "clear", "image", "start"}, from : Tag]
Reply == [code : {"reset", "pixels", "mode", "clear", "image", "rejected", "empty"},
          from : Tag]

-----------------------------------------------------------------------------
(* The transactions. *)

Drain == [do |-> "drain", code |-> "idle"]
Put(code) == [do |-> "write", code |-> code]
Expect(code) == [do |-> "await", code |-> code]
Pixels == [i \in 1 .. Chunks |-> Put("pixels")]

Script(k) ==
    IF k = "fan"
    THEN <<Drain, Put("stop"), Put("reset"), Expect("reset")>> \o Pixels \o <<Expect("pixels")>>
    ELSE IF k = "pump"
    THEN <<Put("mode"), Expect("mode"), Put("clear"), Expect("clear"),
           Put("image"), Expect("image")>>
    ELSE <<Put("start")>> \o Pixels

FrameTypeOK ==
    /\ kind \in Kinds
    /\ step \in 0 .. Len(Script(kind))
    /\ reads \in 0 .. ReadLimit + DrainLimit
    /\ empties \in 0 .. EmptyLimit
    /\ result \in {"none", "ok", "error"}
    /\ inbox \in Seq(Command)
    /\ memory \in Seq(Tag) /\ Len(memory) < Chunks
    /\ screen \in {"mine", "old", "mixed", "blank"}
    /\ outbox \in Seq(Reply)
    /\ glitches \in 0 .. MaxGlitches

\* What another program, or a run before this one, may have left behind.
Queued(k) == [code : IF k = "fan" THEN {"reset", "pixels"}
                     ELSE IF k = "pump" THEN {"image", "empty"} ELSE {},
              from : {"old"}]

FrameInit ==
    /\ kind \in Kinds
    /\ step = 0 /\ reads = 0 /\ empties = 0
    /\ result = "none"
    /\ inbox = <<>>
    /\ memory \in {<<>>} \cup (IF Chunks > 1 /\ kind = "fan" THEN {<<"old">>} ELSE {})
    /\ screen = "old"
    /\ outbox \in UNION {[1 .. n -> Queued(kind)] : n \in 0 .. Leftovers}
    /\ glitches = 0

Glitch == glitches < MaxGlitches /\ glitches' = glitches + 1

-----------------------------------------------------------------------------
(* The host. *)

Age(queue) == [i \in DOMAIN queue |-> [queue[i] EXCEPT !.from = "old"]]

\* Send begins: what it finds belongs to earlier frames.
BeginFrame ==
    /\ step = 0
    /\ step' = 1 /\ reads' = 0 /\ empties' = 0
    /\ inbox' = Age(inbox)
    /\ outbox' = Age(outbox)
    /\ memory' = [i \in DOMAIN memory |-> "old"]
    /\ screen' = IF screen = "mine" THEN "old" ELSE screen
    /\ UNCHANGED <<kind, result, glitches>>

At(do) == step > 0 /\ Script(kind)[step].do = do

Wanted == Script(kind)[step].code

Advance ==
    /\ reads' = 0 /\ empties' = 0
    /\ IF step = Len(Script(kind))
       THEN step' = 0 /\ result' = "ok"
       ELSE step' = step + 1 /\ UNCHANGED result

Fail == step' = 0 /\ reads' = 0 /\ empties' = 0 /\ result' = "error"

\* A write; one that fails may have reached the firmware all the same.
Write ==
    /\ At("write")
    /\ Len(inbox) < Buffer
    /\ LET sent == Append(inbox, [code |-> Wanted, from |-> "mine"])
       IN  \/ Advance /\ inbox' = sent /\ UNCHANGED glitches
           \/ Fail /\ Glitch /\ inbox' \in {inbox, sent}
    /\ UNCHANGED <<kind, firmware, outbox>>

\* One read of drainFan. Its idle timeout is longer than the firmware needs for
\* what it was sent before.
DrainRead ==
    /\ At("drain")
    /\ \/ /\ outbox # <<>>
          /\ outbox' = Tail(outbox)
          /\ UNCHANGED glitches
          /\ IF reads + 1 = DrainLimit
             THEN Fail
             ELSE reads' = reads + 1 /\ UNCHANGED <<step, empties, result>>
       \/ /\ outbox = <<>> /\ inbox = <<>>
          /\ Advance
          /\ UNCHANGED <<outbox, glitches>>
       \/ Fail /\ Glitch /\ UNCHANGED outbox
    /\ UNCHANGED <<kind, inbox, firmware>>

\* Mutant: the timestamp of a pump's reply is not compared.
AnswersAnyTime(r) == r.code = Wanted

\* A fan's reply is told by its opcode, a pump's by opcode and timestamp.
Answers(r) == r.code = Wanted /\ (kind = "pump" => r.from = "mine")

\* What a reply of the firmware means to Send: "skip" is read over.
Meaning(r) ==
    IF r.code = "empty" THEN "empty"
    ELSE IF r.code = "rejected" /\ (kind = "fan" \/ r.from = "mine") THEN "fail"
    ELSE IF r.code # "rejected" /\ Answers(r) THEN "accept"
    ELSE "skip"

\* Mutant: a reply to something else is an error.
AwaitStrict ==
    /\ At("await")
    /\ outbox # <<>>
    /\ outbox' = Tail(outbox)
    /\ CASE Meaning(Head(outbox)) = "accept" -> Advance
         [] Meaning(Head(outbox)) \in {"fail", "skip"} -> Fail
         [] Meaning(Head(outbox)) = "empty" ->
              IF empties + 1 = EmptyLimit THEN Fail
              ELSE empties' = empties + 1 /\ UNCHANGED <<step, reads, result>>
    /\ UNCHANGED <<kind, inbox, firmware, glitches>>

\* One read of fanReply or pumpExchange.
Await ==
    /\ At("await")
    /\ outbox # <<>>
    /\ outbox' = Tail(outbox)
    /\ \/ Meaning(Head(outbox)) = "accept" /\ Advance
       \/ Meaning(Head(outbox)) = "fail" /\ Fail
       \/ /\ Meaning(Head(outbox)) = "empty"
          /\ IF empties + 1 = EmptyLimit THEN Fail
             ELSE empties' = empties + 1 /\ UNCHANGED <<step, reads, result>>
       \/ /\ Meaning(Head(outbox)) = "skip"
          /\ IF reads + 1 = ReadLimit THEN Fail
             ELSE reads' = reads + 1 /\ empties' = 0 /\ UNCHANGED <<step, result>>
    /\ UNCHANGED <<kind, inbox, firmware, glitches>>

\* A read that times out, a reply that does not decode, or a cancelled context.
AwaitTimeout ==
    /\ At("await")
    /\ Fail
    /\ IF inbox = <<>> /\ outbox = <<>> THEN UNCHANGED glitches ELSE Glitch
    /\ UNCHANGED <<kind, inbox, firmware, outbox>>

Host == BeginFrame \/ Write \/ DrainRead \/ Await \/ AwaitTimeout

-----------------------------------------------------------------------------
(* The firmware (external). *)

Answer(code, from) == outbox' = Append(outbox, [code |-> code, from |-> from])

Shown(tags) ==
    IF tags = {"mine"} THEN "mine" ELSE IF tags = {"old"} THEN "old" ELSE "mixed"

\* One more pixel write; the last one shows the frame, or rejects it.
TakePixels(from) ==
    LET held == Append(memory, from)
    IN  IF Len(held) < Chunks
        THEN memory' = held /\ UNCHANGED <<screen, outbox, glitches>>
        ELSE /\ memory' = <<>>
             /\ \/ /\ screen' = Shown({held[i] : i \in DOMAIN held})
                   /\ IF kind = "fan" THEN Answer("pixels", from) ELSE UNCHANGED outbox
                   /\ UNCHANGED glitches
                \/ kind = "fan" /\ Answer("rejected", from) /\ Glitch /\ UNCHANGED screen

Take ==
    /\ inbox # <<>>
    /\ inbox' = Tail(inbox)
    /\ LET c == Head(inbox)
       IN  \/ c.code = "stop" /\ UNCHANGED <<firmware, outbox, glitches>>
           \/ c.code = "start" /\ memory' = <<>> /\ UNCHANGED <<screen, outbox, glitches>>
           \/ /\ c.code = "reset"
              /\ memory' = <<>>
              /\ Answer("reset", c.from)
              /\ UNCHANGED <<screen, glitches>>
           \/ c.code = "pixels" /\ TakePixels(c.from)
           \/ /\ c.code \in {"mode", "clear", "image"}
              /\ UNCHANGED memory
              /\ \/ /\ screen' = IF c.code = "mode" THEN screen
                                  ELSE IF c.code = "clear" THEN "blank" ELSE c.from
                    /\ UNCHANGED glitches
                    /\ \/ Answer(c.code, c.from)
                       \/ outbox' = outbox \o <<[code |-> c.code, from |-> c.from],
                                                [code |-> "empty", from |-> c.from]>>
                 \/ Answer("rejected", c.from) /\ Glitch /\ UNCHANGED screen
    /\ UNCHANGED <<kind, host>>

\* A command the firmware of a pump or a fan does not act on.
Ignore ==
    /\ inbox # <<>> /\ kind # "cyclops"
    /\ Glitch
    /\ inbox' = Tail(inbox)
    /\ UNCHANGED <<kind, host, firmware, outbox>>

FrameNext == Host \/ Take \/ Ignore

FrameSpec == FrameInit /\ [][FrameNext]_frameVars

\* The worker refreshes its screen and the firmware works off its commands. A
\* timeout is the host's own, so the firmware is not raced where nothing failed.
FairFrameSpec == FrameSpec /\ WF_frameVars(Host) /\ WF_frameVars(Take)

-----------------------------------------------------------------------------
(* Properties. *)

\* "queued same-opcode acknowledgements cannot match": a pump or a fan that
\* acknowledged the frame shows that frame, whatever replies were queued.
AcknowledgedIsShown ==
    kind # "cyclops" /\ step = 0 /\ result = "ok" => screen = "mine"

\* A frame that was given up half way never ends up on a screen together with a
\* part of the next one.
NeverMixed == screen # "mixed"

\* What a transaction may claim of the panel, whatever was left in the endpoint by the
\* frames before it.
FramesWhole == FrameTypeOK /\ AcknowledgedIsShown /\ NeverMixed

\* However many replies are queued, and after any failure, frames are acknowledged
\* again: each attempt takes more replies out of the queue than it adds.
Recovers == result = "error" ~> result = "ok"
=============================================================================
