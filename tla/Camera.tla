------------------------------- MODULE Camera -------------------------------
(***************************************************************************)
(* The C328R camera program: the command protocol of camera/c328r.c and    *)
(* the main loop of camera/main.c that takes and shows pictures.  The      *)
(* camera is external; the serial port (Uart.tla) is here its queue of     *)
(* received bytes.  A frame has six bytes; the last three, which hold the  *)
(* size of a picture or nothing, are one byte here.                        *)
(*                                                                         *)
(* A byte on its way carries, for the properties only, whether it answers  *)
(* the last command sent (new).  A pixel may have the value of a command's *)
(* code, but none has that of the prefix.                                  *)
(***************************************************************************)
EXTENDS Integers, Sequences

CONSTANTS
    PicSize,     \* bytes of a picture
    RxSize,      \* bytes the queue of the port holds
    CmdDepth,    \* commands the camera takes while it is busy
    MaxFaults    \* how many things go wrong

ASSUME SizeAssumption ==
    /\ PicSize \in 1..100 /\ RxSize \in Nat \ {0}
    /\ CmdDepth \in Nat \ {0} /\ MaxFaults \in Nat

VARIABLES
    pc,          \* the command to send, or the answer waited for
    buf, want,   \* WaitForResponse: the bytes read, and how many it is to read
    short,       \* it has timed out
    port,        \* the rate of uart0
    rx,          \* its queue of received bytes
    cmds, out,   \* the camera: commands received, bytes to send
    rate,        \* its rate, AutoRate until it sees a SYNC
    snapped,     \* it has a snapshot that was not fetched
    faults,      \* what has gone wrong so far ...
    cut          \* ... and whether a byte was lost

mainVars == <<pc, buf, want, short, port>>
camVars == <<cmds, rate, snapped>>
vars == <<mainVars, rx, camVars, out, faults, cut>>

PREFIX == 170
INITIAL == 1
GETPICTURE == 4
SNAPSHOT == 5
BAUDRATE == 7
DATA == 10
SYNC == 13
ACK == 14
NAK == 15
LIGHTFREQ == 19
Junk == 255
AutoRate == 0
Slow == 9600
Fast == 115200
FrameLen == 4

Frame(cmd, par, size) == <<PREFIX, cmd, par, size>>
Pixel(j) == j
Picture(fresh) == [j \in 1..PicSize |-> IF fresh THEN Pixel(j) ELSE Pixel(0)]

Init == /\ pc = "Sync" /\ buf = <<>> /\ want = 0 /\ short = FALSE
        /\ port = Slow /\ rx = <<>>
        /\ cmds = <<>> /\ out = <<>> /\ rate = AutoRate /\ snapped = FALSE
        /\ faults = 0 /\ cut = FALSE

-----------------------------------------------------------------------------
(* SendCommand and WaitForResponse. *)

Fault(b) == faults' = IF b THEN faults + 1 ELSE faults
MayFail == faults < MaxFaults

(* A command the camera cannot read, or has no room for, is lost. *)
Heard(c) == rate = port \/ (rate = AutoRate /\ c = SYNC)

Aged(s) == [j \in DOMAIN s |-> [s[j] EXCEPT !.new = FALSE]]

Smaller(a, b) == IF a <= b THEN a ELSE b

SendCommand(c, lost) ==
    /\ lost => MayFail
    /\ Fault(lost)
    /\ rx' = Aged(rx) /\ out' = Aged(out)
    /\ cmds' = IF ~lost /\ Heard(c) /\ Len(cmds) < CmdDepth
               THEN Append(Aged(cmds), [b |-> c, new |-> TRUE]) ELSE Aged(cmds)
    /\ rate' = IF ~lost /\ Heard(c) THEN port ELSE rate
    /\ UNCHANGED <<snapped, cut>>

Pauses == {"syncPause", "ackPause", "initialPause", "settle"}

Expect(next, len) == /\ pc' = next /\ buf' = <<>> /\ want' = len /\ short' = FALSE
                     /\ UNCHANGED port

Command(here, c, next) ==
    /\ pc = here
    /\ \E lost \in BOOLEAN : SendCommand(c, lost)
    /\ Expect(next, IF next \in Pauses THEN 0 ELSE FrameLen)

(* Mutant: one byte more than asked for is read. *)
Getch_oneMore ==
    /\ want > Len(buf) /\ ~short /\ rx # <<>>
    /\ LET n == Smaller(want - Len(buf) + 1, Len(rx))
       IN /\ buf' = buf \o SubSeq(rx, 1, n)
          /\ rx' = SubSeq(rx, n + 1, Len(rx))
    /\ UNCHANGED <<pc, want, short, port, camVars, out, faults, cut>>

(* uart0Getch, as often as the queue has a byte. *)
Getch ==
    /\ want > Len(buf) /\ ~short /\ rx # <<>>
    /\ LET n == Smaller(want - Len(buf), Len(rx))
       IN /\ buf' = buf \o SubSeq(rx, 1, n)
          /\ rx' = SubSeq(rx, n + 1, Len(rx))
    /\ UNCHANGED <<pc, want, short, port, camVars, out, faults, cut>>

(* Time passes: the camera has nothing more to say, or it is late. *)
Elapse == LET late == cmds # <<>> \/ out # <<>>
          IN (late => MayFail) /\ Fault(late)

(* The second without a byte. *)
Timeout == /\ want > Len(buf) /\ ~short /\ rx = <<>>
           /\ Elapse
           /\ short' = TRUE
           /\ UNCHANGED <<pc, buf, want, port, rx, camVars, out, cut>>

Over(here) == pc = here /\ (short \/ Len(buf) = want)
Answered == Len(buf) = FrameLen

(* Mutant: it is not looked at which command is acknowledged. *)
ReceiveACK_any(c) == Answered /\ buf[2].b = ACK

ReceiveACK(c) == Answered /\ buf[2].b = ACK /\ buf[3].b = c

-----------------------------------------------------------------------------
(* The main loop.  When Sync gives up after its 60 tries it is called       *)
(* again: here it tries for ever.                                           *)

Go(next) == /\ pc' = next /\ buf' = <<>> /\ want' = 0 /\ short' = FALSE
            /\ UNCHANGED <<port, rx, camVars, out, faults, cut>>

Quiet == UNCHANGED <<rx, camVars, out, faults, cut>>

(* HUNDRED_MS, before an answer is read. *)
Pause(here, next) == /\ pc = here
                     /\ Elapse
                     /\ Expect(next, IF next = "SetBaudRate" THEN 0 ELSE FrameLen)
                     /\ UNCHANGED <<rx, camVars, out, cut>>

(* The ACK that ends a successful Sync is not answered. *)
Sync == \/ Command("Sync", SYNC, "syncPause")
        \/ Pause("syncPause", "syncAck")
        \/ Over("syncAck") /\ Go(IF ReceiveACK(SYNC) THEN "ackPause" ELSE "Sync")
        \/ Pause("ackPause", "syncSync")
        \/ Over("syncSync") /\ Go(IF Answered /\ buf[2].b = SYNC THEN "settle" ELSE "Sync")

(* ONE_SEC passes before.  The result of SetBaudRate is only printed;       *)
(* uart0Init empties the queue.                                             *)
SetBaudRate ==
    \/ Pause("settle", "SetBaudRate")
    \/ Command("SetBaudRate", BAUDRATE, "baudAck")
    \/ /\ Over("baudAck")
       /\ pc' = "Initial" /\ buf' = <<>> /\ want' = 0 /\ short' = FALSE
       /\ port' = Fast /\ rx' = <<>>
       /\ UNCHANGED <<camVars, out, faults, cut>>

(* Mutant: a command that failed is sent again. *)
Initial_again == \/ Command("Initial", INITIAL, "initialPause")
                 \/ Pause("initialPause", "initialAck")
                 \/ /\ Over("initialAck")
                    /\ Go(IF ReceiveACK(INITIAL) THEN "LightFrequency" ELSE "Initial")

Initial == \/ Command("Initial", INITIAL, "initialPause")
           \/ Pause("initialPause", "initialAck")
           \/ /\ Over("initialAck")
              /\ Go(IF ReceiveACK(INITIAL) THEN "LightFrequency" ELSE "Sync")

LightFrequency == \/ Command("LightFrequency", LIGHTFREQ, "lightAck")
                  \/ /\ Over("lightAck")
                     /\ Go(IF ReceiveACK(LIGHTFREQ) THEN "Snapshot" ELSE "Sync")

(* Mutant: a picture is fetched whatever the camera said. *)
Snapshot_unchecked == \/ Command("Snapshot", SNAPSHOT, "snapAck")
                      \/ Over("snapAck") /\ Go("GetPicture")

Snapshot == \/ Command("Snapshot", SNAPSHOT, "snapAck")
            \/ /\ Over("snapAck")
               /\ Go(IF ReceiveACK(SNAPSHOT) THEN "GetPicture" ELSE "Sync")

GetPictureCommand ==
    \/ Command("GetPicture", GETPICTURE, "picAck")
    \/ /\ Over("picAck")
       /\ IF ReceiveACK(GETPICTURE) THEN Expect("picData", FrameLen) /\ Quiet ELSE Go("Sync")

(* The data are waited for once more when they stop; however many have come *)
(* then, the picture is acknowledged and shown.                             *)
GetRawPicture ==
    \/ /\ Over("picData")
       /\ IF Answered /\ buf[2].b = DATA THEN Expect("pixels", buf[4].b) /\ Quiet ELSE Go("Sync")
    \/ /\ Over("pixels")
       /\ IF short THEN Expect("rest", want - Len(buf)) /\ Quiet
                   ELSE pc' = "show" /\ UNCHANGED <<buf, want, short, port, rx, camVars, out, faults, cut>>
    \/ /\ Over("rest") /\ Go("show")

GLcdImage == pc = "show" /\ Go("Snapshot")

-----------------------------------------------------------------------------
(* The camera. *)

(* What it says to a command: frames, and the data of a picture. *)
Answer(c) == Frame(ACK, c, 0) \o
             (CASE c = SYNC -> Frame(SYNC, 0, 0)
                [] c = GETPICTURE -> Frame(DATA, 0, PicSize) \o Picture(snapped)
                [] OTHER -> <<>>)

HwAnswer(refuse) ==
    /\ cmds # <<>> /\ out = <<>>
    /\ refuse => MayFail
    /\ Fault(refuse)
    /\ LET c == Head(cmds).b
           said == IF refuse THEN Frame(NAK, 0, 0) ELSE Answer(c)
       IN /\ out' = [j \in DOMAIN said |-> [b |-> said[j], new |-> Head(cmds).new, rate |-> rate]]
          /\ rate' = IF c = BAUDRATE /\ ~refuse THEN Fast ELSE rate
          /\ snapped' = IF refuse THEN snapped ELSE (snapped /\ c # GETPICTURE) \/ c = SNAPSHOT
    /\ cmds' = Tail(cmds)
    /\ UNCHANGED <<mainVars, rx, cut>>

(* A byte comes out of the line: as it is, as something else when the port  *)
(* has another rate, or not at all.                                         *)
HwByte(lost) ==
    /\ out # <<>>
    /\ lost => MayFail
    /\ Fault(lost)
    /\ LET f == Head(out)
           stored == ~lost /\ Len(rx) < RxSize
       IN /\ rx' = IF stored THEN Append(rx, [b |-> IF f.rate = port THEN f.b ELSE Junk, new |-> f.new])
                    ELSE rx
          /\ cut' = (cut \/ ~stored)
    /\ out' = Tail(out)
    /\ UNCHANGED <<mainVars, camVars>>

HwPower == /\ MayFail /\ Fault(TRUE)
           /\ cmds' = <<>> /\ out' = <<>> /\ rate' = AutoRate /\ snapped' = FALSE
           /\ UNCHANGED <<mainVars, rx, cut>>

-----------------------------------------------------------------------------
Main == \/ Getch \/ Timeout \/ Sync \/ SetBaudRate \/ Initial \/ LightFrequency
        \/ Snapshot \/ GetPictureCommand \/ GetRawPicture \/ GLcdImage
Hardware == \E fault \in BOOLEAN : HwAnswer(fault) \/ HwByte(fault)

Next == Main \/ Hardware \/ HwPower

Spec == Init /\ [][Next]_vars
FairSpec == Spec /\ WF_vars(Main) /\ WF_vars(Hardware)

-----------------------------------------------------------------------------
(* Properties. *)

Waits == [baudAck |-> BAUDRATE, initialAck |-> INITIAL, lightAck |-> LIGHTFREQ,
          snapAck |-> SNAPSHOT, picAck |-> GETPICTURE]

(* The values of the variables; WaitForResponse never stores more bytes     *)
(* than it was asked for, whatever comes in.                                *)
TypeOK ==
    /\ pc \in {"Sync", "syncAck", "syncSync", "SetBaudRate", "Initial", "LightFrequency",
              "Snapshot", "GetPicture", "picData", "pixels", "rest", "show"}
             \cup Pauses \cup DOMAIN Waits
    /\ want \in 0..255 /\ Len(buf) <= want
    /\ short \in BOOLEAN /\ snapped \in BOOLEAN /\ cut \in BOOLEAN
    /\ port \in {Slow, Fast} /\ rate \in {AutoRate, Slow, Fast}
    /\ Len(rx) <= RxSize /\ Len(cmds) <= CmdDepth
    /\ faults \in 0..MaxFaults

(* While no more than MaxFaults things go wrong, an acknowledgement that    *)
(* SetBaudRate, Initial, LightFrequency, Snapshot or GetPictureCommand      *)
(* accepts was given to that very call, although nothing empties the queue  *)
(* before a command and answers may be late, in pieces or incomplete:       *)
(* whatever is old fails some call, and Sync reads it away.  The number     *)
(* matters: a camera that stays behind through a dozen waits in a row lets  *)
(* the answer to one SYNC serve the next, and then SetBaudRate takes an old *)
(* acknowledgement for its own.                                             *)
FreshAck == \A w \in DOMAIN Waits :
                Over(w) /\ ReceiveACK(Waits[w]) => buf[3].new

Values(s) == [j \in DOMAIN s |-> s[j].b]

(* As long as the line loses no byte, a picture for which GetRawPicture     *)
(* reports its whole size consists of the bytes of one snapshot, the one    *)
(* this turn of the loop asked for, in order.                               *)
PictureWhole == ~cut /\ pc = "show" /\ buf # <<>> => Values(buf) = Picture(TRUE)

Mismatch == rate \notin {AutoRate, port}

(* Once nothing goes wrong any more, pictures are shown again and again:    *)
(* commands lost or refused, late answers and a camera switched off and on  *)
(* are got over.  Two things are not: camera and port left at different     *)
(* rates by a SetBaudRate that failed, and a byte lost, after which Sync    *)
(* may read every frame from its second byte for ever.                      *)
Recovers == ~<>[]Mismatch /\ []~cut => []<>(pc = "show")
=============================================================================
