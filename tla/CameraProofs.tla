---------------------------- MODULE CameraProofs ----------------------------
(***************************************************************************)
(* Proofs about Camera.tla: the types, with the bound on what              *)
(* WaitForResponse stores, whatever the camera sends and however often     *)
(* anything goes wrong.                                                    *)
(***************************************************************************)
EXTENDS Camera, TLAPS

Code == 0..255
Rates == {AutoRate, Slow, Fast}
RxByte == [b : Code, new : BOOLEAN]
OutByte == [b : Code, new : BOOLEAN, rate : Rates]

PCs == {"Sync", "syncAck", "syncSync", "SetBaudRate", "Initial", "LightFrequency",
        "Snapshot", "GetPicture", "picData", "pixels", "rest", "show"} \cup Pauses \cup DOMAIN Waits

(* The program. *)
MainOK == /\ pc \in PCs
          /\ buf \in Seq(RxByte) /\ want \in Code /\ Len(buf) <= want
          /\ short \in BOOLEAN /\ port \in {Slow, Fast}

(* The line and the queue. *)
RxOK == rx \in Seq(RxByte) /\ Len(rx) <= RxSize
OutOK == out \in Seq(OutByte)

(* The camera. *)
CamOK == /\ cmds \in Seq(RxByte) /\ Len(cmds) <= CmdDepth
         /\ rate \in Rates /\ snapped \in BOOLEAN

FaultsOK == faults \in 0..MaxFaults /\ cut \in BOOLEAN

Types == MainOK /\ RxOK /\ OutOK /\ CamOK /\ FaultsOK

LEMMA Empty ==
    /\ <<>> \in Seq(RxByte) /\ <<>> \in Seq(OutByte) /\ Len(<<>>) = 0
    /\ \A w \in Code : 0 <= w
  BY DEF Code

LEMMA InitTypes == Init => Types
<1> SUFFICES ASSUME Init  PROVE Types
  OBVIOUS
<1>1. MainOK
  <2>1. "Sync" \in PCs /\ 0 \in Code
    BY DEF PCs, Code
  <2> QED  BY <2>1, Empty DEF Init, MainOK
<1>2. RxOK /\ OutOK
  BY Empty, SizeAssumption DEF Init, RxOK, OutOK
<1>3. CamOK
  <2>1. 0 <= CmdDepth
    BY SizeAssumption
  <2>2. cmds = <<>> /\ rate \in Rates /\ snapped \in BOOLEAN
    <3>1. cmds = <<>> /\ rate = AutoRate /\ snapped = FALSE
      BY Zenon DEF Init
    <3>2. AutoRate \in Rates
      BY DEF Rates
    <3> QED  BY ONLY <3>1, <3>2, Zenon
  <2> QED  BY <2>1, <2>2, Empty DEF CamOK
<1>4. FaultsOK
  <2>1. 0 \in 0..MaxFaults
    BY SizeAssumption
  <2> QED  BY <2>1, Zenon DEF Init, FaultsOK
<1> QED  BY <1>1, <1>2, <1>3, <1>4 DEF Types

(* The codes of the commands are bytes. *)
LEMMA Codes ==
    /\ PREFIX \in Code /\ INITIAL \in Code /\ GETPICTURE \in Code /\ SNAPSHOT \in Code
    /\ BAUDRATE \in Code /\ DATA \in Code /\ SYNC \in Code /\ ACK \in Code /\ NAK \in Code
    /\ LIGHTFREQ \in Code /\ Junk \in Code /\ FrameLen \in Code /\ FrameLen = 4 /\ 0 \in Code
    /\ \A j \in 0..100 : Pixel(j) \in Code
  BY DEF PREFIX, INITIAL, GETPICTURE, SNAPSHOT, BAUDRATE, DATA, SYNC, ACK, NAK, LIGHTFREQ, Junk,
         FrameLen, Code, Pixel

(* What has become old is what it was. *)
LEMMA AgedType ==
    /\ \A s \in Seq(RxByte) : Aged(s) \in Seq(RxByte) /\ Len(Aged(s)) = Len(s)
    /\ \A s \in Seq(OutByte) : Aged(s) \in Seq(OutByte)
<1>1. ASSUME NEW s \in Seq(RxByte)
      PROVE  Aged(s) \in Seq(RxByte) /\ Len(Aged(s)) = Len(s)
  <2>1. Len(s) \in Nat /\ DOMAIN s = 1..Len(s) /\ \A j \in 1..Len(s) : s[j] \in RxByte
    BY <1>1
  <2>2. \A r \in RxByte : [r EXCEPT !.new = FALSE] \in RxByte
    BY DEF RxByte
  <2>3. Aged(s) \in [1..Len(s) -> RxByte]
    BY <2>1, <2>2 DEF Aged
  <2> QED  BY <2>1, <2>3
<1>2. ASSUME NEW s \in Seq(OutByte)
      PROVE  Aged(s) \in Seq(OutByte)
  <2>1. Len(s) \in Nat /\ DOMAIN s = 1..Len(s) /\ \A j \in 1..Len(s) : s[j] \in OutByte
    BY <1>2
  <2>2. \A r \in OutByte : [r EXCEPT !.new = FALSE] \in OutByte
    BY DEF OutByte
  <2>3. Aged(s) \in [1..Len(s) -> OutByte]
    BY <2>1, <2>2 DEF Aged
  <2> QED  BY <2>1, <2>3
<1> QED  BY <1>1, <1>2

(* The count of what goes wrong stops at its limit. *)
LEMMA FaultType ==
    ASSUME FaultsOK, NEW f \in BOOLEAN, f => MayFail, Fault(f)
    PROVE  faults' \in 0..MaxFaults
  BY SizeAssumption DEF FaultsOK, MayFail, Fault

LEMMA ElapseType ==
    ASSUME FaultsOK, Elapse
    PROVE  faults' \in 0..MaxFaults
  BY SizeAssumption DEF FaultsOK, MayFail, Fault, Elapse

LEMMA SendCommandType ==
    ASSUME Types, NEW c \in Code, NEW lost \in BOOLEAN, SendCommand(c, lost)
    PROVE  RxOK' /\ OutOK' /\ CamOK' /\ FaultsOK'
<1>1. RxOK'
  BY AgedType DEF Types, RxOK, SendCommand
<1>2. OutOK'
  BY AgedType DEF Types, OutOK, SendCommand
<1>3. cmds' \in Seq(RxByte) /\ Len(cmds') <= CmdDepth
  <2>1. Aged(cmds) \in Seq(RxByte) /\ Len(Aged(cmds)) = Len(cmds) /\ Len(cmds) <= CmdDepth
    BY AgedType DEF Types, CamOK
  <2>2. [b |-> c, new |-> TRUE] \in RxByte
    BY DEF RxByte
  <2>3. cmds' = Aged(cmds) \/ (Len(cmds) < CmdDepth /\ cmds' = Append(Aged(cmds), [b |-> c, new |-> TRUE]))
    BY DEF SendCommand
  <2>4. Len(Append(Aged(cmds), [b |-> c, new |-> TRUE])) = Len(cmds) + 1
        /\ Append(Aged(cmds), [b |-> c, new |-> TRUE]) \in Seq(RxByte) /\ Len(cmds) \in Nat
    BY <2>1, <2>2
  <2> QED  BY <2>1, <2>3, <2>4, SizeAssumption
<1>4. rate' \in Rates /\ snapped' \in BOOLEAN /\ cut' \in BOOLEAN
  BY DEF Types, CamOK, MainOK, FaultsOK, SendCommand, Rates
<1>5. faults' \in 0..MaxFaults
  BY FaultType DEF Types, SendCommand
<1> QED  BY <1>1, <1>2, <1>3, <1>4, <1>5 DEF CamOK, FaultsOK

(* WaitForResponse begins. *)
LEMMA ExpectType ==
    ASSUME MainOK, NEW next \in PCs, NEW len \in Code, Expect(next, len)
    PROVE  MainOK'
  BY Empty DEF MainOK, Expect

LEMMA GoType ==
    ASSUME Types, NEW next \in PCs, Go(next)
    PROVE  Types'
<1>1. MainOK'
  <2>1. 0 \in Code
    BY DEF Code
  <2> QED  BY <2>1, Empty DEF Types, MainOK, Go
<1>2. RxOK' /\ OutOK' /\ CamOK' /\ FaultsOK'
  BY DEF Types, RxOK, OutOK, CamOK, FaultsOK, Go, camVars
<1> QED  BY <1>1, <1>2 DEF Types

LEMMA CommandType ==
    ASSUME Types, NEW here, NEW c \in Code, NEW next \in PCs, Command(here, c, next)
    PROVE  Types'
<1>1. RxOK' /\ OutOK' /\ CamOK' /\ FaultsOK'
  BY SendCommandType DEF Command
<1>2. (IF next \in Pauses THEN 0 ELSE FrameLen) \in Code
  BY Codes
<1>3. MainOK'
  BY <1>2, ExpectType DEF Types, Command
<1> QED  BY <1>1, <1>3 DEF Types

LEMMA PauseType ==
    ASSUME Types, NEW here, NEW next \in PCs, Pause(here, next)
    PROVE  Types'
<1>1. (IF next = "SetBaudRate" THEN 0 ELSE FrameLen) \in Code
  BY Codes
<1>2. MainOK'
  BY <1>1, ExpectType DEF Types, Pause
<1>3. faults' \in 0..MaxFaults
  BY ElapseType DEF Types, Pause
<1>4. RxOK' /\ OutOK' /\ CamOK' /\ FaultsOK'
  BY <1>3 DEF Types, RxOK, OutOK, CamOK, FaultsOK, Pause, camVars
<1> QED  BY <1>2, <1>4 DEF Types

(* Steps of the program that leave everything but its own state alone. *)
LEMMA QuietType ==
    ASSUME Types, MainOK', Quiet
    PROVE  Types'
  BY DEF Types, RxOK, OutOK, CamOK, FaultsOK, Quiet, camVars

(* WaitForResponse takes no more from the queue than is left to read. *)
LEMMA GetchType == ASSUME Types, Getch  PROVE Types'
<1> DEFINE m == Smaller(want - Len(buf), Len(rx))
<1>1. /\ buf' = buf \o SubSeq(rx, 1, m) /\ rx' = SubSeq(rx, m + 1, Len(rx))
      /\ want > Len(buf)
      /\ UNCHANGED <<pc, want, short, port, camVars, out, faults, cut>>
  BY DEF Getch
<1>2. /\ buf \in Seq(RxByte) /\ rx \in Seq(RxByte) /\ want \in Nat /\ RxSize \in Nat
      /\ Len(buf) \in Nat /\ Len(rx) \in Nat /\ Len(rx) <= RxSize
  BY SizeAssumption DEF Types, MainOK, RxOK, Code
<1>3. m \in 0..Len(rx) /\ Len(buf) + m <= want
  BY <1>1, <1>2 DEF Smaller
<1> HIDE DEF m
<1>4. SubSeq(rx, 1, m) \in Seq(RxByte) /\ Len(SubSeq(rx, 1, m)) = m
  BY <1>2, <1>3
<1>5. buf' \in Seq(RxByte) /\ Len(buf') = Len(buf) + m
  BY <1>1, <1>2, <1>4
<1>6. rx' \in Seq(RxByte) /\ Len(rx') = Len(rx) - m
  BY <1>1, <1>2, <1>3
<1>7. MainOK'
  BY <1>1, <1>2, <1>3, <1>5 DEF Types, MainOK
<1>8. RxOK'
  BY <1>2, <1>3, <1>6 DEF RxOK
<1>9. OutOK' /\ CamOK' /\ FaultsOK'
  BY <1>1 DEF Types, OutOK, CamOK, FaultsOK, camVars
<1> QED  BY <1>7, <1>8, <1>9 DEF Types

LEMMA TimeoutType == ASSUME Types, Timeout  PROVE Types'
<1>1. faults' \in 0..MaxFaults
  BY ElapseType DEF Types, Timeout
<1>2. MainOK'
  BY DEF Types, MainOK, Timeout
<1>3. RxOK' /\ OutOK' /\ CamOK' /\ FaultsOK'
  BY <1>1 DEF Types, RxOK, OutOK, CamOK, FaultsOK, Timeout, camVars
<1> QED  BY <1>2, <1>3 DEF Types

(* The places in the program that its actions name. *)
LEMMA Places ==
    /\ {"Sync", "syncAck", "syncSync", "SetBaudRate", "Initial", "LightFrequency", "Snapshot",
        "GetPicture", "picData", "pixels", "rest", "show"} \subseteq PCs
    /\ {"syncPause", "ackPause", "initialPause", "settle"} \subseteq PCs
    /\ {"baudAck", "initialAck", "lightAck", "snapAck", "picAck"} \subseteq PCs
<1>1. DOMAIN Waits = {"baudAck", "initialAck", "lightAck", "snapAck", "picAck"}
  BY DEF Waits
<1> QED  BY <1>1 DEF PCs, Pauses

LEMMA SyncType == ASSUME Types, Sync  PROVE Types'
<1>1. CASE Command("Sync", SYNC, "syncPause")
  BY <1>1, CommandType, Codes, Places
<1>2. CASE Pause("syncPause", "syncAck") \/ Pause("ackPause", "syncSync")
  BY <1>2, PauseType, Places
<1>3. CASE \E next \in {"ackPause", "Sync", "settle"} : Go(next)
  BY <1>3, GoType, Places
<1> QED  BY <1>1, <1>2, <1>3 DEF Sync

LEMMA SetBaudRateType == ASSUME Types, SetBaudRate  PROVE Types'
<1>1. CASE Pause("settle", "SetBaudRate")
  BY <1>1, PauseType, Places
<1>2. CASE Command("SetBaudRate", BAUDRATE, "baudAck")
  BY <1>2, CommandType, Codes, Places
<1>3. CASE /\ pc' = "Initial" /\ buf' = <<>> /\ want' = 0 /\ short' = FALSE
           /\ port' = Fast /\ rx' = <<>>
           /\ UNCHANGED <<camVars, out, faults, cut>>
  <2>1. MainOK'
    BY <1>3, Empty, Codes, Places DEF MainOK
  <2>2. RxOK'
    BY <1>3, Empty, SizeAssumption DEF RxOK
  <2>3. OutOK' /\ CamOK' /\ FaultsOK'
    BY <1>3 DEF Types, OutOK, CamOK, FaultsOK, camVars
  <2> QED  BY <2>1, <2>2, <2>3 DEF Types
<1> QED  BY <1>1, <1>2, <1>3 DEF SetBaudRate

(* Commands that wait for an acknowledgement only. *)
LEMMA SetUpType ==
    ASSUME Types, Initial \/ LightFrequency \/ Snapshot \/ GLcdImage
    PROVE  Types'
<1>1. CASE \/ Command("Initial", INITIAL, "initialPause")
           \/ Command("LightFrequency", LIGHTFREQ, "lightAck")
           \/ Command("Snapshot", SNAPSHOT, "snapAck")
  BY <1>1, CommandType, Codes, Places
<1>2. CASE Pause("initialPause", "initialAck")
  BY <1>2, PauseType, Places
<1>3. CASE \E next \in {"LightFrequency", "Sync", "Snapshot", "GetPicture"} : Go(next)
  BY <1>3, GoType, Places
<1> QED  BY <1>1, <1>2, <1>3 DEF Initial, LightFrequency, Snapshot, GLcdImage

LEMMA GetPictureType == ASSUME Types, GetPictureCommand \/ GetRawPicture  PROVE Types'
<1>1. CASE Command("GetPicture", GETPICTURE, "picAck")
  BY <1>1, CommandType, Codes, Places
<1>2. CASE \E next \in {"Sync", "show"} : Go(next)
  BY <1>2, GoType, Places
<1>3. CASE Expect("picData", FrameLen) /\ Quiet
  BY <1>3, ExpectType, QuietType, Codes, Places DEF Types
<1>4. CASE Answered /\ Expect("pixels", buf[4].b) /\ Quiet
  <2>1. buf[4].b \in Code
    <3>1. buf \in Seq(RxByte) /\ Len(buf) = 4
      BY <1>4, Codes DEF Types, MainOK, Answered
    <3>2. buf[4] \in RxByte
      <4>1. \A j \in 1..Len(buf) : buf[j] \in RxByte
        BY DEF Types, MainOK
      <4>2. 4 \in 1..Len(buf)
        BY ONLY <3>1
      <4> QED  BY ONLY <4>1, <4>2, Zenon
    <3> QED  BY <3>2 DEF RxByte
  <2> QED  BY <1>4, <2>1, ExpectType, QuietType, Places DEF Types
<1>5. CASE Expect("rest", want - Len(buf)) /\ Quiet
  <2>1. want - Len(buf) \in Code
    <3>1. want \in 0..255 /\ Len(buf) <= want /\ Len(buf) \in Nat
      BY DEF Types, MainOK, Code
    <3>2. \A w \in 0..255, l \in Nat : l <= w => w - l \in 0..255
      OBVIOUS
    <3> QED  BY ONLY <3>1, <3>2, Zenon DEF Code
  <2> QED  BY <1>5, <2>1, ExpectType, QuietType, Places DEF Types
<1>6. CASE pc' = "show" /\ UNCHANGED <<buf, want, short, port, rx, camVars, out, faults, cut>>
  <2>1. MainOK'
    BY <1>6, Places DEF Types, MainOK
  <2> QED  BY <1>6, <2>1, QuietType DEF Quiet
<1> QED  BY <1>1, <1>2, <1>3, <1>4, <1>5, <1>6 DEF GetPictureCommand, GetRawPicture

(* What the camera says consists of bytes. *)
LEMMA AnswerType ==
    ASSUME snapped \in BOOLEAN, NEW c \in Code
    PROVE  Answer(c) \in Seq(Code) /\ Frame(NAK, 0, 0) \in Seq(Code)
<1>1. \A x, y, z \in Code : Frame(x, y, z) \in Seq(Code)
  BY Codes DEF Frame
<1>2. Picture(snapped) \in Seq(Code)
  <2>1. PicSize \in Nat /\ \A j \in 1..PicSize : j \in 0..100
    BY SizeAssumption
  <2>2. \A j \in 1..PicSize : Pixel(j) \in Code /\ Pixel(0) \in Code
    BY <2>1, Codes
  <2>3. Picture(snapped) \in [1..PicSize -> Code]
    BY <2>2 DEF Picture
  <2> QED  BY <2>1, <2>3
<1>3. PicSize \in Code
  BY SizeAssumption DEF Code
<1>4. Frame(ACK, c, 0) \in Seq(Code) /\ Frame(SYNC, 0, 0) \in Seq(Code)
      /\ Frame(DATA, 0, PicSize) \in Seq(Code) /\ Frame(NAK, 0, 0) \in Seq(Code)
  BY <1>1, <1>3, Codes
<1>5. \A s, r \in Seq(Code) : s \o r \in Seq(Code)
  OBVIOUS
<1>6. <<>> \in Seq(Code)
  OBVIOUS
<1>7. SYNC # GETPICTURE
  BY DEF SYNC, GETPICTURE
<1> DEFINE more == CASE c = SYNC -> Frame(SYNC, 0, 0)
                     [] c = GETPICTURE -> Frame(DATA, 0, PicSize) \o Picture(snapped)
                     [] OTHER -> <<>>
<1>8. more \in Seq(Code)
  <2>1. CASE c = SYNC
    BY <2>1, <1>4, <1>7
  <2>2. CASE c = GETPICTURE
    <3>1. more = Frame(DATA, 0, PicSize) \o Picture(snapped)
      BY <2>2, <1>7
    <3> QED  BY <3>1, <1>2, <1>4, <1>5
  <2>3. CASE c # SYNC /\ c # GETPICTURE
    BY <2>3, <1>6
  <2> QED  BY <2>1, <2>2, <2>3
<1>9. Answer(c) = Frame(ACK, c, 0) \o more
  BY DEF Answer
<1> HIDE DEF more
<1> QED  BY <1>4, <1>5, <1>8, <1>9

LEMMA HwAnswerType ==
    ASSUME Types, NEW refuse \in BOOLEAN, HwAnswer(refuse)
    PROVE  Types'
<1>1. cmds \in Seq(RxByte) /\ cmds # <<>> /\ Len(cmds) <= CmdDepth /\ CmdDepth \in Nat
  BY SizeAssumption DEF Types, CamOK, HwAnswer
<1>2. Head(cmds) \in RxByte /\ Tail(cmds) \in Seq(RxByte) /\ Len(Tail(cmds)) = Len(cmds) - 1
      /\ Len(cmds) \in Nat
  BY <1>1
<1>3. Head(cmds).b \in Code /\ Head(cmds).new \in BOOLEAN
  BY <1>2 DEF RxByte
<1> DEFINE c == Head(cmds).b
           said == IF refuse THEN Frame(NAK, 0, 0) ELSE Answer(c)
<1>4. said \in Seq(Code)
  BY <1>3, AnswerType DEF Types, CamOK
<1>5. /\ out' = [j \in DOMAIN said |-> [b |-> said[j], new |-> Head(cmds).new, rate |-> rate]]
      /\ rate' = (IF c = BAUDRATE /\ ~refuse THEN Fast ELSE rate)
      /\ snapped' = (IF refuse THEN snapped ELSE (snapped /\ c # GETPICTURE) \/ c = SNAPSHOT)
      /\ cmds' = Tail(cmds)
      /\ UNCHANGED <<mainVars, rx, cut>>
  BY DEF HwAnswer
<1> HIDE DEF said
<1>6. OutOK'
  <2>1. Len(said) \in Nat /\ DOMAIN said = 1..Len(said) /\ \A j \in 1..Len(said) : said[j] \in Code
    BY <1>4
  <2>2. \A x \in Code : [b |-> x, new |-> Head(cmds).new, rate |-> rate] \in OutByte
    BY <1>3 DEF OutByte, Types, CamOK
  <2>3. out' \in [1..Len(said) -> OutByte]
    BY <1>5, <2>1, <2>2
  <2> QED  BY <2>1, <2>3 DEF OutOK
<1>7. rate' \in Rates
  BY <1>5 DEF Types, CamOK, Rates
<1>8. snapped' \in BOOLEAN
  BY <1>5 DEF Types, CamOK
<1>9. cmds' \in Seq(RxByte) /\ Len(cmds') <= CmdDepth
  BY <1>1, <1>2, <1>5
<1>10. faults' \in 0..MaxFaults
  BY FaultType DEF Types, HwAnswer
<1>11. MainOK' /\ RxOK' /\ cut' \in BOOLEAN
  BY <1>5 DEF Types, MainOK, RxOK, FaultsOK, mainVars
<1> QED  BY <1>6, <1>7, <1>8, <1>9, <1>10, <1>11 DEF Types, CamOK, FaultsOK

LEMMA HwByteType ==
    ASSUME Types, NEW lost \in BOOLEAN, HwByte(lost)
    PROVE  Types'
<1> DEFINE f == Head(out)
           stored == ~lost /\ Len(rx) < RxSize
           x == [b |-> IF f.rate = port THEN f.b ELSE Junk, new |-> f.new]
<1>1. out \in Seq(OutByte) /\ out # <<>> /\ rx \in Seq(RxByte) /\ Len(rx) <= RxSize /\ RxSize \in Nat
  BY SizeAssumption DEF Types, OutOK, RxOK, HwByte
<1>2. f \in OutByte /\ Tail(out) \in Seq(OutByte)
  BY <1>1
<1>3. f.b \in Code /\ f.new \in BOOLEAN
  BY <1>2 DEF OutByte
<1>4. /\ rx' = (IF stored THEN Append(rx, x) ELSE rx)
      /\ cut' = (cut \/ ~stored) /\ out' = Tail(out)
      /\ UNCHANGED <<mainVars, camVars>>
  BY DEF HwByte
<1> HIDE DEF f
<1>5. x \in RxByte
  BY <1>3, Codes DEF RxByte
<1> HIDE DEF x
<1>6. RxOK'
  <2>1. Len(Append(rx, x)) = Len(rx) + 1 /\ Append(rx, x) \in Seq(RxByte) /\ Len(rx) \in Nat
    BY <1>1, <1>5
  <2> QED  BY <1>1, <1>4, <2>1 DEF RxOK
<1>7. cut' \in BOOLEAN
  BY <1>4 DEF Types, FaultsOK
<1>8. faults' \in 0..MaxFaults
  BY FaultType DEF Types, HwByte
<1>9. MainOK' /\ OutOK' /\ CamOK'
  BY <1>2, <1>4 DEF Types, MainOK, OutOK, CamOK, mainVars, camVars
<1> QED  BY <1>6, <1>7, <1>8, <1>9 DEF Types, FaultsOK

LEMMA HwPowerType == ASSUME Types, HwPower  PROVE Types'
<1>1. /\ MayFail /\ Fault(TRUE) /\ cmds' = <<>> /\ out' = <<>> /\ rate' = AutoRate
      /\ snapped' = FALSE /\ UNCHANGED <<mainVars, rx, cut>>
  BY DEF HwPower
<1>2. faults' \in 0..MaxFaults
  BY <1>1, FaultType DEF Types
<1>3. CamOK' /\ OutOK'
  <2>1. AutoRate \in Rates /\ 0 <= CmdDepth
    BY SizeAssumption DEF Rates
  <2> QED  BY <1>1, <2>1, Empty DEF CamOK, OutOK
<1>4. MainOK' /\ RxOK' /\ cut' \in BOOLEAN
  BY <1>1 DEF Types, MainOK, RxOK, FaultsOK, mainVars
<1> QED  BY <1>2, <1>3, <1>4 DEF Types, FaultsOK

LEMMA TypesStep == ASSUME Types, [Next]_vars  PROVE Types'
<1>1. CASE UNCHANGED vars
  BY <1>1 DEF Types, MainOK, RxOK, OutOK, CamOK, FaultsOK, vars, mainVars, camVars
<1>2. CASE Main
  BY <1>2, GetchType, TimeoutType, SyncType, SetBaudRateType, SetUpType, GetPictureType DEF Main
<1>3. CASE Hardware
  BY <1>3, HwAnswerType, HwByteType DEF Hardware
<1>4. CASE HwPower
  BY <1>4, HwPowerType
<1> QED  BY <1>1, <1>2, <1>3, <1>4 DEF Next

(* The types, for every size of picture and queue and any number of faults. *)
(* WaitForResponse stores no more bytes than its caller asked for, although *)
(* the size of the picture, which it is asked for, comes from a byte that   *)
(* the camera sent and that may be anything.                                *)
THEOREM TypeCorrect == Spec => []TypeOK
<1>1. Spec => []Types
  BY InitTypes, TypesStep, PTL DEF Spec
<1>2. Types => TypeOK
  BY DEF Types, MainOK, RxOK, CamOK, FaultsOK, TypeOK, PCs, Code, Rates
<1> QED  BY <1>1, <1>2, PTL
=============================================================================
