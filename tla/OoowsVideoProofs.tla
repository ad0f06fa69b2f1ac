-------------------------- MODULE OoowsVideoProofs --------------------------
(***************************************************************************)
(* Proofs about the video bridge (OoowsVideo, src/web-p9/video.py): the   *)
(* type invariant, and DisplayCurrent for every buffer size and every set *)
(* of byte values.                                                         *)
(*                                                                         *)
(* DisplayCurrent is not inductive: a state with an empty socket and a    *)
(* stale display is unreachable only because every notification that     *)
(* could still be pending carries the mode that is now in the cache file. *)
(* The strengthening IInv says so for the notifications in the socket.    *)
(***************************************************************************)
EXTENDS OoowsVideo, TLAPS

(* The browser view of the current mode of the cache file. *)
Render == IF cache = "t" THEN TextMsg(text) ELSE VideoMsg(vram)

Notif == {"t", "v", "x"}

(* Some mode notification ('t' or 'v') is in the byte sequence s. *)
PendingIn(s) == \E j \in 1..Len(s) : s[j] # "x"

(* The last mode notification in s, if any, is m. *)
LastModeIs(s, m) ==
  \A j \in 1..Len(s) :
    (s[j] # "x" /\ \A k \in (j + 1)..Len(s) : s[k] = "x") => s[j] = m

(* Some mode notification is still in the socket. *)
Pending == PendingIn(notifs)

(* The last mode notification in the socket is the mode in the cache     *)
(* file: VmmNotify writes the file before it sends the byte.             *)
LastModeCached == LastModeIs(notifs, cache)

(* With no mode notification pending and nothing written since the last  *)
(* one, the browser shows the current mode's buffer.                      *)
ShownCurrent ==
  (status = "running" /\ ~dirty /\ ~Pending /\ cache # "none") => shown = Render

IInv == TypeOK /\ LastModeCached /\ ShownCurrent

-----------------------------------------------------------------------------
(* The rendered messages. *)

Word == [ch : 0..255, attr : 0..255]

TextData == [1..NCells -> RenderedCell]

VideoData == [size : {HeaderLen + NPix}, px : [1..NPix -> Pixels]]

(* A cell whose colour lookups succeed renders as a non-null character    *)
(* and two colour keys: the null-to-space replacement leaves no 0.        *)
LEMMA DecodeType ==
  ASSUME NEW c \in Word, Decodable(c)
  PROVE  Decode(c) \in RenderedCell
<1>1. PICK a \in 0..255, b \in 0..255 : a = c.ch /\ b = c.attr
  BY DEF Word
<1>2. Short(c) = IF a + 256 * b >= 32768 THEN a + 256 * b - 65536 ELSE a + 256 * b
  BY <1>1 DEF Short
<1>3. Short(c) % 256 \in 0..255
  BY <1>2
<1>4. (IF Short(c) % 256 = 0 THEN Space ELSE Short(c) % 256) \in (0..255) \ {0}
  BY <1>3 DEF Space
<1>5. QED
  BY <1>4 DEF Decodable, Decode, RenderedCell

(* parseTextMem of a buffer it does not fail on. *)
LEMMA TextMsgType ==
  ASSUME NEW t \in [1..NCells -> Word], TextOk(t)
  PROVE  TextMsg(t) \in [mode : {"text"}, data : TextData]
<1>1. ParseTextMem(t) \in TextData
  BY DecodeType DEF TextOk, ParseTextMem, TextData
<1>2. QED
  BY <1>1 DEF TextMsg

(* parseVideoMem: the header length and the buffer. *)
LEMMA VideoMsgType ==
  ASSUME NEW v \in [1..NPix -> Pixels]
  PROVE  VideoMsg(v) \in [mode : {"video"}, data : VideoData]
BY DEF VideoMsg, ParseVideoMem, VideoData

-----------------------------------------------------------------------------
(* Type correctness. *)

(* The zeroed buffers of a fresh shared memory are well typed. *)
LEMMA TypeInit == Init => TypeOK
<1> SUFFICES ASSUME Init PROVE TypeOK
  OBVIOUS
<1>1. (CHOOSE x \in Pixels : TRUE) \in Pixels
  BY VideoAssumption
<1>2. text \in [1..NCells -> Word]
  BY DEF Init, Word
<1>3. vram \in [1..NPix -> Pixels]
  BY <1>1 DEF Init
<1>4. writes \in 0..MaxWrites
  BY VideoAssumption DEF Init
<1>5. shown \in {[mode |-> "none"]}
  BY DEF Init
<1>6. notifs \in Seq({"t", "v", "x"})
  BY DEF Init
<1>7. QED
  BY <1>2, <1>3, <1>4, <1>5, <1>6 DEF Init, TypeOK, Word

(* TypeOK with the messages the bridge may have shown named as one set. *)
ShownOK == {[mode |-> "none"]} \cup [mode : {"text"}, data : TextData]
                               \cup [mode : {"video"}, data : VideoData]

TypeParts ==
  /\ text \in [1..NCells -> Word]
  /\ vram \in [1..NPix -> Pixels]
  /\ cache \in {"none", "t", "v"}
  /\ notifs \in Seq({"t", "v", "x"})
  /\ open \in BOOLEAN /\ dirty \in BOOLEAN
  /\ writes \in 0..MaxWrites
  /\ status \in {"running", "done", "crashed"}
  /\ shown \in ShownOK

LEMMA TypeOKParts == TypeOK => TypeParts
BY DEF TypeOK, TypeParts, ShownOK, Word, TextData, VideoData

LEMMA TypePartsOK == TypeParts' => TypeOK'
BY DEF TypeOK, TypeParts, ShownOK, Word, TextData, VideoData

(* Every step, of the VMM, videoTx or refresh, keeps the types. *)
LEMMA TypeStep == TypeOK /\ [Next]_vars => TypeOK'
<1> SUFFICES ASSUME TypeOK, [Next]_vars PROVE TypeParts'
  BY TypePartsOK
<1>0. TypeParts
  BY TypeOKParts
<1> USE VideoAssumption, <1>0 DEF TypeParts
<1>1. ASSUME NEW i \in 1..NCells, NEW c \in Cells, VmmPutCell(i, c) PROVE TypeParts'
  <2>1. c \in Word
    BY DEF Cells, Word
  <2>2. text' \in [1..NCells -> Word]
    BY <1>1, <2>1 DEF VmmPutCell
  <2>3. QED
    BY <1>1, <2>2 DEF VmmPutCell
<1>2. ASSUME NEW i \in 1..NPix, NEW x \in Pixels, VmmPutPixel(i, x) PROVE TypeParts'
  BY <1>2 DEF VmmPutPixel
<1>3. ASSUME NEW k \in {"t", "v", "x"}, VmmNotify(k) PROVE TypeParts'
  BY <1>3 DEF VmmNotify
<1>4. CASE VmmClose
  BY <1>4 DEF VmmClose
<1>5. CASE RecvText
  <2>1. CASE TextOk(text)
    <3>1. TextMsg(text) \in ShownOK
      BY <2>1, TextMsgType DEF ShownOK
    <3>2. QED
      BY <1>5, <2>1, <3>1 DEF RecvText
  <2>2. CASE ~TextOk(text)
    BY <1>5, <2>2 DEF RecvText
  <2>3. QED
    BY <2>1, <2>2
<1>6. CASE RecvVideo
  <2>1. VideoMsg(vram) \in ShownOK
    BY VideoMsgType DEF ShownOK
  <2>2. QED
    BY <1>6, <2>1 DEF RecvVideo
<1>7. CASE RecvOther
  BY <1>7 DEF RecvOther
<1>8. CASE RecvEof
  BY <1>8 DEF RecvEof
<1>9. CASE Refresh
  <2>1. TextOk(text) => TextMsg(text) \in ShownOK
    BY TextMsgType DEF ShownOK
  <2>2. VideoMsg(vram) \in ShownOK
    BY VideoMsgType DEF ShownOK
  <2>3. CASE cache = "t" /\ TextOk(text) /\ shown' = TextMsg(text)
    BY <1>9, <2>1, <2>3 DEF Refresh
  <2>4. CASE cache = "v" /\ shown' = VideoMsg(vram)
    BY <1>9, <2>2, <2>4 DEF Refresh
  <2>5. QED
    BY <1>9, <2>3, <2>4 DEF Refresh
<1>10. CASE UNCHANGED vars
  BY <1>10 DEF vars
<1>11. QED
  BY <1>1, <1>2, <1>3, <1>4, <1>5, <1>6, <1>7, <1>8, <1>9, <1>10 DEF Next

(* Every reachable state of the bridge has the types of TypeOK: the       *)
(* buffers keep their sizes and byte ranges, and videoTx and refresh only *)
(* ever emit a message that renders every cell of the text buffer or the  *)
(* whole pixel buffer.                                                    *)
THEOREM VideoTypeCorrect == Spec => []TypeOK
BY TypeInit, TypeStep, PTL DEF Spec

-----------------------------------------------------------------------------
(* The socket's byte sequence: what a send (Append) and a recv(1) (Tail)  *)
(* do to the pending notifications and to the last mode among them.      *)

(* recv(1) of a byte leaves the last mode of the rest as it was. *)
LEMMA TailLastMode ==
  ASSUME NEW s \in Seq(Notif), s # <<>>, NEW m, LastModeIs(s, m)
  PROVE  LastModeIs(Tail(s), m)
<1>1. Len(Tail(s)) = Len(s) - 1 /\ \A j \in 1..Len(s) - 1 : Tail(s)[j] = s[j + 1]
  OBVIOUS
<1>2. QED
  <2> SUFFICES ASSUME NEW j \in 1..Len(Tail(s)), Tail(s)[j] # "x",
                      \A k \in (j + 1)..Len(Tail(s)) : Tail(s)[k] = "x"
               PROVE  Tail(s)[j] = m
    BY DEF LastModeIs
  <2>1. \A k \in (j + 2)..Len(s) : s[k] = "x"
    <3> SUFFICES ASSUME NEW k \in (j + 2)..Len(s) PROVE s[k] = "x"
      OBVIOUS
    <3>1. k - 1 \in (j + 1)..Len(Tail(s)) /\ Tail(s)[k - 1] = s[k]
      BY <1>1
    <3>2. QED
      BY <3>1
  <2>2. s[j + 1] # "x"
    BY <1>1
  <2>3. s[j + 1] = m
    BY <1>1, <2>1, <2>2 DEF LastModeIs
  <2>4. QED
    BY <1>1, <2>3

(* A mode byte received with no mode byte behind it is the last mode. *)
LEMMA HeadLastMode ==
  ASSUME NEW s \in Seq(Notif), s # <<>>, NEW m, LastModeIs(s, m),
         Head(s) # "x", ~PendingIn(Tail(s))
  PROVE  Head(s) = m
<1>1. Len(Tail(s)) = Len(s) - 1 /\ \A j \in 1..Len(s) - 1 : Tail(s)[j] = s[j + 1]
  OBVIOUS
<1>2. \A k \in 2..Len(s) : s[k] = "x"
  BY <1>1 DEF PendingIn
<1>3. QED
  BY <1>2 DEF LastModeIs

(* recv(1) of an 'x' byte leaves the pending mode bytes as they were. *)
LEMMA TailPending ==
  ASSUME NEW s \in Seq(Notif), s # <<>>, Head(s) = "x"
  PROVE  PendingIn(Tail(s)) <=> PendingIn(s)
<1>1. Len(Tail(s)) = Len(s) - 1 /\ \A j \in 1..Len(s) - 1 : Tail(s)[j] = s[j + 1]
  OBVIOUS
<1>2. PendingIn(s) => PendingIn(Tail(s))
  <2> SUFFICES ASSUME NEW j \in 1..Len(s), s[j] # "x" PROVE PendingIn(Tail(s))
    BY DEF PendingIn
  <2>1. j # 1
    OBVIOUS
  <2>2. j - 1 \in 1..Len(Tail(s)) /\ Tail(s)[j - 1] = s[j]
    BY <1>1, <2>1
  <2>3. QED
    BY <2>2 DEF PendingIn
<1>3. PendingIn(Tail(s)) => PendingIn(s)
  BY <1>1 DEF PendingIn
<1>4. QED
  BY <1>2, <1>3

(* Sending an 'x' byte changes neither the last mode nor what is pending. *)
LEMMA AppendOther ==
  ASSUME NEW s \in Seq(Notif), NEW m, LastModeIs(s, m)
  PROVE  /\ LastModeIs(Append(s, "x"), m)
         /\ PendingIn(Append(s, "x")) <=> PendingIn(s)
<1>1. Len(Append(s, "x")) = Len(s) + 1 /\ Append(s, "x")[Len(s) + 1] = "x"
      /\ \A j \in 1..Len(s) : Append(s, "x")[j] = s[j]
  OBVIOUS
<1>2. LastModeIs(Append(s, "x"), m)
  BY <1>1 DEF LastModeIs
<1>3. QED
  BY <1>1, <1>2 DEF PendingIn

(* Sending a mode byte makes it the last mode, and pending. *)
LEMMA AppendMode ==
  ASSUME NEW s \in Seq(Notif), NEW k \in {"t", "v"}
  PROVE  LastModeIs(Append(s, k), k) /\ PendingIn(Append(s, k))
<1>1. Len(Append(s, k)) = Len(s) + 1 /\ Append(s, k)[Len(s) + 1] = k
  OBVIOUS
<1>2. LastModeIs(Append(s, k), k)
  BY <1>1 DEF LastModeIs
<1>3. QED
  BY <1>1, <1>2 DEF PendingIn

-----------------------------------------------------------------------------
(* DisplayCurrent. *)

LEMMA IInvInit == Init => IInv
<1> SUFFICES ASSUME Init PROVE IInv
  OBVIOUS
<1>1. LastModeCached /\ ~Pending
  BY DEF Init, LastModeCached, LastModeIs, Pending, PendingIn
<1>2. QED
  BY <1>1, TypeInit DEF IInv, ShownCurrent, Init

(* Every step keeps the socket's last mode equal to the cache file's, and *)
(* keeps the display current once nothing is pending.                    *)
LEMMA IInvStep == IInv /\ [Next]_vars => IInv'
<1> SUFFICES ASSUME IInv, [Next]_vars PROVE IInv'
  OBVIOUS
<1>0. TypeOK /\ TypeOK' /\ LastModeCached /\ ShownCurrent /\ notifs \in Seq(Notif)
  BY TypeStep DEF IInv, TypeOK, Notif
<1> SUFFICES LastModeCached' /\ ShownCurrent'
  BY <1>0 DEF IInv
<1>1. ASSUME NEW i \in 1..NCells, NEW c \in Cells, VmmPutCell(i, c)
      PROVE LastModeCached' /\ ShownCurrent'
  BY <1>0, <1>1 DEF VmmPutCell, LastModeCached, ShownCurrent
<1>2. ASSUME NEW i \in 1..NPix, NEW x \in Pixels, VmmPutPixel(i, x)
      PROVE LastModeCached' /\ ShownCurrent'
  BY <1>0, <1>2 DEF VmmPutPixel, LastModeCached, ShownCurrent
<1>3. ASSUME NEW k \in Notif, VmmNotify(k)
      PROVE LastModeCached' /\ ShownCurrent'
  <2>1. CASE k = "x"
    <3>1. LastModeIs(notifs', cache') /\ (Pending' <=> Pending)
      BY <1>0, <1>3, <2>1, AppendOther DEF VmmNotify, LastModeCached, Pending
    <3>2. Render' = Render
      BY <1>3, <2>1 DEF VmmNotify, Render
    <3>3. QED
      BY <1>0, <1>3, <2>1, <3>1, <3>2 DEF VmmNotify, LastModeCached, ShownCurrent
  <2>2. CASE k # "x"
    <3>1. k \in {"t", "v"} /\ cache' = k
      BY <1>3, <2>2 DEF VmmNotify, Notif
    <3>2. LastModeIs(notifs', cache') /\ Pending'
      BY <1>0, <1>3, <3>1, AppendMode DEF VmmNotify, Pending
    <3>3. QED
      BY <3>2 DEF LastModeCached, ShownCurrent
  <2>3. QED
    BY <2>1, <2>2
<1>4. CASE VmmClose
  BY <1>0, <1>4 DEF VmmClose, LastModeCached, ShownCurrent, Pending, Render
<1>5. ASSUME NEW m \in {"t", "v"}, notifs # <<>>, Head(notifs) = m, notifs' = Tail(notifs),
             cache' = cache, status' \in {status, "crashed"},
             status' = "running" => shown' = IF m = "t" THEN TextMsg(text') ELSE VideoMsg(vram'),
             UNCHANGED <<text, vram, dirty>>
      PROVE  LastModeCached' /\ ShownCurrent'
  <2>1. LastModeCached'
    BY <1>0, <1>5, TailLastMode DEF LastModeCached
  <2>2. ASSUME status' = "running", ~dirty', ~Pending', cache' # "none"
        PROVE  shown' = Render'
    <3>1. m = cache
      BY <1>0, <1>5, <2>2, HeadLastMode DEF LastModeCached, Pending
    <3>2. QED
      BY <1>5, <2>2, <3>1 DEF Render
  <2>3. QED
    BY <2>1, <2>2 DEF ShownCurrent
<1>6. CASE RecvText
  <2>1. CASE TextOk(text)
    BY <1>5, <1>6, <2>1 DEF RecvText
  <2>2. CASE ~TextOk(text)
    BY <1>5, <1>6, <2>2 DEF RecvText
  <2>3. QED
    BY <2>1, <2>2
<1>7. CASE RecvVideo
  BY <1>5, <1>7 DEF RecvVideo
<1>8. CASE RecvOther
  <2>1. LastModeCached' /\ (Pending' <=> Pending)
    BY <1>0, <1>8, TailLastMode, TailPending DEF RecvOther, LastModeCached, Pending
  <2>2. QED
    BY <1>0, <1>8, <2>1 DEF RecvOther, ShownCurrent, Render
<1>9. CASE RecvEof
  BY <1>0, <1>9 DEF RecvEof, LastModeCached, ShownCurrent
<1>10. CASE Refresh
  <2>1. shown' = Render'
    BY <1>10 DEF Refresh, Render
  <2>2. QED
    BY <1>0, <1>10, <2>1 DEF Refresh, LastModeCached, ShownCurrent, Pending
<1>11. CASE UNCHANGED vars
  BY <1>0, <1>11 DEF vars, LastModeCached, ShownCurrent, Pending, Render
<1>12. QED
  BY <1>1, <1>2, <1>3, <1>4, <1>6, <1>7, <1>8, <1>9, <1>10, <1>11 DEF Next, Notif

(* Whenever videoTx is running, has received every notification, and the *)
(* VMM has written nothing since its last one, the browser shows the     *)
(* current contents of the cache file's mode (video.py videoTx and       *)
(* refresh render shared memory when they run): for every buffer size    *)
(* and every set of byte values.                                          *)
THEOREM DisplayCurrentHolds == Spec => []DisplayCurrent
<1>1. IInv => DisplayCurrent
  BY DEF IInv, ShownCurrent, Pending, PendingIn, DisplayCurrent, Render
<1>2. QED
  BY IInvInit, IInvStep, <1>1, PTL DEF Spec

=============================================================================
