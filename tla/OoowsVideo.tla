----------------------------- MODULE OoowsVideo -----------------------------
(***************************************************************************)
(* The web front end's video bridge (src/web-p9/video.py). The VMM keeps  *)
(* the guest's VGA text buffer and pixel buffer in shared memory, records *)
(* the current mode in the file vga-notifs-cache and sends one byte per   *)
(* update on the vga-notifs socket: 't' (text) or 'v' (video). videoTx    *)
(* reads those bytes one at a time and pushes a rendering of the buffer   *)
(* to the browser; refresh renders the mode of the cache file on demand.  *)
(*                                                                         *)
(* The VMM is outside the repository: its actions below are the           *)
(* environment, any sequence of buffer writes and notifications.          *)
(* A text cell is the 16-bit little-endian word (char byte, attribute     *)
(* byte), which parseTextMem reads with struct.unpack("h"), signed.       *)
(***************************************************************************)
EXTENDS Integers, Sequences

CONSTANTS
  NCells,     \* cells of the text buffer
  NPix,       \* bytes of the pixel buffer
  Chars,      \* character bytes the guest writes
  Attrs,      \* attribute bytes the guest writes
  Pixels,     \* pixel byte values
  MaxWrites,  \* bound on the VMM's buffer writes
  MaxNotifs   \* bound on the notification bytes in the socket

ASSUME VideoAssumption ==
  /\ NCells \in Nat \ {0} /\ NPix \in Nat \ {0}
  /\ Chars \subseteq 0..255 /\ Attrs \subseteq 0..255 /\ Pixels \subseteq 0..255
  /\ Chars # {} /\ Attrs # {} /\ Pixels # {}
  /\ MaxWrites \in Nat /\ MaxNotifs \in Nat

VARIABLES
  text,     \* text[i]: the (char, attribute) bytes of cell i in shared memory
  vram,     \* vram[i]: byte i of the pixel buffer in shared memory
  cache,    \* the mode in vga-notifs-cache: "none" (no file yet), "t" or "v"
  notifs,   \* notification bytes in the socket, not yet received
  open,     \* the VMM end of the socket is open
  dirty,    \* the VMM has written a buffer since its last notification
  writes,   \* buffer writes so far (bounded)
  status,   \* videoTx: "running", "done" (recv returned b"") or "crashed"
  shown     \* the last message emitted to the browser

vars == <<text, vram, cache, notifs, open, dirty, writes, status, shown>>

-----------------------------------------------------------------------------
(* parseTextMem, one cell. *)

Space == 32

(* struct.unpack("h", ...): the word read as a signed 16-bit integer. *)
Short(c) == LET u == c.ch + 256 * c.attr IN IF u >= 32768 THEN u - 65536 ELSE u

(* The colour maps have the keys 0x0 .. 0xf. *)
ColorKeys == 0..15

(* cbytes, fcolor and bcolor as the loop body computes them. Python's &   *)
(* and >> on a negative int are % and floor division.                     *)
Decode(c) ==
  LET s == Short(c)
      cb == s % 256
      ab == s \div 256
  IN  [ch |-> IF cb = 0 THEN Space ELSE cb, fg |-> ab % 16, bg |-> ab \div 16]

(* The lookups bcolor_map[bcolor] and fcolor_map[fcolor] succeed. *)
Decodable(c) == Decode(c).fg \in ColorKeys /\ Decode(c).bg \in ColorKeys

(* parseTextMem: the whole buffer, or an exception at the first bad cell. *)
TextOk(t) == \A i \in 1..NCells : Decodable(t[i])

ParseTextMem(t) == [i \in 1..NCells |-> Decode(t[i])]

(* parseVideoMem: the 1078-byte BMP header, then the buffer; the size    *)
(* field is the length of the whole.                                      *)
HeaderLen == 1078

ParseVideoMem(v) == [size |-> HeaderLen + NPix, px |-> v]

TextMsg(t) == [mode |-> "text", data |-> ParseTextMem(t)]

VideoMsg(v) == [mode |-> "video", data |-> ParseVideoMem(v)]

-----------------------------------------------------------------------------
Cells == [ch : Chars, attr : Attrs]

RenderedCell == [ch : (0..255) \ {0}, fg : ColorKeys, bg : ColorKeys]

TypeOK ==
  /\ text \in [1..NCells -> [ch : 0..255, attr : 0..255]]
  /\ vram \in [1..NPix -> Pixels]
  /\ cache \in {"none", "t", "v"}
  /\ notifs \in Seq({"t", "v", "x"})
  /\ open \in BOOLEAN /\ dirty \in BOOLEAN
  /\ writes \in 0..MaxWrites
  /\ status \in {"running", "done", "crashed"}
  /\ shown \in {[mode |-> "none"]}
               \cup [mode : {"text"}, data : [1..NCells -> RenderedCell]]
               \cup [mode : {"video"}, data : [size : {HeaderLen + NPix}, px : [1..NPix -> Pixels]]]

(* videoTx has connected to vga-notifs (the shared memory exists, zeroed). *)
Init ==
  /\ text = [i \in 1..NCells |-> [ch |-> 0, attr |-> 0]]
  /\ vram = [i \in 1..NPix |-> CHOOSE x \in Pixels : TRUE]
  /\ cache = "none"
  /\ notifs = <<>>
  /\ open = TRUE /\ dirty = FALSE
  /\ writes = 0
  /\ status = "running"
  /\ shown = [mode |-> "none"]

-----------------------------------------------------------------------------
(* The VMM (environment). *)

VmmPutCell(i, c) ==
  /\ open /\ writes < MaxWrites
  /\ text' = [text EXCEPT ![i] = c]
  /\ dirty' = TRUE /\ writes' = writes + 1
  /\ UNCHANGED <<vram, cache, notifs, open, status, shown>>

VmmPutPixel(i, x) ==
  /\ open /\ writes < MaxWrites
  /\ vram' = [vram EXCEPT ![i] = x]
  /\ dirty' = TRUE /\ writes' = writes + 1
  /\ UNCHANGED <<text, cache, notifs, open, status, shown>>

(* An update notification: the cache file, then the byte on the socket;   *)
(* "x" is any other byte.                                                 *)
VmmNotify(k) ==
  /\ open /\ Len(notifs) < MaxNotifs
  /\ notifs' = Append(notifs, k)
  /\ cache' = IF k = "x" THEN cache ELSE k
  /\ dirty' = (dirty /\ k = "x")
  /\ UNCHANGED <<text, vram, open, writes, status, shown>>

VmmClose ==
  /\ open
  /\ open' = FALSE
  /\ UNCHANGED <<text, vram, cache, notifs, dirty, writes, status, shown>>

-----------------------------------------------------------------------------
(* videoTx: one iteration of its loop. recv(1) blocks until a byte or EOF. *)

(* Mutant: the text branch without the null-to-space replacement. *)
RecvNoSpace ==
  /\ status = "running" /\ notifs # <<>> /\ Head(notifs) = "t" /\ TextOk(text)
  /\ notifs' = Tail(notifs)
  /\ shown' = [mode |-> "text", data |-> [i \in 1..NCells |-> [Decode(text[i]) EXCEPT !.ch = text[i].ch]]]
  /\ UNCHANGED <<text, vram, cache, open, dirty, writes, status>>

(* A text update: parseTextMem; a KeyError ends the thread. *)
RecvText ==
  /\ status = "running" /\ notifs # <<>> /\ Head(notifs) = "t"
  /\ notifs' = Tail(notifs)
  /\ IF TextOk(text)
       THEN shown' = TextMsg(text) /\ status' = status
       ELSE shown' = shown /\ status' = "crashed"
  /\ UNCHANGED <<text, vram, cache, open, dirty, writes>>

(* Mutant: a video update rendered from the text buffer. *)
RecvVideoAsText ==
  /\ status = "running" /\ notifs # <<>> /\ Head(notifs) = "v"
  /\ notifs' = Tail(notifs)
  /\ IF TextOk(text)
       THEN shown' = TextMsg(text) /\ status' = status
       ELSE shown' = shown /\ status' = "crashed"
  /\ UNCHANGED <<text, vram, cache, open, dirty, writes>>

(* A video update: parseVideoMem. *)
RecvVideo ==
  /\ status = "running" /\ notifs # <<>> /\ Head(notifs) = "v"
  /\ notifs' = Tail(notifs)
  /\ shown' = VideoMsg(vram)
  /\ UNCHANGED <<text, vram, cache, open, dirty, writes, status>>

(* Any other byte: continue. *)
RecvOther ==
  /\ status = "running" /\ notifs # <<>> /\ Head(notifs) = "x"
  /\ notifs' = Tail(notifs)
  /\ UNCHANGED <<text, vram, cache, open, dirty, writes, status, shown>>

(* recv returns b"": the thread returns. *)
RecvEof ==
  /\ status = "running" /\ notifs = <<>> /\ ~open
  /\ status' = "done"
  /\ UNCHANGED <<text, vram, cache, notifs, open, dirty, writes, shown>>

(* refresh, from a request handler: the mode of the cache file, rendered  *)
(* now. A missing file or a KeyError fails the request and emits nothing. *)
Refresh ==
  /\ \/ cache = "t" /\ TextOk(text) /\ shown' = TextMsg(text)
     \/ cache = "v" /\ shown' = VideoMsg(vram)
  /\ UNCHANGED <<text, vram, cache, notifs, open, dirty, writes, status>>

Next ==
  \/ \E i \in 1..NCells, c \in Cells : VmmPutCell(i, c)
  \/ \E i \in 1..NPix, x \in Pixels : VmmPutPixel(i, x)
  \/ \E k \in {"t", "v", "x"} : VmmNotify(k)
  \/ VmmClose
  \/ RecvText \/ RecvVideo \/ RecvOther \/ RecvEof
  \/ Refresh

Spec == Init /\ [][Next]_vars

-----------------------------------------------------------------------------
(* Once videoTx has received every notification and the VMM has written   *)
(* nothing since its last one, the browser shows the current contents of  *)
(* the buffer of the current mode (videoTx and refresh render the shared  *)
(* memory when they run, not when the notification was sent).            *)
DisplayCurrent ==
  (status = "running" /\ notifs = <<>> /\ ~dirty /\ cache # "none")
    => shown = IF cache = "t" THEN TextMsg(text) ELSE VideoMsg(vram)

=============================================================================
