----------------------------- MODULE FlashCache -----------------------------
(***************************************************************************)
(* The read-ahead window of fw/src/flash.rs over the chip's flash.  Both   *)
(* users of the flash - the key-value store and the calibration - go       *)
(* through it, one whole operation at a time: nothing in it awaits.        *)
(***************************************************************************)
EXTENDS Integers

CONSTANTS
  Capacity,    \* FLASH_CAPACITY
  Window,      \* READ_AHEAD_WINDOW
  Values,      \* what a cell can hold
  Erased,      \* what an erased cell holds
  Reads,       \* external: the reads of the two users, as [at, len]
  Writes,      \* external: where they write, as [at, len]
  Erases       \* external: what they erase, as [at, len]

Cells == 0..(Capacity - 1)
Slots == 0..(Window - 1)
None == -1

Spans == [at: Cells, len: Nat \ {0}]
Inside(s) == s.at + s.len <= Capacity

\* sequential-storage reads inside one page, and pages divide the window; a longer
\* read is longer than the window.
ASSUME FlashLayout ==
  /\ Capacity \in Nat \ {0} /\ Window \in Nat \ {0}
  /\ Erased \in Values
  /\ Reads \subseteq Spans /\ Writes \subseteq Spans /\ Erases \subseteq Spans
  /\ \A s \in Reads \cup Writes \cup Erases : Inside(s)
  /\ \A r \in Reads : r.len <= Window => (r.at % Window) + r.len <= Window

VARIABLES
  flash,   \* the chip
  window,  \* the offset buf holds, or None
  buf,
  answer,  \* the last operation: "none", "ok", "error", or a read's: "true", "false", "panic"
  \* what the properties need to know of the past
  fouled   \* a fill failed, and the buffer has not been filled or given up since

flashVars == <<flash, window, buf, answer, fouled>>

FlashInit ==
  /\ flash \in [Cells -> Values]
  /\ window = None
  /\ buf \in [Slots -> {Erased}]
  /\ answer = "none"
  /\ fouled = FALSE

-----------------------------------------------------------------------------
\* Mutant: the end of the read is not compared with the end of the window.
CoversStart(r) == window # None /\ r.at >= window /\ r.at - window < Window

\* ReadAhead::covers
Covers(r) == window # None /\ r.at >= window /\ (r.at - window) + r.len <= Window

\* ReadAhead::serve out of the buffer b that holds the window w.
Serve(r, w, b) ==
  IF r.at < w \/ (r.at - w) + r.len > Window THEN "panic"
  ELSE IF \A i \in 0..(r.len - 1) : b[(r.at - w) + i] = flash[r.at + i] THEN "true"
  ELSE "false"

ReadHit(r) ==
  /\ Covers(r)
  /\ answer' = Serve(r, window, buf)
  /\ UNCHANGED <<flash, window, buf, fouled>>

\* Mutant: the boundary above.
AnchorAbove(r) == r.at + (Window - (r.at % Window))
Anchor(r) == r.at - (r.at % Window)

\* The slots that a fill at w overwrites: the last window may be cut short.
Filled(w) == {i \in Slots : w + i < Capacity}

\* A read that fits the window fills it at the boundary below.
ReadFill(r) ==
  /\ ~Covers(r) /\ r.len <= Window
  /\ buf' = [i \in Slots |-> IF i \in Filled(Anchor(r)) THEN flash[Anchor(r) + i] ELSE buf[i]]
  /\ window' = Anchor(r)
  /\ answer' = Serve(r, Anchor(r), buf')
  /\ fouled' = FALSE
  /\ UNCHANGED flash

\* The flash fails on the way: what came goes into the buffer all the same.
ReadFillFails(r) ==
  /\ ~Covers(r) /\ r.len <= Window
  /\ \E n \in 0..Window :
       buf' = [i \in Slots |-> IF i < n /\ i \in Filled(Anchor(r)) THEN flash[Anchor(r) + i] ELSE buf[i]]
  /\ answer' = "error"
  /\ fouled' = TRUE
  /\ UNCHANGED <<flash, window>>

\* Too big for the buffer: straight through.
ReadThrough(r) ==
  /\ ~Covers(r) /\ r.len > Window
  /\ answer' = "true"
  /\ UNCHANGED <<flash, window, buf, fouled>>

Read == \E r \in Reads : ReadHit(r) \/ ReadFill(r) \/ ReadFillFails(r) \/ ReadThrough(r)

In(c, s) == c >= s.at /\ c < s.at + s.len

\* The chip takes new contents for a span, whole, or up to the cell where it fails.
Put(s, new) ==
  \E n \in 0..s.len :
    /\ flash' = [c \in Cells |-> IF In(c, s) /\ c < s.at + n THEN new[c] ELSE flash[c]]
    /\ answer' = IF n = s.len THEN "ok" ELSE "error"

\* The window goes before the flash is touched, so a failure finds it gone.
Erase ==
  /\ window' = None
  /\ \E s \in Erases : Put(s, [c \in Cells |-> Erased])
  /\ fouled' = FALSE
  /\ UNCHANGED buf

\* Mutant: the window goes only when the write succeeds.
WriteLateInvalidate ==
  /\ \E s \in Writes, v \in Values : Put(s, [c \in Cells |-> v])
  /\ window' = IF answer' = "ok" THEN None ELSE window
  /\ fouled' = FALSE
  /\ UNCHANGED buf

Write ==
  /\ window' = None
  /\ \E s \in Writes, v \in Values : Put(s, [c \in Cells |-> v])
  /\ fouled' = FALSE
  /\ UNCHANGED buf

FlashNext == Read \/ Erase \/ Write

FlashSpec == FlashInit /\ [][FlashNext]_flashVars

-----------------------------------------------------------------------------
FlashTypeOK ==
  /\ flash \in [Cells -> Values]
  /\ window \in Cells \cup {None}
  /\ buf \in [Slots -> Values]
  /\ answer \in {"none", "ok", "error", "true", "false", "panic"}
  /\ fouled \in BOOLEAN

Coherent == window # None => \A i \in Filled(window) : buf[i] = flash[window + i]

(* The window holds what the flash holds, through failed writes and erases    *)
(* too (flash.rs: "a scanner can never hold a stale window across someone     *)
(* else's write"), until a fill fails; the next fill, write or erase makes it *)
(* true again.                                                                *)
WindowCoherent == ~fouled => Coherent

(* A read that succeeds returns what the flash holds, unless a fill has       *)
(* failed since the window was last filled or given up (flash.rs, read).      *)
ReadsTheFlash == answer = "false" => fouled

(* No read of the two users runs over the end of the buffer (flash.rs, serve: *)
(* the slice index would panic).                                              *)
ReadsInBounds == answer # "panic"
=============================================================================
