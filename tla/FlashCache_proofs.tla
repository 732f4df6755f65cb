-------------------------- MODULE FlashCache_proofs --------------------------
(***************************************************************************)
(* FlashCache for every size of flash and window.  No read runs over the   *)
(* end of the buffer, and - from any fill, write or erase on, until a fill *)
(* fails - the window is what the flash holds, so every read returns that. *)
(***************************************************************************)
EXTENDS FlashCache, TLAPS

(* The boundary below a read is a cell, and the read begins in its window. *)
LEMMA AnchorFacts ==
  ASSUME NEW r \in Reads
  PROVE  /\ Anchor(r) \in Cells /\ Anchor(r) <= r.at
         /\ r.len <= Window => (r.at - Anchor(r)) + r.len <= Window
<1>1. r.at \in Nat /\ r.at < Capacity /\ Window \in Nat \ {0} /\ Capacity \in Nat
  BY FlashLayout DEF Spans, Cells
<1>2. r.at % Window \in 0..(Window - 1) /\ r.at % Window <= r.at
  BY <1>1, SMTT(30)
<1>3. r.len <= Window => (r.at % Window) + r.len <= Window
  BY FlashLayout
<1> QED
  BY <1>1, <1>2, <1>3 DEF Anchor, Cells

(* A read is a span of cells that ends inside the flash.                      *)
LEMMA SpanFacts ==
  ASSUME NEW r \in Reads
  PROVE  r.at \in Nat /\ r.len \in Nat /\ r.len > 0 /\ r.at + r.len <= Capacity
BY FlashLayout DEF Spans, Cells, Inside

(* The chip keeps its type whatever is put into it. *)
LEMMA PutType ==
  ASSUME NEW s, NEW new \in [Cells -> Values], FlashTypeOK, Put(s, new)
  PROVE  flash' \in [Cells -> Values] /\ answer' \in {"ok", "error"}
BY DEF Put, FlashTypeOK

(* The type invariant holds at first.                                         *)
LEMMA InitType == FlashInit => FlashTypeOK
BY FlashLayout DEF FlashInit, FlashTypeOK, None

(* What serving a read can come to.                                           *)
LEMMA ServeType == \A r, w, b : Serve(r, w, b) \in {"true", "false", "panic"}
BY DEF Serve

(* A read keeps the type invariant.                                           *)
LEMMA ReadType == FlashTypeOK /\ Read => FlashTypeOK'
<1> SUFFICES ASSUME FlashTypeOK, NEW r \in Reads, ReadHit(r) \/ ReadFill(r) \/ ReadFillFails(r) \/ ReadThrough(r)
             PROVE  FlashTypeOK'
  BY DEF Read
<1>0. \A i \in Filled(Anchor(r)) : Anchor(r) + i \in Cells
  BY AnchorFacts, FlashLayout DEF Filled, Cells, Slots
<1>1. CASE ReadHit(r)
  BY <1>1, ServeType DEF ReadHit, FlashTypeOK
<1>2. CASE ReadFill(r)
  <2>1. buf' \in [Slots -> Values]
    BY <1>0, <1>2 DEF ReadFill, FlashTypeOK
  <2>2. window' \in Cells /\ answer' \in {"true", "false", "panic"} /\ flash' = flash /\ fouled' = FALSE
    BY <1>2, AnchorFacts, ServeType DEF ReadFill
  <2> QED
    BY <2>1, <2>2 DEF FlashTypeOK
<1>3. CASE ReadFillFails(r)
  <2>1. buf' \in [Slots -> Values]
    BY <1>0, <1>3 DEF ReadFillFails, FlashTypeOK
  <2> QED
    BY <1>3, <2>1 DEF ReadFillFails, FlashTypeOK
<1>4. CASE ReadThrough(r)
  BY <1>4 DEF ReadThrough, FlashTypeOK
<1> QED
  BY <1>1, <1>2, <1>3, <1>4

(* Every step keeps the type invariant.                                       *)
LEMMA NextType == FlashTypeOK /\ [FlashNext]_flashVars => FlashTypeOK'
<1> SUFFICES ASSUME FlashTypeOK, [FlashNext]_flashVars PROVE FlashTypeOK'
  OBVIOUS
<1>1. CASE Read
  BY <1>1, ReadType
<1>2. CASE Erase
  <2>1. [c \in Cells |-> Erased] \in [Cells -> Values]
    BY FlashLayout
  <2>2. flash' \in [Cells -> Values] /\ answer' \in {"ok", "error"}
    BY <1>2, <2>1, PutType DEF Erase
  <2> QED
    BY <1>2, <2>2 DEF Erase, FlashTypeOK
<1>3. CASE Write
  <2>1. \A v \in Values : [c \in Cells |-> v] \in [Cells -> Values]
    OBVIOUS
  <2>2. flash' \in [Cells -> Values] /\ answer' \in {"ok", "error"}
    BY <1>3, <2>1, PutType DEF Write
  <2> QED
    BY <1>3, <2>2 DEF Write, FlashTypeOK
<1>4. CASE UNCHANGED flashVars
  BY <1>4 DEF flashVars, FlashTypeOK
<1> QED
  BY <1>1, <1>2, <1>3, <1>4 DEF FlashNext

(* A read of a window that covers it stays inside the buffer. *)
LEMMA ServeInBounds ==
  ASSUME NEW r \in Reads, NEW w \in Cells, NEW b, w <= r.at, (r.at - w) + r.len <= Window
  PROVE  Serve(r, w, b) # "panic"
BY SpanFacts, FlashLayout DEF Serve, Cells

(* Every step keeps reads inside the buffer.                                  *)
LEMMA NextInBounds == FlashTypeOK /\ ReadsInBounds /\ [FlashNext]_flashVars => ReadsInBounds'
<1> SUFFICES ASSUME FlashTypeOK, ReadsInBounds, [FlashNext]_flashVars PROVE answer' # "panic"
  BY DEF ReadsInBounds
<1>1. CASE Read
  <2>1. PICK r \in Reads : ReadHit(r) \/ ReadFill(r) \/ ReadFillFails(r) \/ ReadThrough(r)
    BY <1>1 DEF Read
  <2>2. CASE ReadHit(r)
    <3>1. window \in Cells /\ window <= r.at /\ (r.at - window) + r.len <= Window
      BY <2>2, SpanFacts DEF ReadHit, Covers, FlashTypeOK, Cells, None
    <3> QED
      BY <2>2, <3>1, ServeInBounds DEF ReadHit
  <2>3. CASE ReadFill(r)
    <3>1. r.len <= Window /\ answer' = Serve(r, Anchor(r), buf')
      BY <2>3 DEF ReadFill
    <3> QED
      BY <3>1, AnchorFacts, ServeInBounds
  <2>4. CASE ReadFillFails(r) \/ ReadThrough(r)
    BY <2>4 DEF ReadFillFails, ReadThrough
  <2> QED
    BY <2>1, <2>2, <2>3, <2>4
<1>2. CASE Erase \/ Write
  BY <1>2 DEF Erase, Write, Put
<1>3. CASE UNCHANGED flashVars
  BY <1>3 DEF flashVars, ReadsInBounds
<1> QED
  BY <1>1, <1>2, <1>3 DEF FlashNext

(* A buffer that agrees with the flash serves the truth. *)
LEMMA ServeTrue ==
  ASSUME NEW r \in Reads, NEW w \in Cells, NEW b, w <= r.at, (r.at - w) + r.len <= Window,
         \A i \in Filled(w) : b[i] = flash[w + i]
  PROVE  Serve(r, w, b) = "true"
<1>1. ASSUME NEW i \in 0..(r.len - 1)
      PROVE  b[(r.at - w) + i] = flash[r.at + i]
  <2>1. (r.at - w) + i \in Filled(w)
    BY SpanFacts, FlashLayout DEF Filled, Slots, Cells
  <2>2. w + ((r.at - w) + i) = r.at + i
    BY SpanFacts DEF Cells
  <2> QED
    BY <2>1, <2>2
<1>2. ~(r.at < w \/ (r.at - w) + r.len > Window)
  BY SpanFacts, FlashLayout DEF Cells
<1> QED
  BY <1>1, <1>2 DEF Serve

Coherence == WindowCoherent /\ ReadsTheFlash

(* A read keeps the window true to the flash.                                 *)
LEMMA ReadCoherent ==
  ASSUME FlashTypeOK, Coherence, Read
  PROVE  Coherence'
<1>1. PICK r \in Reads : ReadHit(r) \/ ReadFill(r) \/ ReadFillFails(r) \/ ReadThrough(r)
  BY DEF Read
<1>2. CASE ReadHit(r)
  <2>1. window \in Cells /\ window # None /\ window <= r.at /\ (r.at - window) + r.len <= Window
    BY <1>2, SpanFacts DEF ReadHit, Covers, FlashTypeOK, Cells, None
  <2>2. ~fouled => answer' = "true"
    BY <1>2, <2>1, ServeTrue DEF ReadHit, Coherence, WindowCoherent, Coherent
  <2>3. flash' = flash /\ window' = window /\ buf' = buf /\ fouled' = fouled
    BY <1>2 DEF ReadHit
  <2> QED
    BY <2>2, <2>3 DEF Coherence, WindowCoherent, Coherent, ReadsTheFlash
<1>3. CASE ReadFill(r)
  <2>1. window' = Anchor(r) /\ flash' = flash /\ r.len <= Window /\ answer' = Serve(r, Anchor(r), buf')
    BY <1>3 DEF ReadFill
  <2>2. \A i \in Filled(Anchor(r)) : buf'[i] = flash[Anchor(r) + i]
    BY <1>3 DEF ReadFill, Filled
  <2>3. answer' = "true"
    BY <2>1, <2>2, AnchorFacts, ServeTrue
  <2>4. WindowCoherent'
    BY <2>1, <2>2 DEF WindowCoherent, Coherent, Filled
  <2> QED
    BY <2>3, <2>4 DEF Coherence, ReadsTheFlash
<1>4. CASE ReadThrough(r)
  BY <1>4 DEF ReadThrough, Coherence, WindowCoherent, Coherent, ReadsTheFlash
<1>5. CASE ReadFillFails(r)
  BY <1>5 DEF ReadFillFails, Coherence, WindowCoherent, ReadsTheFlash
<1> QED
  BY <1>1, <1>2, <1>3, <1>4, <1>5

(* So does every step.                                                        *)
LEMMA NextCoherent ==
  ASSUME FlashTypeOK, Coherence, [FlashNext]_flashVars
  PROVE  Coherence'
<1>1. CASE Read
  BY <1>1, ReadCoherent
<1>2. CASE Erase \/ Write
  <2>1. window' = None /\ answer' \in {"ok", "error"}
    BY <1>2 DEF Erase, Write, Put
  <2> QED
    BY <2>1 DEF Coherence, WindowCoherent, Coherent, ReadsTheFlash
<1>3. CASE UNCHANGED flashVars
  BY <1>3 DEF flashVars, Coherence, WindowCoherent, Coherent, ReadsTheFlash
<1> QED
  BY <1>1, <1>2, <1>3 DEF FlashNext

(* Types and bounds, together.                                                *)
LEMMA TypeInvariance == FlashSpec => [](FlashTypeOK /\ ReadsInBounds)
<1>1. FlashInit => FlashTypeOK /\ ReadsInBounds
  BY InitType DEF FlashInit, ReadsInBounds
<1>2. FlashTypeOK /\ ReadsInBounds /\ [FlashNext]_flashVars => (FlashTypeOK /\ ReadsInBounds)'
  BY NextType, NextInBounds
<1> QED
  BY <1>1, <1>2, PTL DEF FlashSpec

(* Type correctness. *)
THEOREM FlashTypes == FlashSpec => []FlashTypeOK
BY TypeInvariance, PTL

(* No read runs over the end of the buffer, failed fills or not: the users'   *)
(* reads do not straddle a window boundary (FlashLayout).                     *)
THEOREM InBounds == FlashSpec => []ReadsInBounds
BY TypeInvariance, PTL

(* The inductive invariant of the window.                                     *)
LEMMA CoherentInvariance == FlashSpec => []Coherence
<1>1. FlashInit => Coherence
  BY DEF FlashInit, Coherence, WindowCoherent, Coherent, ReadsTheFlash
<1>2. FlashTypeOK /\ Coherence /\ [FlashNext]_flashVars => Coherence'
  BY NextCoherent
<1> QED
  BY <1>1, <1>2, TypeInvariance, PTL DEF FlashSpec

(* Until a fill fails, and again from the next fill, write or erase on, the   *)
(* window is never stale, whatever write or erase fails.                      *)
THEOREM CoherentTheorem == FlashSpec => []WindowCoherent
<1>1. Coherence => WindowCoherent
  BY DEF Coherence
<1> QED
  BY <1>1, CoherentInvariance, PTL

(* ... and every read that succeeds returns what the flash holds.             *)
THEOREM ReadsTrue == FlashSpec => []ReadsTheFlash
<1>1. Coherence => ReadsTheFlash
  BY DEF Coherence
<1> QED
  BY <1>1, CoherentInvariance, PTL
=============================================================================
