------------------------------- MODULE StrTab -------------------------------
(***************************************************************************)
(* The string table of lj_str.c: interning, growing and shrinking, while   *)
(* the collector of lj_gc.c walks the chains by index, a chain per step.   *)
(***************************************************************************)
EXTENDS Integers, Sequences, FiniteSets
LOCAL INSTANCE SequencesExt

CONSTANTS
  Texts,           \* what strings say
  TextHash,        \* their hash values
  LJ_MIN_STRTAB, LJ_MAX_STRTAB,
  StrSizes,        \* sizes of the empty table in initial states: it may have grown before
  StrOOM           \* whether allocations of the table may fail

ASSUME StrTabAssumption ==
  /\ TextHash \in [Texts -> Nat]
  /\ LJ_MIN_STRTAB \in Nat \ {0} /\ LJ_MAX_STRTAB \in Nat /\ StrOOM \in BOOLEAN
  /\ StrSizes \subseteq Nat \ {0}

VARIABLES
  strhash,         \* the chains: sequences of texts, by index 0 .. strmask
  strnum,
  shade,           \* the color of the string of each text: a white, Black or Absent
  curwhite,        \* 0 or 1
  strgc,           \* phase of the collector: "mark", "sweepstring", "sweep" or "pause"
  sweepstr,        \* index of the chain to sweep next
  strheld          \* texts whose string the program holds

strVars == <<strhash, strnum, shade, curwhite, strgc, sweepstr, strheld>>

Black == 2
Absent == 3

Size(h) == Cardinality(DOMAIN h)           \* strmask + 1
Home(h, t) == TextHash[t] % Size(h)

\* Mutant: chains of the new table by the old mask.
lj_str_resize_mask(h, size) ==
  IF strgc = "sweepstring" \/ size >= LJ_MAX_STRTAB THEN h
  ELSE LET old == FlattenSeq([i \in 1 .. Size(h) |-> h[Size(h) - i]])
           new[j \in 0 .. Len(old)] ==
             IF j = 0 THEN [i \in 0 .. size - 1 |-> <<>>]
             ELSE [new[j - 1] EXCEPT ![TextHash[old[j]] % Size(h)] = <<old[j]>> \o @]
       IN new[Len(old)]

\* The chains of the new table, filled from the last old chain to the first,
\* every string at the head of its new chain.
lj_str_resize(h, size) ==
  IF strgc = "sweepstring" \/ size >= LJ_MAX_STRTAB THEN h
  ELSE LET old == FlattenSeq([i \in 1 .. Size(h) |-> h[Size(h) - i]])
           new[j \in 0 .. Len(old)] ==
             IF j = 0 THEN [i \in 0 .. size - 1 |-> <<>>]
             ELSE [new[j - 1] EXCEPT ![TextHash[old[j]] % size] = <<old[j]>> \o @]
       IN new[Len(old)]

Interned == UNION {ToSet(strhash[i]) : i \in DOMAIN strhash}

StrTabInit ==
  /\ \E n \in StrSizes : strhash = [i \in 0 .. n - 1 |-> <<>>]
  /\ strnum = 0
  /\ shade = [t \in Texts |-> Absent]
  /\ curwhite = 0
  /\ strgc = "pause"
  /\ sweepstr = 0
  /\ strheld = {}

\* Mutant: a dead string is not resurrected.
StrFound_dead(t) ==
  /\ t \in ToSet(strhash[Home(strhash, t)])
  /\ shade' = shade
  /\ strheld' = strheld \cup {t}
  /\ UNCHANGED <<strhash, strnum, curwhite, strgc, sweepstr>>

\* An existing string; it is resurrected if it is dead.
StrFound(t) ==
  /\ t \in ToSet(strhash[Home(strhash, t)])
  /\ shade' = [shade EXCEPT ![t] = IF @ = 1 - curwhite THEN curwhite ELSE @]
  /\ strheld' = strheld \cup {t}
  /\ UNCHANGED <<strhash, strnum, curwhite, strgc, sweepstr>>

\* A new string at the head of its chain. If the larger table cannot be
\* allocated the string stays and the error drops the reference.
StrCreate(t, oom) ==
  LET linked == [strhash EXCEPT ![Home(strhash, t)] = <<t>> \o @]
      grow == strnum > Size(strhash) - 1
      new == lj_str_resize(linked, 2 * Size(strhash))
  IN /\ t \notin ToSet(strhash[Home(strhash, t)])
     /\ oom => StrOOM /\ grow /\ new # linked
     /\ strhash' = IF grow /\ ~oom THEN new ELSE linked
     /\ strnum' = strnum + 1
     /\ shade' = [shade EXCEPT ![t] = curwhite]
     /\ strheld' = IF oom THEN strheld ELSE strheld \cup {t}
     /\ UNCHANGED <<curwhite, strgc, sweepstr>>

lj_str_new(t) == StrFound(t) \/ \E oom \in BOOLEAN : StrCreate(t, oom)

StrDrop(t) ==
  /\ t \in strheld
  /\ strheld' = strheld \ {t}
  /\ UNCHANGED <<strhash, strnum, shade, curwhite, strgc, sweepstr>>

-----------------------------------------------------------------------------
(* The collector. *)

StrGCStart ==
  /\ strgc = "pause" /\ strgc' = "mark"
  /\ UNCHANGED <<strhash, strnum, shade, curwhite, sweepstr, strheld>>

StrMark(t) ==
  /\ strgc = "mark" /\ t \in strheld /\ shade[t] = curwhite
  /\ shade' = [shade EXCEPT ![t] = Black]
  /\ UNCHANGED <<strhash, strnum, curwhite, strgc, sweepstr, strheld>>

\* The atomic phase marks what is still reachable and flips the white.
StrAtomic ==
  /\ strgc = "mark"
  /\ shade' = [t \in Texts |-> IF t \in strheld THEN Black ELSE shade[t]]
  /\ curwhite' = 1 - curwhite
  /\ strgc' = "sweepstring" /\ sweepstr' = 0
  /\ UNCHANGED <<strhash, strnum, strheld>>

\* lj_gc_fullgc() skips the rest of the cycle.
StrFullGC ==
  /\ strgc \in {"pause", "mark"}
  /\ strgc' = "sweepstring" /\ sweepstr' = 0
  /\ UNCHANGED <<strhash, strnum, shade, curwhite, strheld>>

\* What gc_sweep() leaves of a chain.
Undead(chain, dead) ==
  LET rest[j \in 0 .. Len(chain)] ==
        IF j = 0 THEN <<>>
        ELSE IF chain[j] \in dead THEN rest[j - 1] ELSE Append(rest[j - 1], chain[j])
  IN rest[Len(chain)]

\* Mutant: the sweep ends before the last chain.
StrSweepChain_early ==
  LET dead == {t \in ToSet(strhash[sweepstr]) : shade[t] = 1 - curwhite}
  IN /\ strgc = "sweepstring"
     /\ strhash' = [strhash EXCEPT ![sweepstr] = Undead(@, dead)]
     /\ strnum' = strnum - Cardinality(dead)
     /\ shade' = [t \in Texts |-> IF t \in dead THEN Absent
                                  ELSE IF t \in ToSet(strhash[sweepstr]) THEN curwhite ELSE shade[t]]
     /\ sweepstr' = sweepstr + 1
     /\ strgc' = IF sweepstr + 2 > Size(strhash) - 1 THEN "sweep" ELSE "sweepstring"
     /\ UNCHANGED <<curwhite, strheld>>

StrSweepChain ==
  LET dead == {t \in ToSet(strhash[sweepstr]) : shade[t] = 1 - curwhite}
  IN /\ strgc = "sweepstring"
     /\ strhash' = [strhash EXCEPT ![sweepstr] = Undead(@, dead)]
     /\ strnum' = strnum - Cardinality(dead)
     /\ shade' = [t \in Texts |-> IF t \in dead THEN Absent
                                  ELSE IF t \in ToSet(strhash[sweepstr]) THEN curwhite ELSE shade[t]]
     /\ sweepstr' = sweepstr + 1
     /\ strgc' = IF sweepstr + 1 > Size(strhash) - 1 THEN "sweep" ELSE "sweepstring"
     /\ UNCHANGED <<curwhite, strheld>>

\* The end of GCSsweep shrinks the table; if that fails it is tried again.
StrSweepEnd ==
  /\ strgc = "sweep"
  /\ strhash' = IF strnum <= (Size(strhash) - 1) \div 4 /\ Size(strhash) > 2 * LJ_MIN_STRTAB
                THEN lj_str_resize(strhash, Size(strhash) \div 2) ELSE strhash
  /\ strgc' = "pause"
  /\ UNCHANGED <<strnum, shade, curwhite, sweepstr, strheld>>

StrTabNext ==
  \/ \E t \in Texts : lj_str_new(t) \/ StrDrop(t) \/ StrMark(t)
  \/ StrGCStart \/ StrAtomic \/ StrFullGC \/ StrSweepChain \/ StrSweepEnd

StrTabSpec == StrTabInit /\ [][StrTabNext]_strVars

-----------------------------------------------------------------------------
(* Properties. *)

\* A string that is held survives whatever order interning, growing, shrinking and
\* sweeping take, and what a text is interned as is in the table.  That there is one
\* string of a text, found from its hash value, is StrChains.
Strings == INSTANCE StrSet WITH interned <- Interned, held <- strheld
StrTabImplementsSet == Strings!SetSpec

\* Every string is in the chain of its hash value, once, and strnum counts
\* them: lj_str_new() must find it after any resize in the middle of a cycle.
StrUnique ==
  /\ \A i \in DOMAIN strhash : /\ \A t \in ToSet(strhash[i]) : Home(strhash, t) = i
                               /\ \A j, k \in 1 .. Len(strhash[i]) : strhash[i][j] = strhash[i][k] => j = k
  /\ strnum = Cardinality(Interned)

\* The sweep by index misses no chain: those before sweepstr hold only strings
\* of the current white, and so does the whole table until the next mark.
StrAllWhite ==
  /\ strgc \in {"sweep", "pause"} => \A t \in Interned : shade[t] = curwhite
  /\ strgc = "sweepstring" =>
       \A i \in 0 .. sweepstr - 1 : \A t \in ToSet(strhash[i]) : shade[t] = curwhite

\* Resizing while a sweep walks the chains by index puts no string where it is
\* not found again or not swept.
StrChains == StrUnique /\ StrAllWhite
=============================================================================
