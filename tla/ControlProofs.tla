--------------------------- MODULE ControlProofs ---------------------------
(***************************************************************************)
(* Theorems about Dispatch, Stack and MCode.  Dispatch: for all hooks that *)
(* may be set, all operations that a run may exercise, and any nesting of  *)
(* frames.  Stack: for every size of the stack, of its reserve and of the  *)
(* frames, however deep the protected calls and handlers nest.  MCode: for *)
(* all sizes of areas, limits and red zones, and any number of traces.     *)
(***************************************************************************)
EXTENDS Dispatch, MCode, Stack, Numbers, SequenceTheorems

Nested == {"active", "gc", "vmevent"}
Bits == Event \cup Nested \cup {"profile"}
Modes == {"JIT", "REC", "INS", "CALL", "PROF", "RET"}
Profiler == {"PROF", "INS"}
Targets == {"hot", "plain", "inshook", "rethook", "profhook", "record", "callhook"}
JStates == {"IDLE", "RECORD", "ABORT"}
Kinds == {"hook", "finalizer", "vmevent", "pcall", "pcallh", "resume", "lua_pcall", "profile"}
Frame == [kind : Kinds, saved : SUBSET Bits]
Disp == [mode : SUBSET Modes, dyn : [Ins \cup Funcs -> Targets], stat : [Ins -> {"hot", "plain"}]]

DispatchType ==
  /\ hookmask \in SUBSET Bits
  /\ disp \in Disp
  /\ jiton \in BOOLEAN
  /\ jstate \in JStates
  /\ vmframes \in Seq(Frame)
  /\ timer \in BOOLEAN

-----------------------------------------------------------------------------
(* The dispatch table. *)

CountOf(mode) == IF Hot(mode) THEN "hot" ELSE "plain"

\* The table is the one of its mode; the static one is, once it was written.
Consistent(d) ==
  /\ d.dyn = TableOf(d.mode)
  /\ d.stat["ret"] = "plain" /\ d.stat["other"] = "plain"
  /\ d.mode # {} => d.stat["loop"] = CountOf(d.mode)
  /\ "REC" \in d.mode \/ "PROF" \in d.mode => "INS" \in d.mode

\* What mode is asked for.
LEMMA ModeMembers ==
  ASSUME NEW hm, NEW on \in BOOLEAN, NEW js
  PROVE  /\ ModeOf(hm, on, js) \in SUBSET Modes
         /\ "JIT" \in ModeOf(hm, on, js) <=> on
         /\ "REC" \in ModeOf(hm, on, js) <=> js # "IDLE"
         /\ "PROF" \in ModeOf(hm, on, js) <=> "profile" \in hm
         /\ "RET" \in ModeOf(hm, on, js) <=> "ret" \in hm
         /\ "INS" \in ModeOf(hm, on, js) <=> js # "IDLE" \/ "profile" \in hm \/ "line" \in hm
         /\ "CALL" \in ModeOf(hm, on, js) <=> js # "IDLE" \/ "call" \in hm
BY DEF ModeOf, Modes

\* The entries of the table of a mode.
LEMMA TableEntries ==
  ASSUME NEW mode
  PROVE  /\ \A i \in Ins : "INS" \in mode =>
              TableOf(mode)[i] = IF "PROF" \in mode THEN "profhook"
                                 ELSE IF "REC" \in mode THEN "record" ELSE "inshook"
         /\ "INS" \notin mode =>
              /\ TableOf(mode)["loop"] = CountOf(mode)
              /\ TableOf(mode)["ret"] = IF "RET" \in mode THEN "rethook" ELSE "plain"
              /\ TableOf(mode)["other"] = "plain"
         /\ "CALL" \in mode => TableOf(mode)["func"] = "callhook" /\ TableOf(mode)["cfunc"] = "callhook"
         /\ "CALL" \notin mode => TableOf(mode)["func"] = CountOf(mode) /\ TableOf(mode)["cfunc"] = "plain"
         /\ TableOf(mode) \in [Ins \cup Funcs -> Targets]
<1> DEFINE h == CASE "PROF" \in mode -> "profhook" [] "PROF" \notin mode /\ "REC" \in mode -> "record"
                  [] OTHER -> "inshook"
<1>1. h = IF "PROF" \in mode THEN "profhook" ELSE IF "REC" \in mode THEN "record" ELSE "inshook"
  OBVIOUS
<1>2. h \in Targets
  BY <1>1 DEF Targets
<1>3. CountOf(mode) \in Targets
  BY DEF CountOf, Targets
<1> DEFINE entry(i) ==
        CASE i \in Ins /\ "INS" \in mode -> h
          [] i = "loop" /\ "INS" \notin mode -> CountOf(mode)
          [] i = "ret" /\ "INS" \notin mode -> IF "RET" \in mode THEN "rethook" ELSE "plain"
          [] i = "other" /\ "INS" \notin mode -> "plain"
          [] i \in Funcs /\ "CALL" \in mode -> "callhook"
          [] i = "func" /\ "CALL" \notin mode -> CountOf(mode)
          [] i = "cfunc" /\ "CALL" \notin mode -> "plain"
<1>4. TableOf(mode) = [i \in Ins \cup Funcs |-> entry(i)]
  BY DEF TableOf, CountOf
<1> HIDE DEF h
<1>5. /\ \A i \in Ins : "INS" \in mode => entry(i) = h
      /\ "INS" \notin mode => /\ entry("loop") = CountOf(mode)
                              /\ entry("ret") = IF "RET" \in mode THEN "rethook" ELSE "plain"
                              /\ entry("other") = "plain"
      /\ "CALL" \in mode => entry("func") = "callhook" /\ entry("cfunc") = "callhook"
      /\ "CALL" \notin mode => entry("func") = CountOf(mode) /\ entry("cfunc") = "plain"
  BY DEF Ins, Funcs
<1> HIDE DEF entry
<1>6. \A i \in Ins \cup Funcs : entry(i) \in Targets
  BY <1>2, <1>3, <1>5 DEF Ins, Funcs, Targets
<1> QED BY <1>1, <1>4, <1>5, <1>6 DEF Ins, Funcs

\* Which changes make lj_dispatch_update() write a part of the table.
LEMMA ChangedMembers ==
  ASSUME NEW old, NEW mode
  PROVE  /\ Changed(old, mode) \cap {"PROF", "REC", "INS"} # {}
              <=> ~ (/\ "PROF" \in old <=> "PROF" \in mode
                     /\ "REC" \in old <=> "REC" \in mode
                     /\ "INS" \in old <=> "INS" \in mode)
         /\ "CALL" \in Changed(old, mode) <=> ~ ("CALL" \in old <=> "CALL" \in mode)
BY DEF Changed

\* lj_dispatch_update() leaves the table of the new mode, though it writes only
\* some of it.
LEMMA UpdateTable ==
  ASSUME NEW d \in Disp, Consistent(d), NEW hm \in SUBSET Bits, NEW on \in BOOLEAN, NEW js \in JStates
  PROVE  /\ lj_dispatch_update(d, hm, on, js) \in Disp
         /\ Consistent(lj_dispatch_update(d, hm, on, js))
         /\ lj_dispatch_update(d, hm, on, js).mode = ModeOf(hm, on, js)
<1> DEFINE mode == ModeOf(hm, on, js)
           e == lj_dispatch_update(d, hm, on, js)
<1>1. CASE mode = d.mode
  <2>1. e = d
    BY <1>1 DEF lj_dispatch_update
  <2> QED BY <1>1, <2>1
<1>2. CASE mode # d.mode
  <2> DEFINE count == IF Hot(mode) THEN "hot" ELSE "plain"
             stat == [d.stat EXCEPT !["loop"] = count]
             rets == IF "RET" \in mode THEN "rethook" ELSE stat["ret"]
             hook == IF "PROF" \in mode THEN "profhook" ELSE IF "REC" \in mode THEN "record" ELSE "inshook"
             whole == Changed(d.mode, mode) \cap {"PROF", "REC", "INS"} # {}
             ins == IF "INS" \in mode
                    THEN IF whole THEN [i \in Ins |-> hook] ELSE [i \in Ins |-> d.dyn[i]]
                    ELSE [i \in Ins |-> CASE i = "loop" -> count [] i = "ret" -> rets
                                          [] OTHER -> IF whole THEN stat[i] ELSE d.dyn[i]]
             calls == IF "CALL" \in Changed(d.mode, mode)
                      THEN [i \in Funcs |-> IF "CALL" \in mode THEN "callhook" ELSE "plain"]
                      ELSE [i \in Funcs |-> d.dyn[i]]
             header == IF "CALL" \in mode THEN calls["func"] ELSE count
             entry(i) == IF i = "func" THEN header ELSE IF i \in Ins THEN ins[i] ELSE calls[i]
  <2>1. e = [mode |-> mode, stat |-> stat, dyn |-> [i \in Ins \cup Funcs |-> entry(i)]]
    BY <1>2 DEF lj_dispatch_update
  <2>2. /\ mode \in SUBSET Modes
        /\ "REC" \in mode \/ "PROF" \in mode => "INS" \in mode
    BY ModeMembers
  <2>3. count = CountOf(mode) /\ count \in {"hot", "plain"}
    BY DEF CountOf
  <2> HIDE DEF mode, count
  <2>4. /\ stat \in [Ins -> {"hot", "plain"}]
        /\ stat["loop"] = count /\ stat["ret"] = "plain" /\ stat["other"] = "plain"
    BY <2>3 DEF Disp, Consistent, Ins
  <2>5. whole <=> ~ (/\ "PROF" \in d.mode <=> "PROF" \in mode
                     /\ "REC" \in d.mode <=> "REC" \in mode
                     /\ "INS" \in d.mode <=> "INS" \in mode)
    BY ChangedMembers
  <2>6. "CALL" \in Changed(d.mode, mode) <=> ~ ("CALL" \in d.mode <=> "CALL" \in mode)
    BY ChangedMembers
  <2>7. d.dyn = TableOf(d.mode)
    BY DEF Consistent
  <2> HIDE DEF stat, whole
  <2>8. ASSUME NEW i \in Ins
        PROVE  ins[i] = TableOf(mode)[i]
    <3>1. CASE "INS" \in mode
      <4>1. TableOf(mode)[i] = hook
        BY <3>1, TableEntries
      <4>2. CASE whole
        BY <3>1, <4>1, <4>2
      <4>3. CASE ~ whole
        <5>1. ins[i] = d.dyn[i]
          BY <3>1, <4>3
        <5>2. TableOf(d.mode)[i] = hook
          BY <2>5, <3>1, <4>3, TableEntries
        <5> QED BY <2>7, <4>1, <5>1, <5>2
      <4> QED BY <4>2, <4>3
    <3>2. CASE "INS" \notin mode
      <4>1. CASE i = "loop"
        BY <2>3, <3>2, <4>1, TableEntries DEF Ins
      <4>2. CASE i = "ret"
        BY <2>4, <3>2, <4>2, TableEntries DEF Ins
      <4>3. CASE i = "other"
        <5>1. TableOf(mode)[i] = "plain"
          BY <3>2, <4>3, TableEntries
        <5>2. ins[i] = IF whole THEN stat[i] ELSE d.dyn[i]
          BY <3>2, <4>3 DEF Ins
        <5>3. ~ whole => d.dyn[i] = "plain"
          BY <2>5, <2>7, <3>2, <4>3, TableEntries
        <5> QED BY <2>4, <4>3, <5>1, <5>2, <5>3
      <4> QED BY <4>1, <4>2, <4>3 DEF Ins
    <3> QED BY <3>1, <3>2
  <2>9. /\ "CALL" \in mode => calls["func"] = "callhook"
        /\ calls["cfunc"] = TableOf(mode)["cfunc"]
    <3>1. CASE "CALL" \in d.mode <=> "CALL" \in mode
      <4>1. calls["func"] = d.dyn["func"] /\ calls["cfunc"] = d.dyn["cfunc"]
        BY <2>6, <3>1 DEF Funcs
      <4> QED BY <2>7, <3>1, <4>1, TableEntries
    <3>2. CASE ~ ("CALL" \in d.mode <=> "CALL" \in mode)
      <4>1. /\ calls["func"] = IF "CALL" \in mode THEN "callhook" ELSE "plain"
            /\ calls["cfunc"] = IF "CALL" \in mode THEN "callhook" ELSE "plain"
        BY <2>6, <3>2 DEF Funcs
      <4> QED BY <4>1, TableEntries
    <3> QED BY <3>1, <3>2
  <2>10. header = TableOf(mode)["func"]
    BY <2>3, <2>9, TableEntries
  <2> HIDE DEF header, ins, calls
  <2>11. \A i \in Ins \cup Funcs : entry(i) = TableOf(mode)[i]
    BY <2>8, <2>9, <2>10 DEF Ins, Funcs
  <2> HIDE DEF entry
  <2>12. TableOf(mode) \in [Ins \cup Funcs -> Targets]
    BY TableEntries
  <2>13. [i \in Ins \cup Funcs |-> entry(i)] = TableOf(mode)
    BY <2>11, <2>12
  <2>14. e.mode = mode /\ e.stat = stat /\ e.dyn = TableOf(mode)
    BY <2>1, <2>13
  <2>15. e \in Disp
    BY <2>1, <2>2, <2>4, <2>12, <2>13 DEF Disp
  <2>16. Consistent(e)
    <3> HIDE DEF e
    <3> QED BY <2>2, <2>3, <2>4, <2>14 DEF Consistent
  <2> QED BY <2>14, <2>15, <2>16 DEF mode
<1> QED BY <1>1, <1>2

-----------------------------------------------------------------------------
(* Frames. *)

Pushed(f) ==
  /\ vmframes' \in Seq(Frame) /\ Len(vmframes') = Len(vmframes) + 1 /\ vmframes'[Len(vmframes) + 1] = f
  /\ \A i \in 1 .. Len(vmframes) : vmframes'[i] = vmframes[i]

PoppedTo(m) ==
  /\ m \in 0 .. Len(vmframes) /\ vmframes' \in Seq(Frame) /\ Len(vmframes') = m
  /\ \A i \in 1 .. m : vmframes'[i] = vmframes[i]

\* The frames one by one.
LEMMA FrameTypes ==
  ASSUME DispatchType
  PROVE  /\ Len(vmframes) \in Nat /\ DOMAIN vmframes = 1 .. Len(vmframes)
         /\ \A i \in 1 .. Len(vmframes) : /\ vmframes[i] \in Frame /\ vmframes[i].kind \in Kinds
                                         /\ vmframes[i].saved \in SUBSET Bits
<1>1. vmframes \in Seq(Frame)
  BY DEF DispatchType
<1>2. Len(vmframes) \in Nat /\ DOMAIN vmframes = 1 .. Len(vmframes)
  BY <1>1
<1>3. \A i \in 1 .. Len(vmframes) : vmframes[i] \in Frame
  BY <1>1
<1> QED BY <1>2, <1>3 DEF Frame

\* Push pushes a frame.
LEMMA PushEffect ==
  ASSUME DispatchType, NEW kind \in Kinds, NEW saved \in SUBSET Bits, Push(kind, saved)
  PROVE  \E f \in Frame : f.kind = kind /\ f.saved = saved /\ Pushed(f)
<1> DEFINE f == [kind |-> kind, saved |-> saved]
<1>1. f \in Frame /\ f.kind = kind /\ f.saved = saved
  BY DEF Frame
<1>2. vmframes' = Append(vmframes, f)
  BY DEF Push
<1> HIDE DEF f
<1>3. Pushed(f)
  BY <1>1, <1>2, AppendProperties DEF DispatchType, Pushed
<1> QED BY <1>1, <1>3

\* The first m frames are left.
LEMMA PopEffect ==
  ASSUME DispatchType, NEW m \in 0 .. Len(vmframes), vmframes' = SubSeq(vmframes, 1, m)
  PROVE  PoppedTo(m)
<1>1. Len(vmframes) \in Nat /\ m \in Int /\ \A i \in 1 .. m : vmframes[i] \in Frame
  BY FrameTypes
<1>2. /\ vmframes' \in Seq(Frame) /\ Len(vmframes') = IF 1 <= m THEN m - 1 + 1 ELSE 0
      /\ \A i \in 1 .. m - 1 + 1 : vmframes'[i] = vmframes[1 + i - 1]
  BY <1>1, SubSeqProperties
<1>3. Len(vmframes') = m
  BY <1>1, <1>2
<1>4. \A i \in 1 .. m : i \in 1 .. m - 1 + 1 /\ 1 + i - 1 = i
  BY <1>1
<1> QED BY <1>2, <1>3, <1>4 DEF PoppedTo

Catch == {i \in DOMAIN vmframes : vmframes[i].kind \in Protected}

\* The innermost protected call catches the error.
LEMMA ThrowEffect ==
  ASSUME DispatchType, ThrowError
  PROVE  \E c \in 1 .. Len(vmframes) :
           /\ PoppedTo(c - 1) /\ vmframes[c].kind \in Protected
           /\ \A i \in c + 1 .. Len(vmframes) : vmframes[i].kind = "hook"
           /\ vmframes[c].kind \in {"pcall", "resume"} => hookmask' = hookmask \ {"active"}
           /\ vmframes[c].kind = "pcallh" => hookmask' = hookmask
           /\ vmframes[c].kind \in {"lua_pcall", "vmevent", "finalizer"} =>
                hookmask' = hook_restore(vmframes[c].saved)
<1> DEFINE c == CHOOSE i \in Catch : \A j \in Catch : j <= i
<1>1. /\ Catch # {} /\ \A i \in c .. Len(vmframes) : vmframes[i].kind # "profile"
      /\ vmframes' = SubSeq(vmframes, 1, c - 1)
      /\ hookmask' = CASE vmframes[c].kind \in {"pcall", "resume"} -> hookmask \ {"active"}
                       [] vmframes[c].kind = "pcallh" -> hookmask
                       [] OTHER -> hook_restore(vmframes[c].saved)
  BY DEF ThrowError, Catch
<1>2. Catch \in SUBSET (0 .. Len(vmframes)) /\ Len(vmframes) \in Nat
  BY FrameTypes DEF Catch
<1>3. \E i \in Catch : \A j \in Catch : j <= i
  BY <1>1, <1>2, GreatestMember
<1>4. c \in Catch /\ \A j \in Catch : j <= c
  BY <1>3
<1> HIDE DEF c
<1>5. c \in 1 .. Len(vmframes) /\ vmframes[c].kind \in Protected
  BY <1>4, FrameTypes DEF Catch
<1>6. ASSUME NEW i \in c + 1 .. Len(vmframes)
      PROVE  vmframes[i].kind = "hook"
  <2>1. i \in 1 .. Len(vmframes) /\ i \in c .. Len(vmframes) /\ ~ (i <= c)
    BY <1>2, <1>5
  <2>2. i \notin Catch
    BY <1>4, <2>1
  <2>3. vmframes[i].kind \notin Protected
    BY <2>1, <2>2, FrameTypes DEF Catch
  <2> QED BY <1>1, <2>1, <2>3, FrameTypes DEF Kinds, Protected
<1>7. PoppedTo(c - 1)
  <2>1. c - 1 \in 0 .. Len(vmframes)
    BY <1>2, <1>5
  <2> QED BY <1>1, <2>1, PopEffect
<1> QED BY <1>1, <1>5, <1>6, <1>7

-----------------------------------------------------------------------------
(* The mode. *)

\* The mode may have more of what the profiler sets, and less of it.
Lags ==
  /\ "JIT" \in disp.mode <=> jiton
  /\ "REC" \in disp.mode <=> jstate # "IDLE"
  /\ "RET" \in disp.mode <=> "ret" \in hookmask
  /\ "CALL" \in disp.mode <=> jstate # "IDLE" \/ "call" \in hookmask
  /\ jstate # "IDLE" \/ "line" \in hookmask => "INS" \in disp.mode

\* Only what the profiler saved may bring back events.
SavedSmall ==
  \A i \in 1 .. Len(vmframes) :
    vmframes[i].kind \in {"finalizer", "vmevent", "lua_pcall"} => vmframes[i].saved \cap Event = {}

TableInv == DispatchType /\ Consistent(disp) /\ Lags /\ SavedSmall

\* The invariant contains the property.
LEMMA TableInvImplies == TableInv => TableFollowsState
<1> SUFFICES ASSUME TableInv
             PROVE  TableFollowsState
  OBVIOUS
<1> DEFINE asked == ModeOf(hookmask, jiton, jstate)
<1>1. TableFollowsMode
  BY DEF TableInv, Consistent, TableFollowsMode
<1>2. /\ jiton \in BOOLEAN /\ disp.mode \in SUBSET Modes
  BY DEF TableInv, DispatchType, Disp
<1>3. /\ asked \in SUBSET Modes
      /\ "JIT" \in asked <=> jiton
      /\ "REC" \in asked <=> jstate # "IDLE"
      /\ "PROF" \in asked <=> "profile" \in hookmask
      /\ "RET" \in asked <=> "ret" \in hookmask
      /\ "INS" \in asked <=> jstate # "IDLE" \/ "profile" \in hookmask \/ "line" \in hookmask
      /\ "CALL" \in asked <=> jstate # "IDLE" \/ "call" \in hookmask
  BY <1>2, ModeMembers
<1> HIDE DEF asked
<1>4. Lags
  BY DEF TableInv
<1>5. \A m \in Modes \ {"PROF", "INS"} : m \in disp.mode <=> m \in asked
  BY <1>3, <1>4 DEF Lags, Modes
<1>6. disp.mode \ {"PROF", "INS"} = asked \ {"PROF", "INS"}
  BY <1>2, <1>3, <1>5
<1>7. asked \ disp.mode # {} => "profile" \in hookmask
  <2> SUFFICES ASSUME NEW m \in asked, m \notin disp.mode, "profile" \notin hookmask
               PROVE  FALSE
    OBVIOUS
  <2>1. m \in {"PROF", "INS"}
    BY <1>3, <1>5
  <2> QED BY <1>3, <1>4, <2>1 DEF Lags
<1>8. ModeFollowsState
  BY <1>6, <1>7 DEF ModeFollowsState, asked
<1> QED BY <1>1, <1>8 DEF TableFollowsState

\* After an update the mode does not lag; what changes then must be irrelevant to it.
LEMMA AfterUpdate ==
  ASSUME disp \in Disp, Consistent(disp), NEW hm \in SUBSET Bits, NEW js \in JStates, jiton' \in BOOLEAN,
         disp' = lj_dispatch_update(disp, hm, jiton', js),
         hookmask' \cap Event = hm \cap Event, jstate' # "IDLE" <=> js # "IDLE"
  PROVE  disp' \in Disp /\ Consistent(disp') /\ Lags'
<1>1. disp' \in Disp /\ Consistent(disp') /\ disp'.mode = ModeOf(hm, jiton', js)
  BY UpdateTable
<1>2. /\ "JIT" \in disp'.mode <=> jiton'
      /\ "REC" \in disp'.mode <=> js # "IDLE"
      /\ "RET" \in disp'.mode <=> "ret" \in hm
      /\ "INS" \in disp'.mode <=> js # "IDLE" \/ "profile" \in hm \/ "line" \in hm
      /\ "CALL" \in disp'.mode <=> js # "IDLE" \/ "call" \in hm
  BY <1>1, ModeMembers
<1>3. /\ "ret" \in hm <=> "ret" \in hookmask'
      /\ "call" \in hm <=> "call" \in hookmask'
      /\ "line" \in hm <=> "line" \in hookmask'
  BY DEF Event
<1>4. Lags'
  BY <1>2, <1>3 DEF Lags
<1> QED BY <1>1, <1>4

\* Without an update the table stays as it is if events, JIT mode and idleness do.
LEMMA WithoutUpdate ==
  ASSUME disp \in Disp, Consistent(disp), Lags, disp' = disp, jiton' = jiton,
         hookmask' \cap Event = hookmask \cap Event, jstate' # "IDLE" <=> jstate # "IDLE"
  PROVE  disp' \in Disp /\ Consistent(disp') /\ Lags'
<1>1. /\ "ret" \in hookmask <=> "ret" \in hookmask'
      /\ "call" \in hookmask <=> "call" \in hookmask'
      /\ "line" \in hookmask <=> "line" \in hookmask'
  BY DEF Event
<1> QED BY <1>1 DEF Lags

\* A frame with nothing harmful saved.
LEMMA SavedPushed ==
  ASSUME DispatchType, SavedSmall, NEW kind \in Kinds, NEW saved \in SUBSET Bits, Push(kind, saved),
         kind \in {"finalizer", "vmevent", "lua_pcall"} => saved \cap Event = {}
  PROVE  vmframes' \in Seq(Frame) /\ SavedSmall'
<1>1. PICK f \in Frame : f.kind = kind /\ f.saved = saved /\ Pushed(f)
  BY PushEffect
<1>2. Len(vmframes) \in Nat
  BY FrameTypes
<1>3. \A i \in 1 .. Len(vmframes') : i \in 1 .. Len(vmframes) \/ i = Len(vmframes) + 1
  BY <1>1, <1>2 DEF Pushed
<1> QED BY <1>1, <1>3 DEF Pushed, SavedSmall

\* What the frames left after popping have saved is as it was.
LEMMA SavedPopped ==
  ASSUME DispatchType, SavedSmall, NEW m, PoppedTo(m)
  PROVE  vmframes' \in Seq(Frame) /\ SavedSmall'
<1>1. Len(vmframes) \in Nat
  BY FrameTypes
<1> QED BY <1>1 DEF PoppedTo, SavedSmall

\* A hook is called, or not.
Hooked(js) ==
  \/ callhook(js)
  \/ hookmask' = hookmask /\ jstate' = js /\ UNCHANGED vmframes

\* Entering a hook changes no event, and keeps what was saved small.
LEMMA HookedEffect ==
  ASSUME DispatchType, SavedSmall, NEW js \in JStates, Hooked(js)
  PROVE  /\ hookmask' \in SUBSET Bits /\ hookmask' \cap Event = hookmask \cap Event
         /\ jstate' \in JStates /\ (jstate' # "IDLE" <=> js # "IDLE")
         /\ jstate' = "RECORD" => js = "RECORD"
         /\ vmframes' \in Seq(Frame) /\ SavedSmall'
<1>1. CASE callhook(js)
  <2>1. hookmask' = hookmask \cup {"active"} /\ jstate' = Aborting(js) /\ Push("hook", {})
    BY <1>1 DEF callhook
  <2>2. hookmask' \in SUBSET Bits /\ hookmask' \cap Event = hookmask \cap Event
    BY <2>1 DEF DispatchType, Bits, Nested, Event
  <2>3. jstate' \in JStates /\ (jstate' # "IDLE" <=> js # "IDLE") /\ jstate' # "RECORD"
    BY <2>1 DEF Aborting, JStates
  <2>4. vmframes' \in Seq(Frame) /\ SavedSmall'
    BY <2>1, SavedPushed DEF Kinds
  <2> QED BY <2>2, <2>3, <2>4
<1>2. CASE hookmask' = hookmask /\ jstate' = js /\ UNCHANGED vmframes
  BY <1>2 DEF DispatchType, SavedSmall
<1> QED BY <1>1, <1>2 DEF Hooked

\* Restoring a saved mask changes no event.
LEMMA RestoreEffect ==
  ASSUME DispatchType, NEW saved \in SUBSET Bits, saved \cap Event = {}, hookmask' = hook_restore(saved)
  PROVE  hookmask' \in SUBSET Bits /\ hookmask' \cap Event = hookmask \cap Event
BY DEF DispatchType, hook_restore, Bits

\* The inductive step of the dispatch table.
LEMMA TableStep ==
  ASSUME TableInv, [DispatchNext]_dispVars
  PROVE  TableInv'
<1>1. /\ DispatchType /\ Consistent(disp) /\ Lags /\ SavedSmall
      /\ hookmask \in SUBSET Bits /\ disp \in Disp /\ jiton \in BOOLEAN /\ jstate \in JStates
      /\ vmframes \in Seq(Frame) /\ timer \in BOOLEAN
  BY DEF TableInv, DispatchType
<1>2. ASSUME hookmask' \in SUBSET Bits, jiton' \in BOOLEAN, jstate' \in JStates, timer' \in BOOLEAN,
             vmframes' \in Seq(Frame), SavedSmall', disp' \in Disp, Consistent(disp'), Lags'
      PROVE  TableInv'
  BY <1>2 DEF TableInv, DispatchType
<1>3. ASSUME hookmask' \in SUBSET Bits, jiton' \in BOOLEAN, jstate' \in JStates, timer' \in BOOLEAN,
             vmframes' \in Seq(Frame), SavedSmall', Update
      PROVE  TableInv'
  <2>1. disp' \in Disp /\ Consistent(disp') /\ Lags'
    BY <1>1, <1>3, AfterUpdate DEF Update
  <2> QED BY <1>2, <1>3, <2>1
<1>4. ASSUME hookmask' \in SUBSET Bits, jiton' = jiton, jstate' \in JStates, timer' \in BOOLEAN,
             vmframes' \in Seq(Frame), SavedSmall', disp' = disp,
             hookmask' \cap Event = hookmask \cap Event, jstate' # "IDLE" <=> jstate # "IDLE"
      PROVE  TableInv'
  <2>1. disp' \in Disp /\ Consistent(disp') /\ Lags'
    BY <1>1, <1>4, WithoutUpdate
  <2> QED BY <1>1, <1>2, <1>4, <2>1
<1>5. ASSUME vmframes' = vmframes
      PROVE  vmframes' \in Seq(Frame) /\ SavedSmall'
  BY <1>1, <1>5 DEF SavedSmall
<1>6. Aborting(jstate) \in JStates /\ (Aborting(jstate) # "IDLE" <=> jstate # "IDLE")
  BY <1>1 DEF Aborting, JStates
<1>7. \A m \in SUBSET Bits : m \ {"profile"} \in SUBSET Bits /\ m \cup {"profile"} \in SUBSET Bits
  BY DEF Bits
<1>8. hook_save \in SUBSET Bits /\ hook_save \cap Event = {} /\ {} \in SUBSET Bits
  BY <1>1 DEF hook_save
<1>9. ASSUME NEW i \in Ins, lj_dispatch_ins(i)
      PROVE  TableInv'
  <2>1. PICK js \in {"IDLE", "RECORD"} :
          /\ lj_trace_ins(js) /\ Hooked(js) /\ jiton' = jiton /\ timer' = timer
          /\ disp' = IF jstate # "IDLE" /\ js = "IDLE"
                     THEN lj_dispatch_update(disp, hookmask, jiton, js) ELSE disp
    BY <1>9 DEF lj_dispatch_ins, Hooked
  <2>2. js \in JStates
    BY DEF JStates
  <2>3. /\ hookmask' \in SUBSET Bits /\ hookmask' \cap Event = hookmask \cap Event
        /\ jstate' \in JStates /\ (jstate' # "IDLE" <=> js # "IDLE")
        /\ vmframes' \in Seq(Frame) /\ SavedSmall'
    BY <1>1, <2>1, <2>2, HookedEffect
  <2>4. CASE jstate # "IDLE" /\ js = "IDLE"
    <3>1. disp' \in Disp /\ Consistent(disp') /\ Lags'
      BY <1>1, <2>1, <2>2, <2>3, <2>4, AfterUpdate
    <3> QED BY <1>1, <1>2, <2>1, <2>3, <3>1
  <2>5. CASE ~ (jstate # "IDLE" /\ js = "IDLE")
    <3>1. js # "IDLE" <=> jstate # "IDLE"
      BY <2>1, <2>5 DEF lj_trace_ins
    <3> QED BY <1>1, <1>4, <2>1, <2>3, <2>5, <3>1
  <2> QED BY <2>4, <2>5
<1>10. ASSUME NEW i \in Ins, lj_dispatch_profile(i)
       PROVE  TableInv'
  <2> DEFINE mask == hookmask \ {"profile"}
  <2>1. mask \in SUBSET Bits
    BY <1>1, <1>7
  <2>2. /\ \/ hookmask' = mask /\ vmframes' = vmframes
           \/ hookmask' = {"vmevent"} /\ Push("profile", mask)
        /\ jiton' = jiton /\ jstate' = jstate /\ timer' = timer /\ Update
    BY <1>10 DEF lj_dispatch_profile, lj_profile_interpreter
  <2> HIDE DEF mask
  <2>3. CASE hookmask' = mask /\ vmframes' = vmframes
    BY <1>1, <1>3, <1>5, <2>1, <2>2, <2>3
  <2>4. CASE hookmask' = {"vmevent"} /\ Push("profile", mask)
    <3>1. vmframes' \in Seq(Frame) /\ SavedSmall'
      BY <1>1, <2>1, <2>4, SavedPushed DEF Kinds
    <3>2. hookmask' \in SUBSET Bits
      BY <2>4 DEF Bits, Nested
    <3> QED BY <1>1, <1>3, <2>2, <3>1, <3>2
  <2> QED BY <2>2, <2>3, <2>4
<1>11. ASSUME NEW i \in Funcs, lj_dispatch_call(i)
       PROVE  TableInv'
  <2>1. PICK js \in JStates :
          /\ Hooked(js) /\ jiton' = jiton /\ timer' = timer
          /\ disp' = IF js # jstate THEN lj_dispatch_update(disp, hookmask, jiton, js) ELSE disp
    BY <1>11 DEF lj_dispatch_call, Hooked, JStates
  <2>2. /\ hookmask' \in SUBSET Bits /\ hookmask' \cap Event = hookmask \cap Event
        /\ jstate' \in JStates /\ (jstate' # "IDLE" <=> js # "IDLE")
        /\ vmframes' \in Seq(Frame) /\ SavedSmall'
    BY <1>1, <2>1, HookedEffect
  <2>3. CASE js # jstate
    <3>1. disp' \in Disp /\ Consistent(disp') /\ Lags'
      BY <1>1, <2>1, <2>2, <2>3, AfterUpdate
    <3> QED BY <1>1, <1>2, <2>1, <2>2, <3>1
  <2>4. CASE js = jstate
    BY <1>1, <1>4, <2>1, <2>2, <2>4
  <2> QED BY <2>3, <2>4
<1>12. ASSUME NEW i, HotCount(i)
       PROVE  TableInv'
  <2>1. /\ jstate' = "RECORD" /\ hookmask' = hookmask /\ jiton' = jiton /\ timer' = timer
        /\ vmframes' = vmframes /\ Update
    BY <1>12 DEF HotCount
  <2>2. jstate' \in JStates
    BY <2>1 DEF JStates
  <2> QED BY <1>1, <1>3, <1>5, <2>1, <2>2
<1>13. ASSUME NEW mask \in SUBSET HookEvents, lua_sethook(mask)
       PROVE  TableInv'
  <2>1. /\ hookmask' = (hookmask \ Event) \cup mask /\ jstate' = Aborting(jstate)
        /\ jiton' = jiton /\ timer' = timer /\ vmframes' = vmframes /\ Update
    BY <1>13 DEF lua_sethook
  <2>2. hookmask' \in SUBSET Bits
    BY <1>1, <2>1, DispatchAssumption DEF Bits, Event
  <2> QED BY <1>1, <1>3, <1>5, <1>6, <2>1, <2>2
<1>14. ASSUME NEW on \in BOOLEAN, luaJIT_setmode(on)
       PROVE  TableInv'
  <2>1. /\ jstate' = Aborting(jstate) /\ hookmask' = hookmask /\ vmframes' = vmframes /\ timer' = timer
        /\ \/ jiton' = jiton /\ disp' = disp
           \/ jiton' = on /\ Update
    BY <1>14 DEF luaJIT_setmode
  <2>2. CASE jiton' = jiton /\ disp' = disp
    BY <1>1, <1>4, <1>5, <1>6, <2>1, <2>2
  <2>3. CASE jiton' = on /\ Update
    BY <1>1, <1>3, <1>5, <1>6, <2>1, <2>3
  <2> QED BY <2>1, <2>2, <2>3
<1>15. CASE luaJIT_profile_start
  BY <1>1, <1>4, <1>5, <1>15 DEF luaJIT_profile_start
<1>16. CASE luaJIT_profile_stop
  <2>1. /\ hookmask' = hookmask \ {"profile"} /\ timer' = FALSE /\ jiton' = jiton /\ jstate' = jstate
        /\ vmframes' = vmframes /\ Update
    BY <1>16 DEF luaJIT_profile_stop
  <2> QED BY <1>1, <1>3, <1>5, <1>7, <2>1
<1>17. CASE profile_trigger
  <2>1. /\ hookmask' = hookmask \cup {"profile"} /\ timer' = timer /\ jiton' = jiton /\ jstate' = jstate
        /\ vmframes' = vmframes /\ Update
    BY <1>17 DEF profile_trigger
  <2> QED BY <1>1, <1>3, <1>5, <1>7, <2>1
<1>18. ASSUME NEW kind \in Kinds, NEW saved \in SUBSET Bits, Push(kind, saved),
              kind \in {"finalizer", "vmevent", "lua_pcall"} => saved \cap Event = {},
              hookmask' \in SUBSET Bits, hookmask' \cap Event = hookmask \cap Event,
              jstate' \in JStates, jstate' # "IDLE" <=> jstate # "IDLE",
              disp' = disp, jiton' = jiton, timer' = timer
       PROVE  TableInv'
  <2>1. vmframes' \in Seq(Frame) /\ SavedSmall'
    BY <1>1, <1>18, SavedPushed
  <2> QED BY <1>1, <1>4, <1>18, <2>1
<1>19. \A m \in SUBSET Nested : hookmask \cup m \in SUBSET Bits /\ (hookmask \cup m) \cap Event = hookmask \cap Event
  BY <1>1 DEF Bits, Nested, Event
<1>20. CASE gc_call_finalizer
  <2>1. /\ hookmask' = hookmask \cup {"active", "gc"} /\ jstate' = Aborting(jstate)
        /\ Push("finalizer", hook_save) /\ disp' = disp /\ jiton' = jiton /\ timer' = timer
    BY <1>20 DEF gc_call_finalizer
  <2>2. {"active", "gc"} \in SUBSET Nested /\ "finalizer" \in Kinds
    BY DEF Nested, Kinds
  <2> QED BY <1>6, <1>8, <1>18, <1>19, <2>1, <2>2
<1>21. CASE lj_vmevent_call
  <2>1. /\ hookmask' = hookmask \cup {"active", "vmevent"} /\ jstate' = jstate
        /\ Push("vmevent", hook_save) /\ disp' = disp /\ jiton' = jiton /\ timer' = timer
    BY <1>21 DEF lj_vmevent_call
  <2>2. {"active", "vmevent"} \in SUBSET Nested /\ "vmevent" \in Kinds
    BY DEF Nested, Kinds
  <2> QED BY <1>1, <1>8, <1>18, <1>19, <2>1, <2>2
<1>22. CASE PCall
  <2>1. /\ hookmask' = hookmask /\ jstate' = jstate /\ disp' = disp /\ jiton' = jiton /\ timer' = timer
        /\ Push("pcall", {}) \/ Push("pcallh", {})
    BY <1>22 DEF PCall
  <2>2. "pcall" \in Kinds /\ "pcallh" \in Kinds
    BY DEF Kinds
  <2> QED BY <1>1, <1>8, <1>18, <2>1, <2>2
<1>23. CASE lj_vm_resume
  <2>1. /\ hookmask' = hookmask /\ jstate' = jstate /\ disp' = disp /\ jiton' = jiton /\ timer' = timer
        /\ Push("resume", {}) /\ "resume" \in Kinds
    BY <1>23 DEF lj_vm_resume, Kinds
  <2> QED BY <1>1, <1>8, <1>18, <2>1
<1>24. CASE lua_pcall
  <2>1. /\ hookmask' = hookmask /\ jstate' = jstate /\ disp' = disp /\ jiton' = jiton /\ timer' = timer
        /\ Push("lua_pcall", hook_save) /\ "lua_pcall" \in Kinds
    BY <1>24 DEF lua_pcall, Kinds
  <2> QED BY <1>1, <1>8, <1>18, <2>1
<1>25. CASE ReturnFrom
  <2>1. /\ vmframes # <<>> /\ Len(vmframes) \in Nat /\ Len(vmframes) # 0
        /\ Len(vmframes) \in 1 .. Len(vmframes) /\ Len(vmframes) - 1 \in 0 .. Len(vmframes)
    BY <1>1, <1>25, FrameTypes DEF ReturnFrom
  <2>2. /\ vmframes' = SubSeq(vmframes, 1, Len(vmframes) - 1)
        /\ jiton' = jiton /\ jstate' = jstate /\ timer' = timer
        /\ IF Top.kind = "profile" THEN Update ELSE UNCHANGED disp
        /\ hookmask' = CASE Top.kind = "hook" -> hookmask \ {"active"}
                         [] Top.kind \in {"finalizer", "vmevent"} -> hook_restore(Top.saved)
                         [] Top.kind = "profile" -> Top.saved \cup (hookmask \cap {"profile"})
                         [] OTHER -> hookmask
    BY <1>25 DEF ReturnFrom, Pop
  <2>3. vmframes' \in Seq(Frame) /\ SavedSmall'
    BY <1>1, <2>1, <2>2, PopEffect, SavedPopped
  <2>4. /\ Top.saved \in SUBSET Bits
        /\ Top.kind \in {"finalizer", "vmevent"} => Top.saved \cap Event = {}
    BY <1>1, <2>1, FrameTypes DEF Top, SavedSmall
  <2>5. CASE Top.kind = "profile"
    <3>1. Update /\ hookmask' = Top.saved \cup (hookmask \cap {"profile"})
      BY <2>2, <2>5
    <3>2. hookmask' \in SUBSET Bits
      BY <1>1, <2>4, <3>1
    <3> QED BY <1>1, <1>3, <2>2, <2>3, <3>1, <3>2
  <2>6. CASE Top.kind # "profile"
    <3>1. disp' = disp
      BY <2>2, <2>6
    <3>2. hookmask' \in SUBSET Bits /\ hookmask' \cap Event = hookmask \cap Event
      <4>1. CASE Top.kind = "hook"
        <5>1. hookmask' = hookmask \ {"active"}
          BY <2>2, <4>1
        <5> QED BY <1>1, <5>1 DEF Event
      <4>2. CASE Top.kind \in {"finalizer", "vmevent"}
        <5>1. hookmask' = hook_restore(Top.saved)
          BY <2>2, <4>2
        <5> QED BY <1>1, <2>4, <4>2, <5>1, RestoreEffect
      <4>3. CASE Top.kind \notin {"hook", "finalizer", "vmevent"}
        <5>1. hookmask' = hookmask
          BY <2>2, <2>6, <4>3
        <5> QED BY <1>1, <5>1
      <4> QED BY <4>1, <4>2, <4>3
    <3> QED BY <1>1, <1>4, <2>2, <2>3, <3>1, <3>2
  <2> QED BY <2>5, <2>6
<1>26. CASE ThrowError
  <2>1. PICK c \in 1 .. Len(vmframes) :
          /\ PoppedTo(c - 1) /\ vmframes[c].kind \in Protected
          /\ vmframes[c].kind \in {"pcall", "resume"} => hookmask' = hookmask \ {"active"}
          /\ vmframes[c].kind = "pcallh" => hookmask' = hookmask
          /\ vmframes[c].kind \in {"lua_pcall", "vmevent", "finalizer"} =>
               hookmask' = hook_restore(vmframes[c].saved)
    BY <1>1, <1>26, ThrowEffect
  <2>2. disp' = disp /\ jiton' = jiton /\ jstate' = Aborting(jstate) /\ timer' = timer
    BY <1>26 DEF ThrowError
  <2>3. vmframes' \in Seq(Frame) /\ SavedSmall'
    BY <1>1, <2>1, SavedPopped
  <2>4. hookmask' \in SUBSET Bits /\ hookmask' \cap Event = hookmask \cap Event
    <3>1. CASE vmframes[c].kind \in {"pcall", "resume"}
      BY <1>1, <2>1, <3>1 DEF Event
    <3>2. CASE vmframes[c].kind = "pcallh"
      BY <1>1, <2>1, <3>2
    <3>3. CASE vmframes[c].kind \in {"lua_pcall", "vmevent", "finalizer"}
      <4>1. vmframes[c].saved \in SUBSET Bits /\ vmframes[c].saved \cap Event = {}
        BY <1>1, <3>3, FrameTypes DEF SavedSmall
      <4> QED BY <1>1, <2>1, <3>3, <4>1, RestoreEffect
    <3> QED BY <2>1, <3>1, <3>2, <3>3 DEF Protected
  <2> QED BY <1>1, <1>4, <1>6, <2>2, <2>3, <2>4
<1>27. CASE UNCHANGED dispVars
  BY <1>1, <1>4, <1>5, <1>27 DEF dispVars
<1> QED BY <1>9, <1>10, <1>11, <1>12, <1>13, <1>14, <1>15, <1>16, <1>17, <1>20, <1>21, <1>22, <1>23, <1>24,
           <1>25, <1>26, <1>27 DEF DispatchNext

\* The initial state satisfies TableInv.
LEMMA TableInit == DispatchInit => TableInv
<1> SUFFICES ASSUME DispatchInit
             PROVE  TableInv
  OBVIOUS
<1>1. DispatchType
  <2>1. disp \in Disp
    BY DEF DispatchInit, Disp, Ins, Funcs, Targets
  <2>2. hookmask \in SUBSET Bits /\ vmframes \in Seq(Frame)
    BY DEF DispatchInit
  <2> QED BY <2>1, <2>2 DEF DispatchInit, DispatchType, JStates
<1>2. ~ Hot({}) /\ disp.mode = {} /\ disp.stat["ret"] = "plain" /\ disp.stat["other"] = "plain"
  BY DEF DispatchInit, Hot, Ins
<1>3. disp.dyn = TableOf({})
  <2>1. TableOf({}) \in [Ins \cup Funcs -> Targets]
    BY TableEntries
  <2>2. \A i \in Ins \cup Funcs : TableOf({})[i] = "plain"
    BY <1>2, TableEntries DEF Ins, Funcs, CountOf
  <2>3. disp.dyn = [i \in Ins \cup Funcs |-> "plain"]
    BY DEF DispatchInit
  <2> QED BY <2>1, <2>2, <2>3
<1>4. Consistent(disp)
  BY <1>2, <1>3 DEF Consistent
<1>5. Lags /\ SavedSmall
  BY <1>2 DEF DispatchInit, Lags, SavedSmall
<1> QED BY <1>1, <1>4, <1>5 DEF TableInv

\* The table in use is always the one that the hooks, the recorder and JIT_F_ON
\* ask for, whatever lj_dispatch_update() left unwritten in its updates.
THEOREM TableFollowsStateCorrect == DispatchSpec => []TableFollowsState
<1>1. TableInv /\ [DispatchNext]_dispVars => TableInv'
  BY TableStep
<1> QED BY <1>1, TableInit, TableInvImplies, PTL DEF DispatchSpec

\* No hot counter starts a recording while JIT_F_ON is not set.
THEOREM RecordsWhenOnCorrect == DispatchSpec => RecordsWhenOn
<1>1. TableInv /\ [DispatchNext]_dispVars
        => [jstate = "IDLE" /\ jstate' = "RECORD" => jiton]_dispVars
  <2> SUFFICES ASSUME TableInv, DispatchNext, jstate = "IDLE", jstate' = "RECORD"
               PROVE  jiton
    OBVIOUS
  <2>1. DispatchType /\ Consistent(disp) /\ Lags /\ SavedSmall
    BY DEF TableInv
  <2>2. Aborting(jstate) = "IDLE"
    BY DEF Aborting
  <2>3. ASSUME NEW i \in Ins, lj_dispatch_ins(i)
        PROVE  FALSE
    <3>1. PICK js \in JStates : lj_trace_ins(js) /\ Hooked(js)
      BY <2>3 DEF lj_dispatch_ins, Hooked, JStates
    <3> QED BY <2>1, <3>1, HookedEffect DEF lj_trace_ins
  <2>4. ASSUME NEW i \in Funcs, lj_dispatch_call(i)
        PROVE  FALSE
    <3>1. PICK js \in JStates : (lj_trace_ins(js) \/ js = jstate) /\ Hooked(js)
      BY <2>4 DEF lj_dispatch_call, Hooked, JStates
    <3> QED BY <2>1, <3>1, HookedEffect DEF lj_trace_ins
  <2>5. ASSUME NEW i \in {"loop", "func"}, HotCount(i)
        PROVE  jiton
    <3>1. \/ disp.dyn[i] = "hot"
          \/ disp.dyn[i] \in {"inshook", "record"} /\ disp.stat[i] = "hot"
          \/ disp.dyn[i] = "callhook" /\ jiton
      BY <2>5 DEF HotCount
    <3>2. /\ Hot(disp.mode) => jiton
          /\ disp.dyn = TableOf(disp.mode)
      BY <2>1 DEF Lags, Hot, Consistent
    <3>3. CASE i = "loop"
      <4>1. CASE "INS" \in disp.mode
        <5>1. disp.dyn[i] \in {"profhook", "record", "inshook"} /\ disp.stat[i] = CountOf(disp.mode)
          BY <2>1, <3>2, <3>3, <4>1, TableEntries DEF Ins, Consistent
        <5> QED BY <3>1, <3>2, <5>1 DEF CountOf
      <4>2. CASE "INS" \notin disp.mode
        <5>1. disp.dyn[i] = CountOf(disp.mode)
          BY <3>2, <3>3, <4>2, TableEntries
        <5> QED BY <3>1, <3>2, <5>1 DEF CountOf
      <4> QED BY <4>1, <4>2
    <3>4. CASE i = "func"
      <4>1. disp.dyn[i] = "callhook" \/ disp.dyn[i] = CountOf(disp.mode)
        BY <3>2, <3>4, TableEntries
      <4> QED BY <3>1, <3>2, <4>1 DEF CountOf
    <3> QED BY <3>3, <3>4
  <2> QED BY <2>2, <2>3, <2>4, <2>5
       DEF DispatchNext, lj_dispatch_profile, lj_profile_interpreter, lua_sethook, luaJIT_setmode,
           luaJIT_profile_start, luaJIT_profile_stop, profile_trigger, gc_call_finalizer, lj_vmevent_call,
           PCall, lj_vm_resume, lua_pcall, ReturnFrom, ThrowError
<1>2. TableInv /\ [DispatchNext]_dispVars => TableInv'
  BY TableStep
<1> QED BY <1>1, <1>2, TableInit, PTL DEF DispatchSpec, RecordsWhenOn

-----------------------------------------------------------------------------
(* The bits of hookmask that callbacks set. *)

\* What a frame makes of the bits below it.
Above(kind, x) ==
  CASE kind = "hook" -> x \cup {"active"}
    [] kind = "finalizer" -> x \cup {"active", "gc"}
    [] kind = "vmevent" -> x \cup {"active", "vmevent"}
    [] kind = "profile" -> {"vmevent"}
    [] OTHER -> x

\* b gives the bits above each of the frames.
IsBits(fr, b) ==
  /\ b \in [0 .. Len(fr) -> SUBSET Nested] /\ b[0] = {}
  /\ \A i \in 1 .. Len(fr) : b[i] = Above(fr[i].kind, b[i - 1])

\* What was saved, and what pcall() and the hooks saw, were the bits below.
FramesKnow(fr, b) ==
  \A i \in 1 .. Len(fr) :
    /\ fr[i].kind \in {"finalizer", "vmevent", "lua_pcall", "profile"} => fr[i].saved \cap Nested = b[i - 1]
    /\ fr[i].kind \in {"hook", "pcall", "resume"} => "active" \notin b[i - 1]
    /\ fr[i].kind = "pcallh" => "active" \in b[i - 1]

BitsKnown(b) == IsBits(vmframes, b) /\ FramesKnow(vmframes, b) /\ hookmask \cap Nested = b[Len(vmframes)]
BitsInv == TableInv /\ \E b : BitsKnown(b)

\* FrameBits is what a function with its equations gives for all frames.
LEMMA BitsUnique ==
  ASSUME NEW fr \in Seq(Frame), NEW b, IsBits(fr, b)
  PROVE  FrameBits(fr) = b[Len(fr)]
<1> DEFINE n == Len(fr)
           isDef(h) == h = [i \in 0 .. n |->
             IF i = 0 THEN {}
             ELSE CASE fr[i].kind = "hook" -> h[i - 1] \cup {"active"}
                    [] fr[i].kind = "finalizer" -> h[i - 1] \cup {"active", "gc"}
                    [] fr[i].kind = "vmevent" -> h[i - 1] \cup {"active", "vmevent"}
                    [] fr[i].kind = "profile" -> {"vmevent"}
                    [] OTHER -> h[i - 1]]
           bits == CHOOSE h : isDef(h)
<1>1. FrameBits(fr) = bits[n]
  BY DEF FrameBits
<1>2. n \in Nat
  OBVIOUS
<1>3. ASSUME NEW h
      PROVE  isDef(h) <=> h = [i \in 0 .. n |-> IF i = 0 THEN {} ELSE Above(fr[i].kind, h[i - 1])]
  BY DEF Above
<1>4. isDef(b)
  <2> HIDE DEF isDef, n
  <2>1. b = [i \in 0 .. n |-> b[i]]
    BY DEF IsBits, n
  <2>2. \A i \in 0 .. n : b[i] = IF i = 0 THEN {} ELSE Above(fr[i].kind, b[i - 1])
    <3>1. \A i \in 0 .. n : i = 0 \/ i \in 1 .. n
      BY <1>2
    <3> QED BY <3>1 DEF IsBits, n
  <2>3. b = [i \in 0 .. n |-> IF i = 0 THEN {} ELSE Above(fr[i].kind, b[i - 1])]
    BY <2>1, <2>2
  <2> QED BY <1>3, <2>3
<1> HIDE DEF isDef
<1>5. isDef(bits)
  BY <1>4
<1> HIDE DEF bits, n
<1>6. bits[0] = {} /\ \A i \in 1 .. n : bits[i] = Above(fr[i].kind, bits[i - 1])
  <2>1. bits = [i \in 0 .. n |-> IF i = 0 THEN {} ELSE Above(fr[i].kind, bits[i - 1])]
    BY <1>3, <1>5
  <2>2. 0 \in 0 .. n /\ \A i \in 1 .. n : i \in 0 .. n /\ i # 0
    BY <1>2
  <2> QED BY <2>1, <2>2
<1>7. bits[0] = b[0] /\ \A i \in 1 .. n : bits[i - 1] = b[i - 1] => bits[i] = b[i]
  BY <1>6 DEF IsBits, n
<1>8. \A i \in 0 .. n : bits[i] = b[i]
  BY <1>2, <1>7, AccumulationUnique, SMTT(60)
<1>9. n \in 0 .. n
  BY <1>2
<1> QED BY <1>1, <1>8, <1>9 DEF n

\* What a frame adds stays within the nested bits.
LEMMA AboveNested ==
  ASSUME NEW kind, NEW x \in SUBSET Nested
  PROVE  /\ Above(kind, x) \in SUBSET Nested
         /\ kind = "hook" => Above(kind, x) = x \cup {"active"}
         /\ kind = "finalizer" => Above(kind, x) = x \cup {"active", "gc"}
         /\ kind = "vmevent" => Above(kind, x) = x \cup {"active", "vmevent"}
         /\ kind = "profile" => Above(kind, x) = {"vmevent"}
         /\ kind \in {"pcall", "pcallh", "resume", "lua_pcall"} => Above(kind, x) = x
BY DEF Above, Nested

\* Pushing a frame keeps what the frames say of the bits.
LEMMA BitsPushed ==
  ASSUME DispatchType, NEW b, BitsKnown(b), NEW f \in Frame, Pushed(f),
         f.kind \in {"finalizer", "vmevent", "lua_pcall", "profile"} => f.saved \cap Nested = hookmask \cap Nested,
         f.kind \in {"hook", "pcall", "resume"} => "active" \notin hookmask,
         f.kind = "pcallh" => "active" \in hookmask,
         hookmask' \cap Nested = Above(f.kind, hookmask \cap Nested)
  PROVE  \E d : BitsKnown(d)'
<1> DEFINE n == Len(vmframes)
           x == Above(f.kind, b[n])
           ext == [i \in 0 .. n + 1 |-> IF i = n + 1 THEN x ELSE b[i]]
<1>1. n \in Nat
  BY FrameTypes
<1> HIDE DEF n
<1>2. /\ b \in [0 .. n -> SUBSET Nested] /\ b[0] = {} /\ b[n] = hookmask \cap Nested
      /\ \A i \in 1 .. n : b[i] = Above(vmframes[i].kind, b[i - 1])
  BY DEF BitsKnown, IsBits, n
<1>3. x \in SUBSET Nested
  <2>1. b[n] \in SUBSET Nested
    BY <1>1, <1>2
  <2> QED BY <2>1, AboveNested
<1>4. x = hookmask' \cap Nested
  BY <1>2
<1> HIDE DEF x
<1>a. /\ ext \in [0 .. n + 1 -> SUBSET Nested] /\ ext[0] = {} /\ ext[n + 1] = x /\ \A i \in 0 .. n : ext[i] = b[i]
  BY <1>1, <1>2, <1>3
<1> HIDE DEF ext
<1>5. PICK d : /\ d \in [0 .. n + 1 -> SUBSET Nested] /\ d[0] = {} /\ d[n + 1] = x
               /\ \A i \in 0 .. n : d[i] = b[i]
  BY <1>a
<1>6. /\ Len(vmframes') = n + 1 /\ vmframes'[n + 1] = f /\ \A i \in 1 .. n : vmframes'[i] = vmframes[i]
  BY DEF Pushed, n
<1>7. \A i \in 1 .. n + 1 : (i \in 1 .. n /\ i - 1 \in 0 .. n /\ i \in 0 .. n) \/ (i = n + 1 /\ i - 1 = n /\ n \in 0 .. n)
  BY <1>1
<1>8. IsBits(vmframes', d)
  <2>1. x = Above(f.kind, b[n])
    BY DEF x
  <2>2. ASSUME NEW i \in 1 .. n + 1
        PROVE  d[i] = Above(vmframes'[i].kind, d[i - 1])
    BY <1>2, <1>5, <1>6, <1>7, <2>1
  <2> QED BY <1>5, <1>6, <2>2 DEF IsBits
<1>9. FramesKnow(vmframes', d)
  <2>1. FramesKnow(vmframes, b)
    BY DEF BitsKnown
  <2>2. ASSUME NEW i \in 1 .. n
        PROVE  vmframes'[i] = vmframes[i] /\ d[i - 1] = b[i - 1]
    <3>1. i - 1 \in 0 .. n
      BY <1>1
    <3> QED BY <1>5, <1>6, <3>1
  <2>3. d[n] = hookmask \cap Nested /\ "active" \in Nested
    BY <1>1, <1>2, <1>5 DEF Nested
  <2>4. ASSUME NEW i \in 1 .. n + 1
        PROVE  /\ vmframes'[i].kind \in {"finalizer", "vmevent", "lua_pcall", "profile"}
                    => vmframes'[i].saved \cap Nested = d[i - 1]
               /\ vmframes'[i].kind \in {"hook", "pcall", "resume"} => "active" \notin d[i - 1]
               /\ vmframes'[i].kind = "pcallh" => "active" \in d[i - 1]
    <3>1. CASE i \in 1 .. n
      BY <2>1, <2>2, <3>1 DEF FramesKnow, n
    <3>2. CASE i = n + 1
      <4>1. i - 1 = n
        BY <1>1, <3>2
      <4> QED BY <1>6, <2>3, <3>2, <4>1
    <3> QED BY <1>7, <3>1, <3>2
  <2> QED BY <1>6, <2>4 DEF FramesKnow
<1>10. BitsKnown(d)'
  BY <1>4, <1>5, <1>6, <1>8, <1>9 DEF BitsKnown
<1> QED BY <1>10

\* Popping frames keeps what the frames say of the bits.
LEMMA BitsPopped ==
  ASSUME DispatchType, NEW b, BitsKnown(b), NEW m, PoppedTo(m), hookmask' \cap Nested = b[m]
  PROVE  \E d : BitsKnown(d)'
<1> DEFINE n == Len(vmframes)
           d == [i \in 0 .. m |-> b[i]]
<1>1. n \in Nat /\ m \in 0 .. n /\ m \in Nat /\ m <= n
  BY FrameTypes DEF PoppedTo
<1> HIDE DEF n
<1>2. /\ b \in [0 .. n -> SUBSET Nested] /\ b[0] = {}
      /\ \A i \in 1 .. n : b[i] = Above(vmframes[i].kind, b[i - 1])
  BY DEF BitsKnown, IsBits, n
<1>3. Len(vmframes') = m /\ \A i \in 1 .. m : vmframes'[i] = vmframes[i]
  BY DEF PoppedTo
<1>4. \A i \in 1 .. m : i \in 1 .. n /\ i \in 0 .. m /\ i - 1 \in 0 .. m
  BY <1>1
<1>5. d \in [0 .. m -> SUBSET Nested] /\ \A i \in 0 .. m : d[i] = b[i]
  <2>1. \A i \in 0 .. m : i \in 0 .. n
    BY <1>1
  <2> QED BY <1>2, <2>1
<1> HIDE DEF d
<1>6. IsBits(vmframes', d)
  <2>1. d[0] = {}
    BY <1>1, <1>2, <1>5
  <2> QED BY <1>2, <1>3, <1>4, <1>5, <2>1 DEF IsBits
<1>7. FramesKnow(vmframes', d)
  <2>1. FramesKnow(vmframes, b)
    BY DEF BitsKnown
  <2> QED BY <1>3, <1>4, <1>5, <2>1 DEF FramesKnow, n
<1>8. d[m] = b[m]
  BY <1>1, <1>5
<1>9. BitsKnown(d)'
  BY <1>3, <1>6, <1>7, <1>8 DEF BitsKnown
<1> QED BY <1>9

\* Hooks that run above a frame change HOOK_ACTIVE at most.
LEMMA HooksAbove ==
  ASSUME DispatchType, NEW b, BitsKnown(b), NEW c \in 0 .. Len(vmframes),
         \A i \in c + 1 .. Len(vmframes) : vmframes[i].kind = "hook"
  PROVE  /\ b[Len(vmframes)] \ {"active"} = b[c] \ {"active"}
         /\ "active" \in b[c] => b[Len(vmframes)] = b[c]
<1> DEFINE n == Len(vmframes)
           ok(j) == b[j] \ {"active"} = b[c] \ {"active"} /\ ("active" \in b[c] => b[j] = b[c])
           S == {k \in Nat : c + k <= n => ok(c + k)}
<1>1. n \in Nat /\ c \in Nat /\ c <= n
  BY FrameTypes
<1> HIDE DEF n
<1>2. /\ b \in [0 .. n -> SUBSET Nested]
      /\ \A i \in 1 .. n : b[i] = Above(vmframes[i].kind, b[i - 1])
      /\ \A i \in c + 1 .. n : vmframes[i].kind = "hook"
  BY DEF BitsKnown, IsBits, n
<1>3. 0 \in S
  <2>1. c + 0 = c
    BY <1>1
  <2> QED BY <2>1
<1>4. ASSUME NEW k \in Nat, k \in S
      PROVE  k + 1 \in S
  <2> SUFFICES ASSUME c + (k + 1) <= n
               PROVE  ok(c + (k + 1))
    OBVIOUS
  <2>1. c + k <= n /\ c + (k + 1) \in 1 .. n /\ c + (k + 1) \in c + 1 .. n /\ c + (k + 1) - 1 = c + k /\ c + k \in 0 .. n
    BY <1>1, <1>4
  <2>2. ok(c + k)
    BY <1>4, <2>1
  <2>3. b[c + (k + 1)] = b[c + k] \cup {"active"}
    BY <1>2, <2>1, AboveNested
  <2> QED BY <2>2, <2>3
<1> HIDE DEF S
<1>5. n - c \in S
  <2>1. n - c \in Nat
    BY <1>1
  <2> QED BY <1>3, <1>4, <2>1, SetInduction
<1>6. c + (n - c) = n
  BY <1>1
<1> HIDE DEF ok
<1>7. ok(n)
  BY <1>1, <1>5, <1>6 DEF S
<1> QED BY <1>7 DEF ok, n

\* The inductive step of the bits.
LEMMA BitsStep ==
  ASSUME BitsInv, [DispatchNext]_dispVars
  PROVE  BitsInv'
<1> SUFFICES \E d : BitsKnown(d)'
  BY TableStep DEF BitsInv
<1>1. PICK b : BitsKnown(b)
  BY DEF BitsInv
<1>2. DispatchType /\ hookmask \in SUBSET Bits
  BY DEF BitsInv, TableInv, DispatchType
<1>3. ASSUME vmframes' = vmframes, hookmask' \cap Nested = hookmask \cap Nested
      PROVE  \E d : BitsKnown(d)'
  <2>1. BitsKnown(b)'
    BY <1>1, <1>3 DEF BitsKnown
  <2> QED BY <2>1
<1>4. ASSUME NEW kind \in Kinds, NEW saved \in SUBSET Bits, Push(kind, saved),
             kind \in {"finalizer", "vmevent", "lua_pcall", "profile"} => saved \cap Nested = hookmask \cap Nested,
             kind \in {"hook", "pcall", "resume"} => "active" \notin hookmask,
             kind = "pcallh" => "active" \in hookmask,
             hookmask' \cap Nested = Above(kind, hookmask \cap Nested)
      PROVE  \E d : BitsKnown(d)'
  <2>1. PICK f \in Frame : f.kind = kind /\ f.saved = saved /\ Pushed(f)
    BY <1>2, <1>4, PushEffect
  <2> QED BY <1>1, <1>2, <1>4, <2>1, BitsPushed
<1>5. \A x : (hookmask \cup x) \cap Nested = (hookmask \cap Nested) \cup (x \cap Nested)
  OBVIOUS
<1>6. hookmask \cap Nested \in SUBSET Nested /\ "active" \in Nested /\ "vmevent" \in Nested /\ "gc" \in Nested
  BY DEF Nested
<1>7. /\ Above("hook", hookmask \cap Nested) = (hookmask \cap Nested) \cup {"active"}
      /\ Above("finalizer", hookmask \cap Nested) = (hookmask \cap Nested) \cup {"active", "gc"}
      /\ Above("vmevent", hookmask \cap Nested) = (hookmask \cap Nested) \cup {"active", "vmevent"}
      /\ Above("profile", hookmask \cap Nested) = {"vmevent"}
      /\ \A kind \in {"pcall", "pcallh", "resume", "lua_pcall"} :
           Above(kind, hookmask \cap Nested) = hookmask \cap Nested
  BY <1>6, AboveNested
<1>8. hook_save \in SUBSET Bits /\ hook_save \cap Nested = hookmask \cap Nested /\ {} \in SUBSET Bits
  BY <1>2 DEF hook_save, Event, Nested
<1>9. ASSUME NEW js, Hooked(js)
      PROVE  \E d : BitsKnown(d)'
  <2>1. CASE callhook(js)
    <3>1. "active" \notin hookmask /\ hookmask' = hookmask \cup {"active"} /\ Push("hook", {})
      BY <2>1 DEF callhook
    <3>2. hookmask' \cap Nested = (hookmask \cap Nested) \cup {"active"} /\ "hook" \in Kinds
      BY <1>6, <3>1 DEF Kinds
    <3> QED BY <1>4, <1>7, <1>8, <3>1, <3>2
  <2>2. CASE hookmask' = hookmask /\ jstate' = js /\ UNCHANGED vmframes
    BY <1>3, <2>2
  <2> QED BY <1>9, <2>1, <2>2 DEF Hooked
<1>10. ASSUME NEW i \in Ins, lj_dispatch_ins(i)
       PROVE  \E d : BitsKnown(d)'
  <2>1. \E js : Hooked(js)
    BY <1>10 DEF lj_dispatch_ins, Hooked
  <2> QED BY <1>9, <2>1
<1>11. ASSUME NEW i \in Ins, lj_dispatch_profile(i)
       PROVE  \E d : BitsKnown(d)'
  <2> DEFINE mask == hookmask \ {"profile"}
  <2>1. mask \in SUBSET Bits /\ mask \cap Nested = hookmask \cap Nested
    BY <1>2 DEF Nested
  <2>2. \/ hookmask' = mask /\ vmframes' = vmframes
        \/ hookmask' = {"vmevent"} /\ Push("profile", mask)
    BY <1>11 DEF lj_dispatch_profile, lj_profile_interpreter
  <2> HIDE DEF mask
  <2>3. CASE hookmask' = mask /\ vmframes' = vmframes
    BY <1>3, <2>1, <2>3
  <2>4. CASE hookmask' = {"vmevent"} /\ Push("profile", mask)
    <3>1. hookmask' \cap Nested = {"vmevent"} /\ "profile" \in Kinds
      BY <1>6, <2>4 DEF Kinds
    <3> QED BY <1>4, <1>7, <2>1, <2>4, <3>1
  <2> QED BY <2>2, <2>3, <2>4
<1>12. ASSUME NEW i \in Funcs, lj_dispatch_call(i)
       PROVE  \E d : BitsKnown(d)'
  <2>1. \E js : Hooked(js)
    BY <1>12 DEF lj_dispatch_call, Hooked
  <2> QED BY <1>9, <2>1
<1>13. ASSUME NEW i, HotCount(i)
       PROVE  \E d : BitsKnown(d)'
  BY <1>3, <1>13 DEF HotCount
<1>14. ASSUME NEW mask \in SUBSET HookEvents, lua_sethook(mask)
       PROVE  \E d : BitsKnown(d)'
  <2>1. hookmask' = (hookmask \ Event) \cup mask /\ vmframes' = vmframes
    BY <1>14 DEF lua_sethook
  <2>2. mask \cap Nested = {}
    BY DispatchAssumption DEF Nested
  <2>3. hookmask' \cap Nested = hookmask \cap Nested
    BY <2>1, <2>2 DEF Nested, Event
  <2> QED BY <1>3, <2>1, <2>3
<1>15. ASSUME NEW on \in BOOLEAN, luaJIT_setmode(on)
       PROVE  \E d : BitsKnown(d)'
  BY <1>3, <1>15 DEF luaJIT_setmode
<1>16. CASE luaJIT_profile_start
  BY <1>3, <1>16 DEF luaJIT_profile_start
<1>17. CASE luaJIT_profile_stop
  <2>1. hookmask' \cap Nested = hookmask \cap Nested /\ vmframes' = vmframes
    BY <1>17 DEF luaJIT_profile_stop, Nested
  <2> QED BY <1>3, <2>1
<1>18. CASE profile_trigger
  <2>1. hookmask' \cap Nested = hookmask \cap Nested /\ vmframes' = vmframes
    BY <1>18 DEF profile_trigger, Nested
  <2> QED BY <1>3, <2>1
<1>19. CASE gc_call_finalizer
  <2>1. hookmask' = hookmask \cup {"active", "gc"} /\ Push("finalizer", hook_save)
    BY <1>19 DEF gc_call_finalizer
  <2>2. hookmask' \cap Nested = (hookmask \cap Nested) \cup {"active", "gc"} /\ "finalizer" \in Kinds
    BY <1>6, <2>1 DEF Kinds
  <2> QED BY <1>4, <1>7, <1>8, <2>1, <2>2
<1>20. CASE lj_vmevent_call
  <2>1. hookmask' = hookmask \cup {"active", "vmevent"} /\ Push("vmevent", hook_save)
    BY <1>20 DEF lj_vmevent_call
  <2>2. hookmask' \cap Nested = (hookmask \cap Nested) \cup {"active", "vmevent"} /\ "vmevent" \in Kinds
    BY <1>6, <2>1 DEF Kinds
  <2> QED BY <1>4, <1>7, <1>8, <2>1, <2>2
<1>21. CASE PCall
  <2>1. hookmask' = hookmask /\ Push(IF "active" \in hookmask THEN "pcallh" ELSE "pcall", {})
    BY <1>21 DEF PCall
  <2>2. "pcall" \in Kinds /\ "pcallh" \in Kinds
    BY DEF Kinds
  <2>3. CASE "active" \in hookmask
    BY <1>4, <1>7, <1>8, <2>1, <2>2, <2>3
  <2>4. CASE "active" \notin hookmask
    BY <1>4, <1>7, <1>8, <2>1, <2>2, <2>4
  <2> QED BY <2>3, <2>4
<1>22. CASE lj_vm_resume
  <2>1. "active" \notin hookmask /\ hookmask' = hookmask /\ Push("resume", {}) /\ "resume" \in Kinds
    BY <1>22 DEF lj_vm_resume, Kinds
  <2> QED BY <1>4, <1>7, <1>8, <2>1
<1>23. CASE lua_pcall
  <2>1. hookmask' = hookmask /\ Push("lua_pcall", hook_save) /\ "lua_pcall" \in Kinds
    BY <1>23 DEF lua_pcall, Kinds
  <2> QED BY <1>4, <1>7, <1>8, <2>1
<1>24. /\ b \in [0 .. Len(vmframes) -> SUBSET Nested]
       /\ \A i \in 1 .. Len(vmframes) : b[i] = Above(vmframes[i].kind, b[i - 1])
       /\ FramesKnow(vmframes, b) /\ hookmask \cap Nested = b[Len(vmframes)]
  BY <1>1 DEF BitsKnown, IsBits
<1>25. \A saved : hook_restore(saved) \cap Nested = saved \cap Nested
  BY DEF hook_restore, Event, Nested
<1>26. CASE ReturnFrom
  <2> DEFINE n == Len(vmframes)
  <2>1. n \in Nat /\ n \in 1 .. n /\ n - 1 \in 0 .. n /\ b[n - 1] \in SUBSET Nested /\ b[n] = Above(Top.kind, b[n - 1])
    <3>1. n \in Nat /\ n # 0
      BY <1>2, <1>26, FrameTypes DEF ReturnFrom, DispatchType
    <3> QED BY <1>24, <3>1 DEF Top
  <2>2. /\ PoppedTo(n - 1)
        /\ hookmask' = CASE Top.kind = "hook" -> hookmask \ {"active"}
                         [] Top.kind \in {"finalizer", "vmevent"} -> hook_restore(Top.saved)
                         [] Top.kind = "profile" -> Top.saved \cup (hookmask \cap {"profile"})
                         [] OTHER -> hookmask
    BY <1>2, <1>26, <2>1, PopEffect DEF ReturnFrom, Pop
  <2>3. /\ Top.kind \in Kinds
        /\ Top.kind \in {"finalizer", "vmevent", "lua_pcall", "profile"} => Top.saved \cap Nested = b[n - 1]
        /\ Top.kind \in {"hook", "pcall", "resume"} => "active" \notin b[n - 1]
    BY <1>2, <1>24, <2>1, FrameTypes DEF FramesKnow, Top
  <2>4. hookmask' \cap Nested = b[n - 1]
    <3>1. CASE Top.kind = "hook"
      <4>1. hookmask' = hookmask \ {"active"}
        BY <2>2, <3>1
      <4>2. hookmask \cap Nested = b[n - 1] \cup {"active"} /\ "active" \notin b[n - 1]
        BY <1>24, <2>1, <2>3, <3>1, AboveNested
      <4> QED BY <2>1, <4>1, <4>2
    <3>2. CASE Top.kind \in {"finalizer", "vmevent"}
      <4>1. hookmask' = hook_restore(Top.saved)
        BY <2>2, <3>2
      <4> QED BY <1>25, <2>3, <3>2, <4>1
    <3>3. CASE Top.kind = "profile"
      <4>1. hookmask' = Top.saved \cup (hookmask \cap {"profile"})
        BY <2>2, <3>3
      <4>2. "profile" \notin Nested
        BY DEF Nested
      <4> QED BY <2>3, <3>3, <4>1, <4>2
    <3>4. CASE Top.kind \in {"pcall", "pcallh", "resume", "lua_pcall"}
      <4>1. hookmask' = hookmask
        BY <2>2, <3>4
      <4>2. b[n] = b[n - 1]
        BY <2>1, <3>4, AboveNested
      <4> QED BY <1>24, <4>1, <4>2
    <3> QED BY <2>3, <3>1, <3>2, <3>3, <3>4 DEF Kinds
  <2> QED BY <1>1, <1>2, <2>2, <2>4, BitsPopped
<1>27. CASE ThrowError
  <2>1. PICK c \in 1 .. Len(vmframes) :
          /\ PoppedTo(c - 1) /\ vmframes[c].kind \in Protected
          /\ \A i \in c + 1 .. Len(vmframes) : vmframes[i].kind = "hook"
          /\ vmframes[c].kind \in {"pcall", "resume"} => hookmask' = hookmask \ {"active"}
          /\ vmframes[c].kind = "pcallh" => hookmask' = hookmask
          /\ vmframes[c].kind \in {"lua_pcall", "vmevent", "finalizer"} =>
               hookmask' = hook_restore(vmframes[c].saved)
    BY <1>2, <1>27, ThrowEffect
  <2>2. c \in 0 .. Len(vmframes) /\ c - 1 \in 0 .. Len(vmframes)
    BY <1>2, FrameTypes
  <2>3. /\ b[Len(vmframes)] \ {"active"} = b[c] \ {"active"}
        /\ "active" \in b[c] => b[Len(vmframes)] = b[c]
    BY <1>1, <1>2, <2>1, <2>2, HooksAbove
  <2>4. /\ vmframes[c].kind \in {"finalizer", "vmevent", "lua_pcall"} => vmframes[c].saved \cap Nested = b[c - 1]
        /\ vmframes[c].kind \in {"pcall", "resume"} => "active" \notin b[c - 1]
        /\ vmframes[c].kind = "pcallh" => "active" \in b[c - 1]
    BY <1>24 DEF FramesKnow
  <2>5. /\ b[c - 1] \in SUBSET Nested
        /\ vmframes[c].kind \in {"pcall", "pcallh", "resume"} => b[c] = b[c - 1]
    BY <1>24, <2>2, AboveNested
  <2>6. hookmask' \cap Nested = b[c - 1]
    <3>1. CASE vmframes[c].kind \in {"pcall", "resume"}
      <4>1. hookmask' = hookmask \ {"active"}
        BY <2>1, <3>1
      <4>2. hookmask' \cap Nested = b[Len(vmframes)] \ {"active"}
        BY <1>24, <4>1
      <4> QED BY <2>3, <2>4, <2>5, <3>1, <4>2
    <3>2. CASE vmframes[c].kind = "pcallh"
      <4>1. hookmask' \cap Nested = b[Len(vmframes)]
        BY <1>24, <2>1, <3>2
      <4> QED BY <2>3, <2>4, <2>5, <3>2, <4>1
    <3>3. CASE vmframes[c].kind \in {"lua_pcall", "vmevent", "finalizer"}
      BY <1>25, <2>1, <2>4, <3>3
    <3> QED BY <2>1, <3>1, <3>2, <3>3 DEF Protected
  <2> QED BY <1>1, <1>2, <2>1, <2>6, BitsPopped
<1>28. CASE UNCHANGED dispVars
  BY <1>3, <1>28 DEF dispVars
<1> QED BY <1>10, <1>11, <1>12, <1>13, <1>14, <1>15, <1>16, <1>17, <1>18, <1>19, <1>20, <1>21, <1>22, <1>23,
           <1>26, <1>27, <1>28 DEF DispatchNext

\* The initial state satisfies the invariant of the bits.
LEMMA BitsInit == DispatchInit => BitsInv
<1> SUFFICES ASSUME DispatchInit
             PROVE  \E b : BitsKnown(b)
  BY TableInit DEF BitsInv
<1> DEFINE b == [i \in 0 .. 0 |-> {}]
<1>1. vmframes = <<>> /\ Len(vmframes) = 0 /\ hookmask = {}
  BY DEF DispatchInit
<1>2. b \in [0 .. 0 -> SUBSET Nested] /\ b[0] = {}
  OBVIOUS
<1> HIDE DEF b
<1>3. BitsKnown(b)
  BY <1>1, <1>2 DEF BitsKnown, IsBits, FramesKnow
<1> QED BY <1>3

\* HOOK_ACTIVE, HOOK_GC and HOOK_VMEVENT are set exactly while their callbacks
\* run, however these nest, return, or are unwound.
THEOREM BitsFollowFramesCorrect == DispatchSpec => []BitsFollowFrames
<1>1. BitsInv /\ [DispatchNext]_dispVars => BitsInv'
  BY BitsStep
<1>2. BitsInv => BitsFollowFrames
  <2> SUFFICES ASSUME BitsInv
               PROVE  BitsFollowFrames
    OBVIOUS
  <2>1. PICK b : BitsKnown(b)
    BY DEF BitsInv
  <2>2. vmframes \in Seq(Frame)
    BY DEF BitsInv, TableInv, DispatchType
  <2>3. FrameBits(vmframes) = b[Len(vmframes)]
    BY <2>1, <2>2, BitsUnique DEF BitsKnown
  <2> QED BY <2>1, <2>3 DEF BitsKnown, BitsFollowFrames, Nested
<1> QED BY <1>1, <1>2, BitsInit, PTL DEF DispatchSpec

-----------------------------------------------------------------------------
(* The limits of the stack: lj_state.c and lj_err.c. *)

Mark == [kind : {"pcall", "handler"}, top : Nat, handler : BOOLEAN]
Errors == {"none", "errerr", "overflow", "error", "message"}

StackType ==
  /\ stacksize \in Nat /\ used \in Nat
  /\ marks \in Seq(Mark) /\ Len(marks) >= 1
  /\ status \in {"OK", "ERRERR"} /\ caught \in Errors

\* Marks are in the order of their heights, below what is in use; the first is the
\* protected call that runs the coroutine.
MarksOrdered ==
  /\ marks[1].kind = "pcall"
  /\ \A i, j \in DOMAIN marks : i <= j => marks[i].top <= marks[j].top
  /\ \A i \in DOMAIN marks : marks[i].top <= used

\* Protected calls were made below maxstack, where the stack will be limited again.
PCallsLow ==
  \A i \in DOMAIN marks : marks[i].kind = "pcall" => marks[i].top <= Limit /\ marks[i].top < LJ_STACK_MAX - 1

\* Only a handler that was just called is above maxstack, by its two slots.
InRoom ==
  used <= Limit \/ (Last(marks).kind = "handler" /\ used = Last(marks).top /\ used <= Limit + 2)

\* A stack beyond the limit belongs to a handler, which has its room there; an
\* error is an error in the handler then.
LargeForHandler ==
  stacksize > LJ_STACK_MAXEX =>
    /\ status = "ERRERR"
    /\ \E i \in DOMAIN marks : marks[i].kind = "handler"
    /\ \A i \in DOMAIN marks : marks[i].kind = "handler" => marks[i].top + LUA_MINSTACK <= Limit

StackInv == StackType /\ MarksOrdered /\ PCallsLow /\ InRoom /\ LargeForHandler

-----------------------------------------------------------------------------
\* The members of the list of marks.
LEMMA MarkTypes ==
  ASSUME marks \in Seq(Mark)
  PROVE  /\ DOMAIN marks = 1 .. Len(marks) /\ Len(marks) \in Nat
         /\ \A i \in DOMAIN marks : /\ marks[i] \in Mark
                                  /\ marks[i].kind \in {"pcall", "handler"}
                                  /\ marks[i].top \in Nat
                                  /\ marks[i].handler \in BOOLEAN
<1>1. \A i \in DOMAIN marks : marks[i] \in Mark
  OBVIOUS
<1> QED BY <1>1 DEF Mark

\* What is left of the marks below one of them.
LEMMA FirstMarks ==
  ASSUME marks \in Seq(Mark), NEW n \in DOMAIN marks
  PROVE  /\ SubSeq(marks, 1, n) \in Seq(Mark) /\ Len(SubSeq(marks, 1, n)) = n
         /\ DOMAIN SubSeq(marks, 1, n) = 1 .. n
         /\ \A i \in 1 .. n : SubSeq(marks, 1, n)[i] = marks[i]
<1>1. \A i \in 1 .. n : marks[i] \in Mark
  OBVIOUS
<1>2. n \in Nat /\ n >= 1
  OBVIOUS
<1> QED BY <1>1, <1>2, SubSeqProperties

\* The innermost protected call is one of the marks.
LEMMA InnerIsPCall ==
  ASSUME StackType, MarksOrdered
  PROVE  Inner \in DOMAIN marks /\ marks[Inner].kind = "pcall"
<1>1. DOMAIN marks = 1 .. Len(marks) /\ Len(marks) \in Nat
  BY DEF StackType
<1>2. PCalls # {} /\ PCalls \subseteq 1 .. Len(marks)
  BY <1>1 DEF PCalls, StackType, MarksOrdered
<1>3. \E i \in PCalls : \A j \in PCalls : j <= i
  <2>1. PCalls \in SUBSET (0 .. Len(marks))
    BY <1>1, <1>2
  <2> QED BY <1>1, <1>2, <2>1, GreatestMember
<1>4. Inner \in PCalls
  BY <1>3 DEF Inner
<1> QED BY <1>4 DEF PCalls

\* Unwinding to a protected call leaves a stack within the limit.
LEMMA ThrowKeepsInv ==
  ASSUME StackInv, NEW size \in Nat, size >= stacksize, NEW err \in Errors, lj_err_throw(size, err)
  PROVE  StackInv'
<1> DEFINE c == IF Inner = 1 THEN 1 ELSE Inner - 1
           top == marks[Inner].top
<1>1. /\ Inner \in DOMAIN marks /\ marks[Inner].kind = "pcall"
      /\ marks \in Seq(Mark) /\ DOMAIN marks = 1 .. Len(marks) /\ Len(marks) \in Nat
  BY InnerIsPCall DEF StackInv, StackType
<1>2. /\ c \in DOMAIN marks /\ c <= Inner
      /\ top \in Nat /\ top <= Limit /\ top < LJ_STACK_MAX - 1
  <2>1. c \in DOMAIN marks /\ c <= Inner
    BY <1>1
  <2>2. top \in Nat /\ top <= Limit /\ top < LJ_STACK_MAX - 1
    BY <1>1, MarkTypes DEF StackInv, PCallsLow
  <2> QED BY <2>1, <2>2
<1>3. /\ marks' \in Seq(Mark) /\ Len(marks') = c /\ DOMAIN marks' = 1 .. c
      /\ \A i \in 1 .. c : marks'[i] = marks[i]
  BY <1>1, <1>2, FirstMarks DEF lj_err_throw
<1>4. used' = top /\ status' = "OK" /\ caught' = err
  BY DEF lj_err_throw
<1>5. stacksize' \in Nat /\ stacksize' <= LJ_STACK_MAXEX /\ top <= Limit'
  BY <1>2, StackAssumption DEF lj_err_throw, Limit, Resized, LJ_STACK_MAXEX, LJ_STACK_START, StackInv, StackType
<1> HIDE DEF top, c
<1>6. StackType'
  BY <1>2, <1>3, <1>4, <1>5, <1>1 DEF StackType, Errors
<1>7. MarksOrdered'
  <2>1. \A i, j \in 1 .. c : i <= j => marks'[i].top <= marks'[j].top
    BY <1>1, <1>2, <1>3 DEF StackInv, MarksOrdered
  <2>2. \A i \in 1 .. c : marks'[i].top <= used'
    BY <1>1, <1>2, <1>3, <1>4 DEF StackInv, MarksOrdered, top
  <2> QED BY <2>1, <2>2, <1>1, <1>2, <1>3 DEF StackInv, MarksOrdered
<1>8. PCallsLow'
  <2> SUFFICES ASSUME NEW i \in 1 .. c, marks[i].kind = "pcall"
               PROVE  marks[i].top <= Limit' /\ marks[i].top < LJ_STACK_MAX - 1
    BY <1>3 DEF PCallsLow
  <2>1. i \in DOMAIN marks /\ marks[i].top \in Nat /\ marks[i].top <= top
    <3>1. i \in DOMAIN marks /\ i <= Inner
      BY <1>1, <1>2
    <3> QED BY <1>1, <3>1, MarkTypes DEF StackInv, MarksOrdered, top
  <2>2. Limit' \in Int
    BY <1>5, StackAssumption DEF Limit
  <2> QED BY <1>2, <1>5, <2>1, <2>2, StackAssumption
<1> QED BY <1>4, <1>5, <1>6, <1>7, <1>8, StackAssumption
     DEF StackInv, InRoom, LargeForHandler, LJ_STACK_MAXEX

\* A new mark at the top of what is in use.
LEMMA NewMark ==
  ASSUME StackType, MarksOrdered, NEW k \in {"pcall", "handler"}, NEW t \in Nat, t >= used, NEW h \in BOOLEAN,
         marks' = Append(marks, [kind |-> k, top |-> t, handler |-> h]), used' = t
  PROVE  /\ marks' \in Seq(Mark) /\ Len(marks') = Len(marks) + 1
         /\ DOMAIN marks' = 1 .. Len(marks) + 1
         /\ \A i \in DOMAIN marks : marks'[i] = marks[i]
         /\ Last(marks') = [kind |-> k, top |-> t, handler |-> h]
         /\ MarksOrdered'
<1> DEFINE n == Len(marks)
           m == [kind |-> k, top |-> t, handler |-> h]
<1>1. m \in Mark /\ marks \in Seq(Mark) /\ n \in Nat /\ n >= 1 /\ DOMAIN marks = 1 .. n
  BY DEF StackType, Mark
<1>2. /\ marks' \in Seq(Mark) /\ Len(marks') = n + 1 /\ DOMAIN marks' = 1 .. n + 1
      /\ \A i \in 1 .. n : marks'[i] = marks[i]
      /\ marks'[n + 1] = m
  <2> HIDE DEF m
  <2> QED BY <1>1, AppendProperties DEF m
<1>3. \A i \in 1 .. n : marks[i].top \in Nat /\ marks[i].top <= t
  <2> SUFFICES ASSUME NEW i \in DOMAIN marks
               PROVE  marks[i].top \in Nat /\ marks[i].top <= t
    BY <1>1
  <2>1. marks[i].top \in Nat /\ marks[i].top <= used /\ used \in Nat
    BY <1>1, MarkTypes DEF MarksOrdered, StackType
  <2> QED BY <2>1
<1>4. \A i, j \in 1 .. n + 1 : i <= j => marks'[i].top <= marks'[j].top
  <2> TAKE i, j \in 1 .. n + 1
  <2>1. CASE j \in 1 .. n
    BY <2>1, <1>1, <1>2 DEF MarksOrdered
  <2>2. CASE j = n + 1
    BY <2>2, <1>1, <1>2, <1>3
  <2> QED BY <2>1, <2>2, <1>1
<1>5. \A i \in 1 .. n + 1 : marks'[i].top <= used'
  BY <1>1, <1>2, <1>3
<1> QED BY <1>1, <1>2, <1>4, <1>5 DEF MarksOrdered, Last

\* An error, with a handler or without one; the stack may have grown before.
LEMMA ErrorKeepsInv ==
  ASSUME StackInv, NEW size \in Nat, size >= stacksize, NEW err \in Errors,
         used <= size - LJ_STACK_EXTRA - 1,
         size > LJ_STACK_MAXEX /\ stacksize <= LJ_STACK_MAXEX
           => used + 2 + LUA_MINSTACK <= size - LJ_STACK_EXTRA - 1,
         lj_err_run(size, err)
  PROVE  StackInv'
<1>1. CASE ~marks[Inner].handler
  BY <1>1, ThrowKeepsInv DEF lj_err_run
<1>2. CASE marks[Inner].handler /\ status = "ERRERR"
  <2>1. lj_err_throw(size, "errerr")
    BY <1>2 DEF lj_err_run
  <2> QED BY <2>1, ThrowKeepsInv DEF Errors
<1>3. CASE marks[Inner].handler /\ status # "ERRERR"
  <2>1. /\ status' = "ERRERR" /\ stacksize' = size /\ caught' = "none" /\ used' = used + 2
        /\ marks' = Append(marks, [kind |-> "handler", top |-> used + 2, handler |-> FALSE])
    BY <1>3 DEF lj_err_run
  <2>2. used + 2 \in Nat /\ used + 2 >= used
    BY DEF StackInv, StackType
  <2>3. /\ stacksize \in Nat /\ used \in Nat /\ marks \in Seq(Mark)
        /\ DOMAIN marks = 1 .. Len(marks) /\ Len(marks) \in Nat
    BY MarkTypes DEF StackInv, StackType
  <2>4. /\ marks' \in Seq(Mark) /\ Len(marks') = Len(marks) + 1
        /\ DOMAIN marks' = 1 .. Len(marks) + 1
        /\ \A i \in DOMAIN marks : marks'[i] = marks[i]
        /\ Last(marks') = [kind |-> "handler", top |-> used + 2, handler |-> FALSE]
        /\ MarksOrdered'
    BY <2>1, <2>2, <2>3, NewMark DEF StackInv
  <2>5. marks'[Len(marks) + 1] = [kind |-> "handler", top |-> used + 2, handler |-> FALSE]
    BY <2>4 DEF Last
  <2>6. StackType'
    BY <2>1, <2>3, <2>4 DEF StackType, Errors
  <2>7. Limit \in Int /\ Limit' \in Int /\ Limit <= Limit' /\ Limit' = size - LJ_STACK_EXTRA - 1
    BY <2>1, <2>3, StackAssumption DEF Limit
  <2>8. PCallsLow'
    <3> SUFFICES ASSUME NEW i \in 1 .. Len(marks) + 1, marks'[i].kind = "pcall"
                 PROVE  marks'[i].top <= Limit' /\ marks'[i].top < LJ_STACK_MAX - 1
      BY <2>4 DEF PCallsLow
    <3>1. i \in DOMAIN marks
      BY <2>3, <2>5
    <3>2. marks[i].top \in Nat /\ marks[i].top <= Limit /\ marks[i].top < LJ_STACK_MAX - 1
      BY <2>3, <2>4, <3>1, MarkTypes DEF StackInv, PCallsLow
    <3> QED BY <2>4, <2>7, <3>1, <3>2
  <2>9. InRoom'
    BY <2>1, <2>3, <2>4, <2>7 DEF InRoom
  <2>10. LargeForHandler'
    <3> SUFFICES ASSUME stacksize' > LJ_STACK_MAXEX
                 PROVE  LargeForHandler'
      BY DEF LargeForHandler
    <3>1. stacksize <= LJ_STACK_MAXEX
      BY <1>3, <2>3, StackAssumption DEF StackInv, LargeForHandler, LJ_STACK_MAXEX
    <3>2. used + 2 + LUA_MINSTACK <= Limit'
      BY <2>1, <2>7, <3>1
    <3>3. ASSUME NEW i \in DOMAIN marks'
          PROVE  marks'[i].top + LUA_MINSTACK <= Limit'
      <4>1. marks'[i].top \in Nat /\ marks'[i].top <= used + 2
        <5>1. \A x \in Mark : x.top \in Nat
          BY DEF Mark
        <5>2. marks'[i] \in Mark
          BY <2>4
        <5> QED BY <2>1, <2>4, <5>1, <5>2 DEF MarksOrdered
      <4> QED BY <2>3, <2>7, <3>2, <4>1, StackAssumption
    <3>4. Len(marks) + 1 \in DOMAIN marks' /\ marks'[Len(marks) + 1].kind = "handler"
      BY <2>3, <2>4, <2>5
    <3> QED BY <2>1, <3>3, <3>4 DEF LargeForHandler
  <2> QED BY <2>4, <2>6, <2>8, <2>9, <2>10 DEF StackInv
<1> QED BY <1>1, <1>2, <1>3

-----------------------------------------------------------------------------
\* The same marks in a stack of another size, which what is in use fits into.
LEMMA ResizeKeepsInv ==
  ASSUME StackInv, used' = used, marks' = marks, status' = status, caught' \in Errors,
         NEW size \in Nat, stacksize' = size, size <= LJ_STACK_MAXEX,
         used <= size - LJ_STACK_EXTRA - 1 \/ size >= stacksize
  PROVE  StackInv'
<1> DEFINE limit == size - LJ_STACK_EXTRA - 1
<1>1. /\ stacksize \in Nat /\ used \in Nat /\ marks \in Seq(Mark)
      /\ DOMAIN marks = 1 .. Len(marks) /\ Len(marks) \in Nat
  BY MarkTypes DEF StackInv, StackType
<1>2. Limit \in Int /\ limit \in Int /\ (Limit <= limit \/ used <= limit) /\ Limit' = limit
  BY <1>1, StackAssumption DEF Limit
<1> HIDE DEF limit
<1>3. StackType' /\ MarksOrdered'
  BY DEF StackInv, StackType, MarksOrdered
<1>4. PCallsLow'
  <2> SUFFICES ASSUME NEW i \in DOMAIN marks, marks[i].kind = "pcall"
               PROVE  marks[i].top <= limit /\ marks[i].top < LJ_STACK_MAX - 1
    BY <1>2 DEF PCallsLow
  <2>1. /\ marks[i].top \in Nat /\ marks[i].top <= Limit /\ marks[i].top < LJ_STACK_MAX - 1
        /\ marks[i].top <= used
    BY <1>1, MarkTypes DEF StackInv, PCallsLow, MarksOrdered
  <2> QED BY <1>1, <1>2, <2>1
<1>5. InRoom'
  <2>1. Last(marks)' = Last(marks)
    BY DEF Last
  <2>2. CASE used <= limit
    BY <1>2, <2>2 DEF InRoom
  <2>3. CASE Limit <= limit
    BY <1>1, <1>2, <2>1, <2>3 DEF StackInv, InRoom
  <2> QED BY <1>2, <2>2, <2>3
<1>6. LargeForHandler'
  BY StackAssumption DEF LargeForHandler, LJ_STACK_MAXEX
<1> QED BY <1>3, <1>4, <1>5, <1>6 DEF StackInv

\* A stack that grows has room for what was asked for, and more when it overflows.
LEMMA GrownSize ==
  ASSUME StackType, NEW need \in Nat \ {0}, stacksize <= LJ_STACK_MAXEX
  PROVE  /\ Grown(need) \in Nat /\ Grown(need) >= stacksize + 1 + LJ_STACK_EXTRA
         /\ Grown(need) > LJ_STACK_MAXEX
              => Grown(need) >= stacksize + 1 + 2 * LUA_MINSTACK + 1 + LJ_STACK_EXTRA
<1> DEFINE n == stacksize + need
<1>1. n \in Nat /\ n >= stacksize + 1 /\ stacksize \in Nat /\ LUA_MINSTACK \in Nat /\ LUA_MINSTACK > 0
  BY StackAssumption DEF StackType
<1>2. Grown(need) = Resized(IF n > LJ_STACK_MAX THEN n + 2 * LUA_MINSTACK
                            ELSE IF n >= 2 * stacksize THEN n
                            ELSE IF 2 * stacksize >= LJ_STACK_MAX THEN LJ_STACK_MAX ELSE 2 * stacksize)
  BY DEF Grown
<1> HIDE DEF n
<1>3. CASE n > LJ_STACK_MAX
  BY <1>1, <1>2, <1>3, StackAssumption DEF Resized
<1>4. CASE n <= LJ_STACK_MAX
  <2>1. LJ_STACK_MAX \in Nat /\ LJ_STACK_EXTRA \in Nat
    BY StackAssumption
  <2>2. PICK k \in Nat : k >= stacksize /\ k <= LJ_STACK_MAX /\ Grown(need) = Resized(k)
    <3>1. CASE n >= 2 * stacksize
      BY <1>1, <1>2, <1>4, <3>1, <2>1
    <3>2. CASE n < 2 * stacksize /\ 2 * stacksize >= LJ_STACK_MAX
      BY <1>1, <1>2, <1>4, <3>2, <2>1
    <3>3. CASE n < 2 * stacksize /\ 2 * stacksize < LJ_STACK_MAX
      BY <1>1, <1>2, <1>4, <3>3, <2>1
    <3> QED BY <3>1, <3>2, <3>3, <1>1, <2>1
  <2> QED BY <1>1, <2>1, <2>2 DEF Resized, LJ_STACK_MAXEX
<1> QED BY <1>1, <1>3, <1>4, StackAssumption

\* The inductive step.
LEMMA StackStep ==
  ASSUME StackInv, [StackNext]_stackVars
  PROVE  StackInv'
<1> USE DEF Errors
<1>1. /\ stacksize \in Nat /\ used \in Nat /\ marks \in Seq(Mark) /\ Len(marks) >= 1
      /\ DOMAIN marks = 1 .. Len(marks) /\ Len(marks) \in Nat
      /\ Limit \in Int /\ Limit = stacksize - LJ_STACK_EXTRA - 1 /\ used <= Limit + 2
  BY MarkTypes, StackAssumption DEF StackInv, StackType, InRoom, Limit
<1>2. Last(marks) = marks[Len(marks)] /\ Last(marks).top \in Nat /\ Last(marks).top <= used
  BY <1>1, MarkTypes DEF Last, StackInv, MarksOrdered
<1>3. ASSUME NEW need \in FrameSizes, CallFunction(need)
      PROVE  StackInv'
  <2>1. need \in Nat /\ need > 0
    BY StackAssumption
  <2>2. CASE used + need <= Limit
    <3>1. /\ used' = used + need /\ caught' = "none"
          /\ stacksize' = stacksize /\ marks' = marks /\ status' = status /\ Limit' = Limit
      BY <1>1, <1>3, <2>1, <2>2 DEF CallFunction, Limit
    <3>2. MarksOrdered'
      <4> SUFFICES ASSUME NEW i \in DOMAIN marks
                   PROVE  marks[i].top <= used + need
        BY <3>1 DEF StackInv, MarksOrdered
      <4>1. marks[i].top \in Nat /\ marks[i].top <= used
        BY <1>1, MarkTypes DEF StackInv, MarksOrdered
      <4> QED BY <1>1, <2>1, <4>1
    <3>3. StackType' /\ PCallsLow' /\ LargeForHandler'
      BY <2>1, <3>1 DEF StackInv, StackType, PCallsLow, LargeForHandler
    <3>4. InRoom'
      BY <2>2, <3>1 DEF InRoom
    <3> QED BY <3>2, <3>3, <3>4 DEF StackInv
  <2>3. CASE ~(used + need <= Limit)
    <3>0. lj_state_growstack(need)
      BY <1>1, <1>3, <2>1, <2>3 DEF CallFunction
    <3>1. CASE stacksize > LJ_STACK_MAXEX
      BY <1>1, <3>0, <3>1, ThrowKeepsInv DEF lj_state_growstack
    <3>2. CASE ~(stacksize > LJ_STACK_MAXEX)
      <4>1. /\ LJ_STACK_MAXEX \in Nat /\ stacksize <= LJ_STACK_MAXEX
            /\ LUA_MINSTACK \in Nat /\ LUA_MINSTACK > 0 /\ LJ_STACK_EXTRA \in Nat /\ LJ_STACK_EXTRA >= 3
        BY <1>1, <3>2, StackAssumption DEF LJ_STACK_MAXEX
      <4>2. /\ Grown(need) \in Nat /\ Grown(need) >= stacksize + 1 + LJ_STACK_EXTRA
            /\ Grown(need) > LJ_STACK_MAXEX
                 => Grown(need) >= stacksize + 1 + 2 * LUA_MINSTACK + 1 + LJ_STACK_EXTRA
        BY <2>1, <4>1, GrownSize DEF StackInv
      <4>3. /\ Grown(need) >= stacksize /\ used <= Grown(need) - LJ_STACK_EXTRA - 1
            /\ Grown(need) > LJ_STACK_MAXEX => used + 2 + LUA_MINSTACK <= Grown(need) - LJ_STACK_EXTRA - 1
        BY <1>1, <4>1, <4>2
      <4>4. CASE Grown(need) > LJ_STACK_MAXEX
        BY <3>0, <3>2, <4>2, <4>3, <4>4, ErrorKeepsInv DEF lj_state_growstack
      <4>5. CASE ~(Grown(need) > LJ_STACK_MAXEX)
        <5>1. stacksize' = Grown(need) /\ UNCHANGED <<used, marks, status, caught>>
          BY <3>0, <3>2, <4>5 DEF lj_state_growstack
        <5>2. Grown(need) <= LJ_STACK_MAXEX
          BY <4>1, <4>2, <4>5
        <5>3. caught' \in Errors
          BY <5>1 DEF StackInv, StackType
        <5> QED BY <4>2, <4>3, <5>1, <5>2, <5>3, ResizeKeepsInv
      <4> QED BY <4>4, <4>5
    <3> QED BY <3>1, <3>2
  <2> QED BY <2>2, <2>3
<1>4. ASSUME NEW t \in 1 .. used, ReturnTo(t)
      PROVE  StackInv'
  <2>1. /\ used' = t /\ caught' = "none" /\ Last(marks).top <= t /\ t <= used - 1 /\ t \in Nat
        /\ stacksize' = stacksize /\ marks' = marks /\ status' = status
        /\ Limit' = Limit /\ Last(marks)' = Last(marks)
    BY <1>1, <1>2, <1>4 DEF ReturnTo, Limit, Last
  <2>2. MarksOrdered'
    <3> SUFFICES ASSUME NEW i \in DOMAIN marks
                 PROVE  marks[i].top <= t
      BY <2>1 DEF StackInv, MarksOrdered
    <3>1. i <= Len(marks) /\ Len(marks) \in DOMAIN marks
      BY <1>1
    <3>2. marks[i].top \in Nat /\ marks[i].top <= Last(marks).top
      BY <1>1, <1>2, <3>1, MarkTypes DEF StackInv, MarksOrdered
    <3> QED BY <1>2, <2>1, <3>2
  <2>3. StackType' /\ PCallsLow' /\ LargeForHandler'
    BY <2>1 DEF StackInv, StackType, PCallsLow, LargeForHandler
  <2>4. InRoom'
    <3>1. used <= Limit
      BY <1>1, <1>2, <2>1 DEF StackInv, InRoom
    <3>2. t <= Limit
      BY <1>1, <2>1, <3>1
    <3> QED BY <2>1, <3>2 DEF InRoom
  <2> QED BY <2>2, <2>3, <2>4 DEF StackInv
<1>5. ASSUME NEW handler \in BOOLEAN, ProtectedCall(handler)
      PROVE  StackInv'
  <2>1. /\ used <= Limit /\ used < CatchTop /\ caught' = "none"
        /\ marks' = Append(marks, [kind |-> "pcall", top |-> used, handler |-> handler])
        /\ stacksize' = stacksize /\ used' = used /\ status' = status /\ Limit' = Limit
    BY <1>5 DEF ProtectedCall, Limit
  <2>2. used < LJ_STACK_MAX - 1
    BY <1>1, <2>1, StackAssumption, CatchAssumption
  <2>3. /\ marks' \in Seq(Mark) /\ Len(marks') = Len(marks) + 1
        /\ DOMAIN marks' = 1 .. Len(marks) + 1
        /\ \A i \in DOMAIN marks : marks'[i] = marks[i]
        /\ Last(marks') = [kind |-> "pcall", top |-> used, handler |-> handler]
        /\ MarksOrdered'
    BY <1>1, <2>1, NewMark DEF StackInv
  <2>4. marks'[Len(marks) + 1] = [kind |-> "pcall", top |-> used, handler |-> handler]
    BY <2>3 DEF Last
  <2>5. PCallsLow'
    <3> SUFFICES ASSUME NEW i \in 1 .. Len(marks) + 1, marks'[i].kind = "pcall"
                 PROVE  marks'[i].top <= Limit /\ marks'[i].top < LJ_STACK_MAX - 1
      BY <2>1, <2>3 DEF PCallsLow
    <3>1. CASE i \in DOMAIN marks
      BY <2>3, <3>1 DEF StackInv, PCallsLow
    <3>2. CASE i = Len(marks) + 1
      BY <2>1, <2>2, <2>4, <3>2
    <3> QED BY <1>1, <3>1, <3>2
  <2>6. LargeForHandler'
    <3> SUFFICES ASSUME stacksize > LJ_STACK_MAXEX
                 PROVE  LargeForHandler'
      BY <2>1 DEF LargeForHandler
    <3>1. \A i \in DOMAIN marks' : marks'[i].kind = "handler" => marks'[i].top + LUA_MINSTACK <= Limit'
      <4> SUFFICES ASSUME NEW i \in 1 .. Len(marks) + 1, marks'[i].kind = "handler"
                   PROVE  marks'[i].top + LUA_MINSTACK <= Limit
        BY <2>1, <2>3
      <4>1. i \in DOMAIN marks
        BY <1>1, <2>4
      <4> QED BY <2>3, <4>1 DEF StackInv, LargeForHandler
    <3>2. \E i \in DOMAIN marks' : marks'[i].kind = "handler"
      BY <1>1, <2>3 DEF StackInv, LargeForHandler
    <3> QED BY <2>1, <3>1, <3>2 DEF StackInv, LargeForHandler
  <2>7. StackType'
    BY <1>1, <2>1, <2>3 DEF StackInv, StackType
  <2>8. InRoom'
    BY <2>1 DEF InRoom
  <2> QED BY <2>3, <2>5, <2>6, <2>7, <2>8 DEF StackInv
<1>6. ASSUME EndProtectedCall
      PROVE  StackInv'
  <2> DEFINE n == Len(marks) - 1
             t == marks[Len(marks)].top
  <2>1. /\ n \in DOMAIN marks /\ Len(marks) \in DOMAIN marks /\ n < Len(marks)
        /\ marks[Len(marks)].kind = "pcall"
        /\ used' = t /\ marks' = SubSeq(marks, 1, n) /\ caught' = "none"
        /\ stacksize' = stacksize /\ status' = status /\ Limit' = Limit
    BY <1>1, <1>6 DEF EndProtectedCall, Last, Limit
  <2>2. /\ marks' \in Seq(Mark) /\ Len(marks') = n /\ DOMAIN marks' = 1 .. n
        /\ \A i \in 1 .. n : marks'[i] = marks[i]
    BY <1>1, <2>1, FirstMarks
  <2>3. t \in Nat /\ t <= Limit
    BY <1>1, <2>1, MarkTypes DEF StackInv, PCallsLow
  <2>4. n \in Nat /\ n >= 1 /\ 1 .. n \subseteq DOMAIN marks
    BY <1>1, <2>1
  <2> HIDE DEF n, t
  <2>5. StackType'
    BY <2>1, <2>2, <2>3, <2>4 DEF StackInv, StackType
  <2>6. MarksOrdered'
    <3>1. \A i \in 1 .. n : marks[i].top <= t
      BY <1>1, <2>1, <2>4, SMTT(60) DEF StackInv, MarksOrdered, t
    <3>2. \A i \in 1 .. n : marks'[i].top <= used'
      BY <2>1, <2>2, <3>1
    <3>3. \A i, j \in 1 .. n : i <= j => marks'[i].top <= marks'[j].top
      BY <2>2, <2>4 DEF StackInv, MarksOrdered
    <3>4. marks'[1].kind = "pcall"
      BY <2>2, <2>4 DEF StackInv, MarksOrdered
    <3> QED BY <2>2, <3>2, <3>3, <3>4 DEF MarksOrdered
  <2>7. PCallsLow' /\ InRoom'
    BY <2>1, <2>2, <2>3, <2>4 DEF StackInv, PCallsLow, InRoom
  <2>8. LargeForHandler'
    <3> SUFFICES ASSUME stacksize > LJ_STACK_MAXEX
                 PROVE  LargeForHandler'
      BY <2>1 DEF LargeForHandler
    <3>1. PICK i \in DOMAIN marks : marks[i].kind = "handler"
      BY DEF StackInv, LargeForHandler
    <3>2. i \in 1 .. n
      BY <1>1, <2>1, <3>1 DEF n
    <3>3. \E j \in DOMAIN marks' : marks'[j].kind = "handler"
      BY <2>2, <3>1, <3>2
    <3>4. \A j \in DOMAIN marks' : marks'[j].kind = "handler" => marks'[j].top + LUA_MINSTACK <= Limit'
      BY <2>1, <2>2, <2>4 DEF StackInv, LargeForHandler
    <3> QED BY <2>1, <3>3, <3>4 DEF StackInv, LargeForHandler
  <2> QED BY <2>5, <2>6, <2>7, <2>8 DEF StackInv
<1>7. ASSUME RunError
      PROVE  StackInv'
  <2>1. used <= Limit
    BY <1>1, <1>2, <1>7 DEF RunError, StackInv, InRoom
  <2>2. stacksize > LJ_STACK_MAXEX /\ stacksize <= LJ_STACK_MAXEX => FALSE
    BY <1>1, StackAssumption DEF LJ_STACK_MAXEX
  <2>3. stacksize >= stacksize /\ used <= stacksize - LJ_STACK_EXTRA - 1
    BY <1>1, <2>1
  <2>4. lj_err_run(stacksize, "error")
    BY <1>7 DEF RunError
  <2> QED BY <1>1, <2>2, <2>3, <2>4, ErrorKeepsInv
<1>8. ASSUME HandlerReturns
      PROVE  StackInv'
  BY <1>1, <1>8, ThrowKeepsInv DEF HandlerReturns
<1>9. ASSUME lj_state_shrinkstack
      PROVE  StackInv'
  <2> DEFINE size == Resized(stacksize \div 2)
  <2>1. /\ stacksize <= LJ_STACK_MAXEX /\ 4 * used < stacksize
        /\ 2 * (LJ_STACK_START + LJ_STACK_EXTRA) < stacksize
        /\ stacksize' = size /\ UNCHANGED <<used, marks, status, caught>>
    BY <1>9 DEF lj_state_shrinkstack
  <2>2. PICK h \in Nat : h = stacksize \div 2 /\ 2 * h <= stacksize /\ stacksize <= 2 * h + 1
    BY <1>1
  <2>3. size = h + 1 + LJ_STACK_EXTRA
    BY <2>2 DEF Resized
  <2>4. LJ_STACK_EXTRA \in Nat /\ LJ_STACK_START \in Nat /\ LJ_STACK_START >= 2
    BY StackAssumption DEF LJ_STACK_START
  <2>5. LJ_STACK_MAXEX \in Nat
    BY StackAssumption DEF LJ_STACK_MAXEX
  <2> HIDE DEF size
  <2>6. size \in Nat /\ size <= LJ_STACK_MAXEX /\ used <= size - LJ_STACK_EXTRA - 1
    BY <1>1, <2>1, <2>2, <2>3, <2>4, <2>5
  <2>7. caught' \in Errors
    BY <2>1 DEF StackInv, StackType
  <2> QED BY <2>1, <2>6, <2>7, ResizeKeepsInv
<1>10. ASSUME UNCHANGED stackVars
       PROVE  StackInv'
  BY <1>10 DEF stackVars, StackInv, StackType, MarksOrdered, PCallsLow, InRoom, LargeForHandler, Limit, Last
<1> QED BY <1>3, <1>4, <1>5, <1>6, <1>7, <1>8, <1>9, <1>10 DEF StackNext

\* The initial state satisfies the invariant.
LEMMA StackInitInv == StackInit => StackInv
<1> SUFFICES ASSUME StackInit
             PROVE  StackInv
  OBVIOUS
<1>1. /\ marks = <<[kind |-> "pcall", top |-> 1, handler |-> FALSE]>> /\ used = 1
      /\ stacksize = LJ_STACK_START + LJ_STACK_EXTRA /\ status = "OK" /\ caught = "none"
  BY DEF StackInit
<1>2. /\ LJ_STACK_START \in Nat /\ LJ_STACK_START >= 2 /\ LJ_STACK_START < LJ_STACK_MAX
      /\ LJ_STACK_MAX \in Nat /\ LJ_STACK_EXTRA \in Nat
  BY StackAssumption DEF LJ_STACK_START
<1>3. Len(marks) = 1 /\ DOMAIN marks = {1} /\ marks[1] = [kind |-> "pcall", top |-> 1, handler |-> FALSE]
  BY <1>1
<1>4. marks \in Seq(Mark)
  BY <1>1 DEF Mark
<1>5. Limit >= 1 /\ ~ (stacksize > LJ_STACK_MAXEX)
  BY <1>1, <1>2 DEF Limit, LJ_STACK_MAXEX
<1> QED BY <1>1, <1>2, <1>3, <1>4, <1>5
     DEF StackInv, StackType, MarksOrdered, PCallsLow, InRoom, LargeForHandler, Errors

\* Slots exist, the limit comes back and a handler has room in every state that
\* satisfies the invariant.
LEMMA StackInvLimits == StackInv => StackLimits
<1> SUFFICES ASSUME StackInv
             PROVE  StackLimits
  OBVIOUS
<1>1. /\ stacksize \in Nat /\ used \in Nat /\ marks \in Seq(Mark) /\ Len(marks) >= 1
      /\ DOMAIN marks = 1 .. Len(marks) /\ Len(marks) \in Nat
      /\ Limit \in Int /\ Limit = stacksize - LJ_STACK_EXTRA - 1 /\ used <= Limit + 2
  BY MarkTypes, StackAssumption DEF StackInv, StackType, InRoom, Limit
<1>2. SlotsExist
  BY <1>1, StackAssumption DEF SlotsExist
<1>3. LimitRestored
  BY DEF LimitRestored, StackInv, LargeForHandler
<1>4. HandlerHasRoom
  BY <1>1 DEF HandlerHasRoom, StackInv, LargeForHandler, Last
<1> QED BY <1>2, <1>3, <1>4 DEF StackLimits

\* Growing, overflowing, unwinding and shrinking: no slot is missing, the reserve is
\* there for the handler of an overflow and is given back after it.
THEOREM StackLimitsCorrect == StackSpec => []StackLimits
<1>1. StackInv /\ [StackNext]_stackVars => StackInv'
  BY StackStep
<1> QED BY <1>1, StackInitInv, StackInvLimits, PTL DEF StackSpec

-----------------------------------------------------------------------------
(* Machine code areas. *)

Prots == {"RW", "RX"}
Area == [size : Nat, prot : Prots]
Piece == [kind : {"stub", "code", "k64"}, area : Nat, lo : Int, hi : Int]
Constant == [at : Int, i : Int]
Busy == {"emit", "stop", "patch"}

MCodeType ==
  /\ sizemcode \in MCSizes
  /\ areas \in Seq(Area)
  /\ jmc \in [top : Int, bot : Int, prot : Prots, all : Nat]
  /\ pieces \subseteq Piece
  /\ asm \in [at : {"idle", "retry"} \cup Busy, top : Int, p : Int, bot : Int,
              ks : SUBSET Constant, patch : Nat]

\* Code is placed in an area.
HasArea == asm.at \in Busy \cup {"retry"} => areas # <<>>

-----------------------------------------------------------------------------
\* The areas are numbered from 1.
LEMMA AreaTypes ==
  ASSUME MCodeType
  PROVE  /\ DOMAIN areas = 1 .. Len(areas) /\ Len(areas) \in Nat
         /\ areas # <<>> => 1 \in DOMAIN areas
         /\ \A i \in DOMAIN areas : areas[i] \in Area /\ areas[i].size \in Nat /\ areas[i].prot \in Prots
         /\ sizemcode \in Nat /\ sizemcode >= 1
<1>1. \A i \in DOMAIN areas : areas[i] \in Area
  BY DEF MCodeType
<1>2. sizemcode \in Nat /\ sizemcode >= 1
  BY MCodeAssumption DEF MCodeType
<1>3. DOMAIN areas = 1 .. Len(areas) /\ Len(areas) \in Nat /\ (areas # <<>> => 1 \in DOMAIN areas)
  BY DEF MCodeType
<1> QED BY <1>1, <1>2, <1>3 DEF Area

\* mcode_protect() sets the protection of the current area at most.
LEMMA CachedAreas ==
  ASSUME MCodeType, areas # <<>>, NEW prot \in Prots
  PROVE  /\ Cached(areas, prot) \in Seq(Area)
         /\ Len(Cached(areas, prot)) = Len(areas)
         /\ DOMAIN Cached(areas, prot) = DOMAIN areas
         /\ \A i \in DOMAIN areas : /\ Cached(areas, prot)[i].size = areas[i].size
                                    /\ i # 1 => Cached(areas, prot)[i] = areas[i]
         /\ jmc.prot # prot => Cached(areas, prot)[1].prot = prot
         /\ jmc.prot = prot => Cached(areas, prot) = areas
<1>1. CASE jmc.prot = prot
  BY <1>1, AreaTypes DEF Cached, MCodeType
<1>2. CASE jmc.prot # prot
  <2> DEFINE as == [areas EXCEPT ![1].prot = prot]
  <2>1. Cached(areas, prot) = as
    BY <1>2 DEF Cached
  <2>2. /\ 1 \in 1 .. Len(areas) /\ areas[1] \in Area /\ areas \in Seq(Area)
        /\ DOMAIN areas = 1 .. Len(areas)
    BY AreaTypes DEF MCodeType
  <2> DEFINE e == [areas[1] EXCEPT !.prot = prot]
  <2>3. e \in Area /\ e.size = areas[1].size /\ e.prot = prot
    BY <2>2 DEF Area
  <2>4. as = [areas EXCEPT ![1] = e]
    OBVIOUS
  <2> HIDE DEF e, as
  <2>5. /\ as \in Seq(Area) /\ Len(as) = Len(areas)
        /\ \A j \in 1 .. Len(areas) : as[j] = IF j = 1 THEN e ELSE areas[j]
    BY <2>2, <2>3, <2>4, ExceptSeq
  <2>6. DOMAIN as = DOMAIN areas
    BY <2>2, <2>5, LenProperties
  <2> QED BY <1>2, <2>1, <2>2, <2>3, <2>5, <2>6
<1> QED BY <1>1, <1>2

\* A new area is put before the others.
LEMMA NewAreaFirst ==
  ASSUME NEW s \in Seq(Area), NEW x \in Area
  PROVE  /\ <<x>> \o s \in Seq(Area) /\ <<x>> \o s # <<>>
         /\ Len(<<x>> \o s) = Len(s) + 1 /\ DOMAIN (<<x>> \o s) = 1 .. Len(s) + 1
         /\ (<<x>> \o s)[1] = x
         /\ \A i \in 2 .. Len(s) + 1 : i - 1 \in DOMAIN s /\ (<<x>> \o s)[i] = s[i - 1]
<1>1. <<x>> \in Seq(Area) /\ Len(<<x>>) = 1 /\ <<x>>[1] = x
  OBVIOUS
<1>2. Len(s) \in Nat /\ DOMAIN s = 1 .. Len(s)
  OBVIOUS
<1> DEFINE t == <<x>> \o s
<1>3. /\ t \in Seq(Area) /\ Len(t) = 1 + Len(s)
      /\ \A i \in 1 .. 1 + Len(s) : t[i] = IF i <= 1 THEN <<x>>[i] ELSE s[i - 1]
  BY <1>1, ConcatProperties
<1> HIDE DEF t
<1>4. t[1] = x
  BY <1>1, <1>2, <1>3
<1>5. \A i \in 2 .. Len(s) + 1 : i - 1 \in DOMAIN s /\ t[i] = s[i - 1]
  BY <1>2, <1>3
<1>6. DOMAIN t = 1 .. Len(s) + 1 /\ t # <<>>
  BY <1>2, <1>3
<1> QED BY <1>2, <1>3, <1>4, <1>5, <1>6 DEF t

\* One area changes its protection.
LEMMA PatchedAreas ==
  ASSUME MCodeType, NEW prot \in Prots, NEW n \in Nat,
         areas' = [i \in DOMAIN areas |-> IF Age(i) = n THEN [areas[i] EXCEPT !.prot = prot] ELSE areas[i]]
  PROVE  /\ areas' \in Seq(Area) /\ Len(areas') = Len(areas) /\ DOMAIN areas' = DOMAIN areas
         /\ \A i \in DOMAIN areas : /\ areas'[i].size = areas[i].size
                                    /\ Age(i) = n => areas'[i].prot = prot
                                    /\ Age(i) # n => areas'[i] = areas[i]
<1>1. DOMAIN areas = 1 .. Len(areas) /\ Len(areas) \in Nat
  BY AreaTypes
<1>2. ASSUME NEW i \in DOMAIN areas
      PROVE  /\ areas'[i] \in Area /\ areas'[i].size = areas[i].size
             /\ Age(i) = n => areas'[i].prot = prot
             /\ Age(i) # n => areas'[i] = areas[i]
  BY AreaTypes DEF Area
<1>3. areas' \in [1 .. Len(areas) -> Area]
  BY <1>1, <1>2
<1>4. areas' \in Seq(Area)
  BY <1>1, <1>3, SeqDef
<1>5. DOMAIN areas' = DOMAIN areas
  OBVIOUS
<1>6. Len(areas') = Len(areas)
  <2>1. DOMAIN areas' = 1 .. Len(areas') /\ Len(areas') \in Nat
    BY <1>4, LenProperties
  <2> QED BY <1>1, <1>5, <2>1
<1> QED BY <1>2, <1>4, <1>5, <1>6

-----------------------------------------------------------------------------
(* What the operations of lj_mcode.c do to the areas. *)

JmcType == [top : Int, bot : Int, prot : Prots, all : Nat]

\* Areas that keep their sizes.
SameSizes(s) ==
  /\ s \in Seq(Area) /\ Len(s) = Len(areas) /\ DOMAIN s = DOMAIN areas
  /\ \A i \in DOMAIN areas : s[i].size = areas[i].size

OnlyFirstWritable == \A i \in DOMAIN areas : i # 1 => areas[i].prot = "RX"
CacheTrue == areas # <<>> => jmc.prot = areas[1].prot

\* mcode_protect gives the first area the protection, in the cache too, and leaves the others.
LEMMA ProtectEffect ==
  ASSUME MCodeType, areas # <<>>, CacheTrue, OnlyFirstWritable, NEW prot \in Prots, mcode_protect(prot)
  PROVE  /\ SameSizes(areas') /\ areas' # <<>>
         /\ jmc' \in JmcType /\ jmc' = [jmc EXCEPT !.prot = prot]
         /\ areas'[1].prot = prot /\ CacheTrue' /\ OnlyFirstWritable'
<1>1. areas' = Cached(areas, prot) /\ jmc' = [jmc EXCEPT !.prot = prot]
  BY DEF mcode_protect
<1>2. jmc' \in JmcType /\ jmc'.prot = prot
  BY <1>1 DEF MCodeType, JmcType
<1>3. /\ areas' \in Seq(Area) /\ Len(areas') = Len(areas) /\ DOMAIN areas' = DOMAIN areas
      /\ \A i \in DOMAIN areas : /\ areas'[i].size = areas[i].size
                                 /\ i # 1 => areas'[i] = areas[i]
      /\ jmc.prot # prot => areas'[1].prot = prot
      /\ jmc.prot = prot => areas' = areas
  BY <1>1, CachedAreas
<1>4. 1 \in DOMAIN areas /\ areas' # <<>>
  BY <1>3, AreaTypes
<1>5. areas'[1].prot = prot
  BY <1>3 DEF CacheTrue
<1> QED BY <1>1, <1>2, <1>3, <1>4, <1>5 DEF SameSizes, CacheTrue, OnlyFirstWritable

\* After lj_mcode_abort all areas are executable; their sizes and the room in the first are as before.
LEMMA AbortEffect ==
  ASSUME MCodeType, CacheTrue, OnlyFirstWritable, lj_mcode_abort
  PROVE  /\ SameSizes(areas') /\ (areas' = <<>> <=> areas = <<>>)
         /\ jmc' \in JmcType /\ jmc'.all = jmc.all /\ jmc'.top = jmc.top /\ jmc'.bot = jmc.bot
         /\ CacheTrue' /\ OnlyFirstWritable'
         /\ \A i \in DOMAIN areas' : areas'[i].prot = "RX"
<1>1. CASE areas = <<>>
  <2>1. areas' = <<>> /\ jmc' = jmc /\ areas' = areas
    BY <1>1 DEF lj_mcode_abort
  <2>2. jmc' \in JmcType /\ areas' \in Seq(Area)
    BY <2>1 DEF MCodeType, JmcType
  <2>3. \A i \in DOMAIN areas' : FALSE
    BY <2>1
  <2> QED BY <1>1, <2>1, <2>2, <2>3 DEF SameSizes, CacheTrue, OnlyFirstWritable
<1>2. CASE areas # <<>>
  <2>1. mcode_protect("RX") /\ "RX" \in Prots
    BY <1>2 DEF lj_mcode_abort, Prots
  <2>2. /\ SameSizes(areas') /\ areas' # <<>>
        /\ jmc' \in JmcType /\ jmc' = [jmc EXCEPT !.prot = "RX"]
        /\ areas'[1].prot = "RX" /\ CacheTrue' /\ OnlyFirstWritable'
    BY <1>2, <2>1, ProtectEffect
  <2>3. jmc'.all = jmc.all /\ jmc'.top = jmc.top /\ jmc'.bot = jmc.bot
    BY <2>2 DEF MCodeType
  <2>4. \A i \in DOMAIN areas' : areas'[i].prot = "RX"
    BY <2>2 DEF OnlyFirstWritable
  <2> QED BY <1>2, <2>2, <2>3, <2>4
<1> QED BY <1>1, <1>2

\* lj_mcode_free leaves no area.
LEMMA FlushEffect ==
  ASSUME MCodeType, lj_mcode_free
  PROVE  /\ areas' = <<>> /\ areas' \in Seq(Area)
         /\ jmc' \in JmcType /\ jmc'.all = 0
         /\ CacheTrue' /\ OnlyFirstWritable' /\ \A i \in DOMAIN areas' : FALSE
<1>1. areas' = <<>> /\ jmc' = [jmc EXCEPT !.all = 0]
  BY DEF lj_mcode_free
<1>2. jmc' \in JmcType /\ jmc'.all = 0
  BY <1>1 DEF MCodeType, JmcType
<1>3. \A i \in DOMAIN areas' : FALSE
  BY <1>1
<1> QED BY <1>1, <1>2, <1>3 DEF CacheTrue, OnlyFirstWritable

\* A new area, of a size that the limit allows or the first one.
NewArea(s, prot) ==
  /\ SameSizes(s) /\ areas' = <<[size |-> sizemcode, prot |-> prot]>> \o s
  /\ jmc' = [top |-> sizemcode, bot |-> LinkSize, prot |-> prot, all |-> jmc.all + sizemcode]

\* A new area is the first one, and has the protection asked for.
LEMMA NewAreaEffect ==
  ASSUME MCodeType, NEW prot \in Prots, NEW s, NewArea(s, prot),
         \A i \in DOMAIN s : s[i].prot = "RX"
  PROVE  /\ areas' \in Seq(Area) /\ areas' # <<>> /\ Len(areas') = Len(areas) + 1
         /\ DOMAIN areas' = 1 .. Len(areas) + 1
         /\ areas'[1] = [size |-> sizemcode, prot |-> prot]
         /\ \A i \in 2 .. Len(areas) + 1 : i - 1 \in DOMAIN s /\ areas'[i] = s[i - 1]
         /\ jmc' \in JmcType /\ CacheTrue' /\ OnlyFirstWritable'
<1> DEFINE x == [size |-> sizemcode, prot |-> prot]
<1>1. x \in Area
  BY AreaTypes DEF Area
<1>2. s \in Seq(Area) /\ Len(s) = Len(areas) /\ areas' = <<x>> \o s
  BY DEF NewArea, SameSizes
<1>x. x.prot = prot
  OBVIOUS
<1> HIDE DEF x
<1>3. /\ areas' \in Seq(Area) /\ areas' # <<>> /\ Len(areas') = Len(s) + 1
      /\ DOMAIN areas' = 1 .. Len(s) + 1 /\ areas'[1] = x
      /\ \A i \in 2 .. Len(s) + 1 : i - 1 \in DOMAIN s /\ areas'[i] = s[i - 1]
  BY <1>1, <1>2, NewAreaFirst
<1>4. jmc' \in JmcType /\ jmc'.prot = prot
  <2>1. sizemcode \in Nat /\ jmc.all \in Nat
    BY AreaTypes DEF MCodeType
  <2> QED BY <2>1 DEF NewArea, JmcType, LinkSize
<1>5. CacheTrue'
  BY <1>3, <1>4, <1>x DEF CacheTrue
<1>6. OnlyFirstWritable'
  <2>1. Len(areas) \in Nat
    BY AreaTypes
  <2>2. \A i \in 1 .. Len(areas) + 1 : i # 1 => i \in 2 .. Len(areas) + 1
    BY <2>1
  <2> QED BY <1>2, <1>3, <2>2 DEF OnlyFirstWritable
<1> QED BY <1>2, <1>3, <1>4, <1>5, <1>6 DEF x

\* What may become of the areas in a step: they stay, are all freed, or one is new.
Keeps == SameSizes(areas') /\ jmc'.all = jmc.all
Frees == areas' = <<>> /\ jmc'.all = 0
Adds == \E prot \in Prots, s \in Seq(Area) :
          NewArea(s, prot) /\ (areas = <<>> \/ jmc.all + sizemcode <= MaxMCode)

\* lj_mcode_limiterr leaves all areas executable; it gives up, frees all code or retries in a new area.
LEMMA LimitEffect ==
  ASSUME MCodeType, areas # <<>>, CacheTrue, OnlyFirstWritable, NEW need \in Int, lj_mcode_limiterr(need)
  PROVE  /\ areas' \in Seq(Area) /\ jmc' \in JmcType /\ CacheTrue' /\ OnlyFirstWritable'
         /\ \A i \in DOMAIN areas' : areas'[i].prot = "RX"
         /\ Keeps \/ Frees \/ Adds
         /\ \/ asm' = Idle /\ pieces' = pieces /\ Len(areas') = Len(areas) /\ jmc'.top = jmc.top /\ jmc'.bot = jmc.bot
            \/ asm' = Idle /\ pieces' = {} /\ areas' = <<>>
            \/ /\ asm' = [Idle EXCEPT !.at = "retry"] /\ pieces' = pieces /\ areas' # <<>>
               /\ Len(areas') = Len(areas) + 1 /\ jmc'.top = sizemcode /\ jmc'.bot = LinkSize
<1>1. CASE need > sizemcode
  <2>0. ~ (need <= sizemcode)
    BY <1>1, AreaTypes
  <2>1. lj_mcode_abort /\ asm' = Idle /\ pieces' = pieces
    BY <1>1, <2>0 DEF lj_mcode_limiterr
  <2>2. /\ SameSizes(areas') /\ jmc' \in JmcType /\ jmc'.all = jmc.all
        /\ jmc'.top = jmc.top /\ jmc'.bot = jmc.bot
        /\ CacheTrue' /\ OnlyFirstWritable' /\ \A i \in DOMAIN areas' : areas'[i].prot = "RX"
    BY <2>1, AbortEffect
  <2> QED BY <2>1, <2>2 DEF Keeps, SameSizes
<1>2. CASE need <= sizemcode /\ jmc.all + sizemcode > MaxMCode
  <2>0. ~ (need > sizemcode)
    BY <1>2, AreaTypes
  <2>1. lj_mcode_free /\ pieces' = {} /\ asm' = Idle
    BY <1>2, <2>0 DEF lj_mcode_limiterr, mcode_flush
  <2>2. /\ areas' = <<>> /\ areas' \in Seq(Area) /\ jmc' \in JmcType /\ jmc'.all = 0
        /\ CacheTrue' /\ OnlyFirstWritable' /\ \A i \in DOMAIN areas' : FALSE
    BY <2>1, FlushEffect
  <2> QED BY <2>1, <2>2 DEF Frees
<1>3. CASE ~ (need > sizemcode) /\ ~ (need <= sizemcode /\ jmc.all + sizemcode > MaxMCode)
  <2> DEFINE s == Cached(areas, "RX")
  <2>1. /\ areas' = <<[size |-> sizemcode, prot |-> "RX"]>> \o s
        /\ jmc' = [top |-> sizemcode, bot |-> LinkSize, prot |-> "RX", all |-> jmc.all + sizemcode]
        /\ asm' = [Idle EXCEPT !.at = "retry"] /\ pieces' = pieces
    BY <1>3 DEF lj_mcode_limiterr
  <2>2. SameSizes(s) /\ s \in Seq(Area) /\ \A i \in DOMAIN s : s[i].prot = "RX"
    <3>1. "RX" \in Prots
      BY DEF Prots
    <3> QED BY <3>1, CachedAreas DEF SameSizes, CacheTrue, OnlyFirstWritable
  <2>3. jmc.all + sizemcode <= MaxMCode
    <3>1. jmc.all \in Nat /\ sizemcode \in Nat /\ MaxMCode \in Nat
      BY AreaTypes, MCodeAssumption DEF MCodeType
    <3> QED BY <1>3, <3>1
  <2> HIDE DEF s
  <2>4. NewArea(s, "RX") /\ "RX" \in Prots
    BY <2>1, <2>2 DEF NewArea, Prots
  <2>5. /\ areas' \in Seq(Area) /\ areas' # <<>> /\ Len(areas') = Len(areas) + 1
        /\ DOMAIN areas' = 1 .. Len(areas) + 1
        /\ areas'[1] = [size |-> sizemcode, prot |-> "RX"]
        /\ \A i \in 2 .. Len(areas) + 1 : i - 1 \in DOMAIN s /\ areas'[i] = s[i - 1]
        /\ jmc' \in JmcType /\ CacheTrue' /\ OnlyFirstWritable'
    BY <2>2, <2>4, NewAreaEffect
  <2>6. \A i \in DOMAIN areas' : areas'[i].prot = "RX"
    BY <2>2, <2>5 DEF OnlyFirstWritable
  <2>7. Adds
    BY <2>2, <2>3, <2>4 DEF Adds
  <2> QED BY <2>1, <2>5, <2>6, <2>7
<1> QED BY <1>1, <1>2, <1>3

-----------------------------------------------------------------------------
(* Protection. *)

ProtectInv == MCodeType /\ HasArea /\ CodeProtected

\* Outside of lj_asm_patchexit() only the current area may be writable.
LEMMA ProtectedAreas ==
  ASSUME ProtectInv
  PROVE  CacheTrue /\ (asm.at # "patch" => OnlyFirstWritable)
<1>1. \A i \in DOMAIN areas : areas[i].prot \in {"RW", "RX"}
  BY AreaTypes DEF ProtectInv, Prots
<1> QED BY <1>1 DEF ProtectInv, CodeProtected, ExecutableWhenIdle, FewWritable, CacheTrue, OnlyFirstWritable

AsmType == [at : {"idle", "retry"} \cup Busy, top : Int, p : Int, bot : Int, ks : SUBSET Constant, patch : Nat]

\* Fields of the assembler change.
LEMMA AsmExcept ==
  ASSUME NEW a \in AsmType
  PROVE  /\ \A x \in Int : [a EXCEPT !.bot = x] \in AsmType /\ [a EXCEPT !.bot = x].at = a.at
         /\ \A x \in Int : [a EXCEPT !.p = x] \in AsmType /\ [a EXCEPT !.p = x].at = a.at
         /\ \A x \in Int, K \in SUBSET Constant :
              [a EXCEPT !.bot = x, !.ks = K] \in AsmType /\ [a EXCEPT !.bot = x, !.ks = K].at = a.at
         /\ \A x, y \in Int : /\ [a EXCEPT !.top = x, !.p = y, !.ks = {}] \in AsmType
                             /\ [a EXCEPT !.top = x, !.p = y, !.ks = {}].at = a.at
         /\ \A x \in Int, n \in Nat : /\ [a EXCEPT !.at = "stop", !.top = x, !.patch = n] \in AsmType
                                    /\ [a EXCEPT !.at = "stop", !.top = x, !.patch = n].at = "stop"
BY DEF AsmType, Busy

\* When nothing is assembled all areas must be executable.
LEMMA RestingStep ==
  ASSUME sizemcode' \in MCSizes, areas' \in Seq(Area), jmc' \in JmcType, pieces' \subseteq Piece,
         asm' = Idle \/ (asm' = [Idle EXCEPT !.at = "retry"] /\ areas' # <<>>),
         CacheTrue', \A i \in DOMAIN areas' : areas'[i].prot = "RX"
  PROVE  ProtectInv'
<1>1. asm' \in AsmType /\ asm'.at \in {"idle", "retry"} /\ (asm'.at = "retry" => areas' # <<>>)
  BY DEF Idle, AsmType, Busy, Constant
<1>2. MCodeType'
  BY <1>1 DEF MCodeType, JmcType, AsmType
<1> QED BY <1>1, <1>2 DEF ProtectInv, HasArea, CodeProtected, ExecutableWhenIdle, FewWritable, CacheTrue, Busy

\* While a trace is assembled the current area may be writable.
LEMMA AssemblingStep ==
  ASSUME sizemcode' \in MCSizes, areas' \in Seq(Area), areas' # <<>>, jmc' \in JmcType, pieces' \subseteq Piece,
         asm' \in AsmType, asm'.at \in {"emit", "stop"}, CacheTrue', OnlyFirstWritable'
  PROVE  ProtectInv'
<1>1. MCodeType'
  BY DEF MCodeType, JmcType, AsmType
<1>2. FewWritable'
  BY DEF OnlyFirstWritable, FewWritable
<1> QED BY <1>1, <1>2 DEF ProtectInv, HasArea, CodeProtected, ExecutableWhenIdle, CacheTrue

\* The inductive step of the protection and of the types.
LEMMA ProtectStep ==
  ASSUME ProtectInv, [MCodeNext]_mcodeVars
  PROVE  ProtectInv'
<1> USE DEF Busy, JmcType
<1>0. asm \in AsmType /\ asm.bot \in Int /\ asm.p \in Int /\ asm.top \in Int
  BY DEF ProtectInv, MCodeType, AsmType
<1> USE DEF AsmType
<1>1. /\ sizemcode \in MCSizes /\ areas \in Seq(Area) /\ jmc \in JmcType /\ pieces \subseteq Piece
      /\ asm \in AsmType /\ MCodeType /\ Len(areas) \in Nat
  BY AreaTypes DEF ProtectInv, MCodeType
<1>2. CacheTrue /\ (asm.at # "patch" => OnlyFirstWritable)
  BY ProtectedAreas
<1>3. asm.at \in Busy \cup {"retry"} => areas # <<>>
  BY DEF ProtectInv, HasArea
<1>4. "RX" \in Prots /\ "RW" \in Prots
  BY DEF Prots
<1>5. ASSUME lj_mcode_reserve
      PROVE  ProtectInv'
  <2>1. /\ asm.at \in {"idle", "retry"} /\ sizemcode' = sizemcode /\ pieces' = pieces
        /\ asm' = [Idle EXCEPT !.at = "emit", !.top = jmc'.top, !.p = jmc'.top, !.bot = jmc'.bot]
    BY <1>5 DEF lj_mcode_reserve
  <2>2. areas' \in Seq(Area) /\ areas' # <<>> /\ jmc' \in JmcType /\ CacheTrue' /\ OnlyFirstWritable'
    <3>1. CASE areas = <<>>
      <4>1. NewArea(<<>>, "RW")
        <5>1. mcode_allocarea
          BY <1>5, <3>1 DEF lj_mcode_reserve
        <5>2. areas' = <<[size |-> sizemcode, prot |-> "RW"]>> \o <<>>
          BY <3>1, <5>1 DEF mcode_allocarea
        <5>3. SameSizes(<<>>)
          BY <1>1, <3>1 DEF SameSizes
        <5> QED BY <5>1, <5>2, <5>3 DEF NewArea, mcode_allocarea
      <4>2. \A i \in DOMAIN <<>> : <<>>[i].prot = "RX"
        OBVIOUS
      <4> QED BY <1>1, <1>4, <4>1, <4>2, NewAreaEffect
    <3>2. CASE areas # <<>>
      <4>1. mcode_protect("RW")
        BY <1>5, <3>2 DEF lj_mcode_reserve
      <4> QED BY <1>1, <1>2, <1>4, <2>1, <3>2, <4>1, ProtectEffect DEF SameSizes
    <3> QED BY <3>1, <3>2
  <2>3. asm' \in AsmType /\ asm'.at = "emit"
    BY <2>1, <2>2 DEF Idle, Constant
  <2> QED BY <1>1, <2>1, <2>2, <2>3, AssemblingStep
<1>6. ASSUME ReserveFails
      PROVE  ProtectInv'
  <2>1. /\ lj_mcode_free /\ pieces' = {} /\ sizemcode' = sizemcode /\ asm' = asm /\ asm.at = "idle"
    BY <1>6 DEF ReserveFails, mcode_flush
  <2>2. /\ areas' \in Seq(Area) /\ jmc' \in JmcType /\ CacheTrue' /\ \A i \in DOMAIN areas' : FALSE
    BY <1>1, <2>1, FlushEffect
  <2>3. MCodeType'
    BY <1>1, <2>1, <2>2 DEF MCodeType
  <2> QED BY <2>1, <2>2, <2>3 DEF ProtectInv, HasArea, CodeProtected, ExecutableWhenIdle, FewWritable, CacheTrue
<1>7. ASSUME AsmFails
      PROVE  ProtectInv'
  <2>1. asm.at = "emit" /\ lj_mcode_abort /\ asm' = Idle /\ sizemcode' = sizemcode /\ pieces' = pieces
    BY <1>7 DEF AsmFails
  <2>2. /\ areas' \in Seq(Area) /\ jmc' \in JmcType /\ CacheTrue' /\ \A i \in DOMAIN areas' : areas'[i].prot = "RX"
    BY <1>1, <1>2, <2>1, AbortEffect DEF SameSizes
  <2> QED BY <1>1, <2>1, <2>2, RestingStep
<1>8. ASSUME NEW need \in Int, asm.at = "emit", lj_mcode_limiterr(need), sizemcode' = sizemcode
      PROVE  ProtectInv'
  <2>1. /\ areas' \in Seq(Area) /\ jmc' \in JmcType /\ CacheTrue'
        /\ \A i \in DOMAIN areas' : areas'[i].prot = "RX"
        /\ asm' = Idle \/ (asm' = [Idle EXCEPT !.at = "retry"] /\ areas' # <<>>)
        /\ pieces' = pieces \/ pieces' = {}
    BY <1>1, <1>2, <1>3, <1>8, LimitEffect
  <2> QED BY <1>1, <1>8, <2>1, RestingStep
<1>9. ASSUME asm.at \in {"emit", "stop"}, asm' \in AsmType, asm'.at \in {"emit", "stop"},
             areas' = areas, jmc' \in JmcType, jmc'.prot = jmc.prot, pieces' \subseteq Piece, sizemcode' = sizemcode
      PROVE  ProtectInv'
  BY <1>1, <1>2, <1>3, <1>9, AssemblingStep DEF CacheTrue, OnlyFirstWritable
<1>10. REDZONE \in Nat /\ Need \in Int
  BY <1>1, MCodeAssumption DEF Need
<1>11. ASSUME NEW g \in StubGroups, asm_exitstub_gen(g)
       PROVE  ProtectInv'
  <2>1. CASE asm.bot + 2 >= asm.top
    BY <1>8, <1>10, <1>11, <2>1 DEF asm_exitstub_gen
  <2>2. CASE ~(asm.bot + 2 >= asm.top)
    <3>1. /\ asm.at = "emit" /\ asm' = [asm EXCEPT !.bot = @ + 2] /\ jmc' = [jmc EXCEPT !.bot = asm.bot + 2]
          /\ pieces' = pieces \cup {[kind |-> "stub", area |-> Len(areas), lo |-> asm.bot, hi |-> asm.bot + 2]}
          /\ areas' = areas /\ sizemcode' = sizemcode
      BY <1>11, <2>2 DEF asm_exitstub_gen
    <3>2. asm' \in AsmType /\ asm'.at = "emit"
      <4>0. asm.at = "emit"
        BY <3>1
      <4>1. asm.bot + 2 \in Int
        BY <1>1
      <4>2. asm' = [asm EXCEPT !.bot = asm.bot + 2]
        BY <3>1
      <4> QED BY <1>0, <4>0, <4>1, <4>2
    <3>3. jmc' \in JmcType /\ jmc'.prot = jmc.prot
      BY <1>1, <3>1
    <3>4. pieces' \subseteq Piece
      BY <1>1, <3>1 DEF Piece
    <3> QED BY <1>9, <3>1, <3>2, <3>3, <3>4
  <2> QED BY <2>1, <2>2
<1>12. ASSUME NEW n \in 1 .. REDZONE, asm_ir(n)
       PROVE  ProtectInv'
  <2>1. CASE asm.p - n < asm.bot + REDZONE
    <3>1. Need + n \in Int
      BY <1>10
    <3> QED BY <1>8, <1>12, <2>1, <3>1 DEF asm_ir
  <2>2. CASE ~(asm.p - n < asm.bot + REDZONE)
    <3>1. /\ asm.at = "emit" /\ asm' = [asm EXCEPT !.p = @ - n] /\ jmc' = jmc /\ pieces' = pieces
          /\ areas' = areas /\ sizemcode' = sizemcode
      BY <1>12, <2>2 DEF asm_ir
    <3>2. asm' \in AsmType /\ asm'.at = "emit"
      <4>0. asm.at = "emit"
        BY <3>1
      <4>1. asm.p - n \in Int
        BY <1>1, <1>10
      <4>2. asm' = [asm EXCEPT !.p = asm.p - n]
        BY <3>1
      <4> QED BY <1>0, <4>0, <4>1, <4>2
    <3> QED BY <1>1, <1>9, <3>1, <3>2
  <2> QED BY <2>1, <2>2
<1>13. ASSUME NEW fuse \in BOOLEAN, emit_loadk64(fuse)
       PROVE  ProtectInv'
  <2>1. /\ asm.at = "emit" /\ areas' = areas /\ sizemcode' = sizemcode /\ pieces' = pieces
        /\ asm' = [asm EXCEPT !.bot = @ + 1, !.ks = {[at |-> asm.bot, i |-> asm.top - asm.bot]}]
        /\ jmc' = jmc \/ jmc' = [jmc EXCEPT !.bot = asm.bot + 1]
    BY <1>13 DEF emit_loadk64
  <2>2. asm' \in AsmType /\ asm'.at = "emit"
    <3>0. asm.at = "emit"
      BY <2>1
    <3>1. asm.bot + 1 \in Int /\ {[at |-> asm.bot, i |-> asm.top - asm.bot]} \in SUBSET Constant
      BY <1>1 DEF Constant
    <3>2. asm' = [asm EXCEPT !.bot = asm.bot + 1, !.ks = {[at |-> asm.bot, i |-> asm.top - asm.bot]}]
      BY <2>1
    <3> QED BY <1>0, <3>0, <3>1, <3>2
  <2>3. jmc' \in JmcType /\ jmc'.prot = jmc.prot
    BY <1>1, <2>1
  <2> QED BY <1>1, <1>9, <2>1, <2>2, <2>3
<1>14. ASSUME NEW pad \in 0 .. 1, asm_again(pad)
       PROVE  ProtectInv'
  <2>1. /\ asm.at = "emit" /\ areas' = areas /\ sizemcode' = sizemcode /\ pieces' = pieces /\ jmc' = jmc
        /\ asm' = [asm EXCEPT !.top = @ - pad, !.p = asm.top - pad, !.ks = {}]
    BY <1>14 DEF asm_again
  <2>2. asm' \in AsmType /\ asm'.at = "emit"
    <3>0. asm.at = "emit"
      BY <2>1
    <3>1. asm.top - pad \in Int /\ {} \in SUBSET Constant
      BY <1>1
    <3>2. asm' = [asm EXCEPT !.top = asm.top - pad, !.p = asm.top - pad, !.ks = {}]
      BY <2>1
    <3> QED BY <1>0, <3>0, <3>1, <3>2
  <2> QED BY <1>1, <1>9, <2>1, <2>2
<1>15. ASSUME NEW drop \in 0 .. 1, NEW parent \in 0 .. Len(areas), lj_asm_trace(drop, parent)
       PROVE  ProtectInv'
  <2>1. /\ asm.at = "emit" /\ areas' = areas /\ sizemcode' = sizemcode /\ pieces' = pieces /\ jmc' = jmc
        /\ asm' = [asm EXCEPT !.at = "stop", !.top = @ - drop, !.patch = parent]
    BY <1>15 DEF lj_asm_trace
  <2>2. asm' \in AsmType /\ asm'.at = "stop"
    <3>0. asm.at = "emit"
      BY <2>1
    <3>1. asm.top - drop \in Int /\ parent \in Nat
      BY <1>1
    <3>2. asm' = [asm EXCEPT !.at = "stop", !.top = asm.top - drop, !.patch = parent]
      BY <2>1
    <3> QED BY <1>0, <3>0, <3>1, <3>2
  <2> QED BY <1>1, <1>9, <2>1, <2>2
<1>16. ASSUME lj_mcode_patch
       PROVE  ProtectInv'
  <2>1. /\ asm.at = "stop" /\ asm.patch # 0 /\ asm' = [asm EXCEPT !.at = "patch"]
        /\ sizemcode' = sizemcode /\ pieces' = pieces
    BY <1>16 DEF lj_mcode_patch
  <2>2. asm' \in AsmType /\ asm'.at = "patch" /\ asm'.patch = asm.patch /\ asm.patch \in Nat
    BY <1>1, <2>1
  <2>3. areas' \in Seq(Area) /\ areas' # <<>> /\ jmc' \in JmcType /\ CacheTrue' /\ FewWritable'
    <3>1. CASE Age(1) = asm.patch
      <4>1. mcode_protect("RW")
        BY <1>16, <3>1 DEF lj_mcode_patch
      <4>2. areas' \in Seq(Area) /\ areas' # <<>> /\ jmc' \in JmcType /\ CacheTrue' /\ OnlyFirstWritable'
        BY <1>1, <1>2, <1>3, <1>4, <2>1, <4>1, ProtectEffect DEF SameSizes
      <4> QED BY <4>2 DEF OnlyFirstWritable, FewWritable
    <3>2. CASE Age(1) # asm.patch
      <4>1. /\ jmc' = jmc
            /\ areas' = [i \in DOMAIN areas |-> IF Age(i) = asm.patch THEN [areas[i] EXCEPT !.prot = "RW"]
                                                ELSE areas[i]]
        BY <1>16, <3>2 DEF lj_mcode_patch
      <4>2. /\ areas' \in Seq(Area) /\ Len(areas') = Len(areas) /\ DOMAIN areas' = DOMAIN areas
            /\ \A i \in DOMAIN areas : Age(i) # asm.patch => areas'[i] = areas[i]
        BY <1>1, <1>4, <2>2, <4>1, PatchedAreas
      <4>3. 1 \in DOMAIN areas /\ areas' # <<>>
        BY <1>1, <1>3, <2>1, <4>2, AreaTypes
      <4>4. CacheTrue'
        BY <1>2, <1>3, <2>1, <3>2, <4>1, <4>2, <4>3 DEF CacheTrue
      <4>5. \A i : Age(i)' = Age(i)
        BY <4>2 DEF Age
      <4>6. FewWritable'
        BY <1>2, <2>1, <2>2, <4>2, <4>5 DEF OnlyFirstWritable, FewWritable
      <4> QED BY <1>1, <4>1, <4>2, <4>3, <4>4, <4>6
    <3> QED BY <3>1, <3>2
  <2>4. MCodeType'
    BY <1>1, <2>1, <2>2, <2>3 DEF MCodeType
  <2> QED BY <2>2, <2>3, <2>4 DEF ProtectInv, HasArea, CodeProtected, ExecutableWhenIdle, CacheTrue
<1>17. ASSUME lj_mcode_patch_finish
       PROVE  ProtectInv'
  <2>1. /\ asm.at = "patch" /\ asm' = [asm EXCEPT !.at = "stop", !.patch = 0]
        /\ sizemcode' = sizemcode /\ pieces' = pieces
    BY <1>17 DEF lj_mcode_patch_finish
  <2>2. asm' \in AsmType /\ asm'.at = "stop" /\ asm.patch \in Nat
    BY <1>1, <2>1
  <2>3. FewWritable /\ 1 \in DOMAIN areas
    BY <1>1, <1>3, <2>1, AreaTypes DEF ProtectInv, CodeProtected
  <2>4. areas' \in Seq(Area) /\ areas' # <<>> /\ jmc' \in JmcType /\ CacheTrue' /\ OnlyFirstWritable'
    <3>1. CASE Age(1) = asm.patch
      <4>1. mcode_protect("RX")
        BY <1>17, <3>1 DEF lj_mcode_patch_finish
      <4>2. \A i \in DOMAIN areas : i # 1 => Age(i) # asm.patch
        BY <1>1, <3>1, AreaTypes DEF Age
      <4>3. OnlyFirstWritable
        <5>1. \A i \in DOMAIN areas : areas[i].prot \in {"RW", "RX"}
          BY <1>1, AreaTypes DEF Prots
        <5> QED BY <2>3, <4>2, <5>1 DEF OnlyFirstWritable, FewWritable
      <4> QED BY <1>1, <1>2, <1>3, <1>4, <2>1, <4>1, <4>3, ProtectEffect DEF SameSizes
    <3>2. CASE Age(1) # asm.patch
      <4>1. /\ jmc' = jmc
            /\ areas' = [i \in DOMAIN areas |-> IF Age(i) = asm.patch THEN [areas[i] EXCEPT !.prot = "RX"]
                                                ELSE areas[i]]
        BY <1>17, <3>2 DEF lj_mcode_patch_finish
      <4>2. /\ areas' \in Seq(Area) /\ Len(areas') = Len(areas) /\ DOMAIN areas' = DOMAIN areas
            /\ \A i \in DOMAIN areas : /\ Age(i) = asm.patch => areas'[i].prot = "RX"
                                       /\ Age(i) # asm.patch => areas'[i] = areas[i]
        <5>1. "RX" \in Prots /\ asm.patch \in Nat /\ MCodeType
          BY <1>1, <1>4, <2>2
        <5>2. /\ areas' \in Seq(Area) /\ Len(areas') = Len(areas) /\ DOMAIN areas' = DOMAIN areas
              /\ \A i \in DOMAIN areas : /\ areas'[i].size = areas[i].size
                                         /\ Age(i) = asm.patch => areas'[i].prot = "RX"
                                         /\ Age(i) # asm.patch => areas'[i] = areas[i]
          BY <4>1, <5>1, PatchedAreas
        <5> QED BY <5>2
      <4>3. areas' # <<>>
        BY <2>3, <4>2
      <4>4. CacheTrue'
        BY <1>2, <1>3, <2>1, <2>3, <3>2, <4>1, <4>2 DEF CacheTrue
      <4>5. OnlyFirstWritable'
        <5>1. \A i \in DOMAIN areas : areas[i].prot \in {"RW", "RX"}
          BY <1>1, AreaTypes DEF Prots
        <5> QED BY <2>3, <4>2, <5>1 DEF OnlyFirstWritable, FewWritable
      <4> QED BY <1>1, <4>1, <4>2, <4>3, <4>4, <4>5
    <3> QED BY <3>1, <3>2
  <2> QED BY <1>1, <2>1, <2>2, <2>4, AssemblingStep
<1>18. ASSUME lj_mcode_commit
       PROVE  ProtectInv'
  <2>1. /\ asm.at = "stop" /\ sizemcode' = sizemcode /\ asm' = Idle
        /\ areas' = Cached(areas, "RX") /\ jmc' = [jmc EXCEPT !.top = asm.p, !.prot = "RX"]
        /\ pieces' = pieces \cup {[kind |-> "code", area |-> Len(areas), lo |-> asm.p, hi |-> asm.top]}
                      \cup {[kind |-> "k64", area |-> Len(areas), lo |-> k.at, hi |-> k.at + 1] : k \in asm.ks}
    BY <1>18 DEF lj_mcode_commit
  <2>2. pieces' \subseteq Piece
    <3>1. asm.p \in Int /\ asm.top \in Int /\ \A k \in asm.ks : k.at \in Int /\ k.at + 1 \in Int
      BY <1>1 DEF Constant
    <3> QED BY <1>1, <2>1, <3>1 DEF Piece
  <2>3. jmc' \in JmcType /\ jmc'.prot = "RX"
    BY <1>1, <1>4, <2>1
  <2>4. areas' \in Seq(Area) /\ \A i \in DOMAIN areas' : areas'[i].prot = "RX"
    BY <1>1, <1>2, <1>3, <1>4, <2>1, CachedAreas DEF CacheTrue, OnlyFirstWritable
  <2>5. CacheTrue'
    <3>1. 1 \in DOMAIN areas'
      BY <1>1, <1>3, <1>4, <2>1, CachedAreas, AreaTypes
    <3> QED BY <2>3, <2>4, <3>1 DEF CacheTrue
  <2> QED BY <1>1, <2>1, <2>2, <2>3, <2>4, <2>5, RestingStep
<1>19. ASSUME lj_trace_flush_mcode
       PROVE  ProtectInv'
  <2>1. /\ lj_mcode_free /\ pieces' = {} /\ sizemcode' = sizemcode /\ asm' = asm /\ asm.at = "idle"
    BY <1>19 DEF lj_trace_flush_mcode, mcode_flush
  <2>2. /\ areas' \in Seq(Area) /\ jmc' \in JmcType /\ CacheTrue' /\ \A i \in DOMAIN areas' : FALSE
    BY <1>1, <2>1, FlushEffect
  <2>3. MCodeType'
    BY <1>1, <2>1, <2>2 DEF MCodeType
  <2> QED BY <2>1, <2>2, <2>3 DEF ProtectInv, HasArea, CodeProtected, ExecutableWhenIdle, FewWritable, CacheTrue
<1>20. ASSUME NEW sz \in MCSizes, jit_opt_start(sz)
       PROVE  ProtectInv'
  BY <1>20 DEF jit_opt_start, ProtectInv, MCodeType, HasArea, CodeProtected, ExecutableWhenIdle, FewWritable, Age
<1>21. ASSUME UNCHANGED mcodeVars
       PROVE  ProtectInv'
  BY <1>21 DEF mcodeVars, ProtectInv, MCodeType, HasArea, CodeProtected, ExecutableWhenIdle, FewWritable, Age
<1> QED BY <1>5, <1>6, <1>7, <1>11, <1>12, <1>13, <1>14, <1>15, <1>16, <1>17, <1>18, <1>19, <1>20, <1>21
     DEF MCodeNext

\* The initial state satisfies ProtectInv.
LEMMA ProtectInit == MCodeInit => ProtectInv
<1> SUFFICES ASSUME MCodeInit
             PROVE  ProtectInv
  OBVIOUS
<1>1. MCodeType
  BY DEF MCodeInit, MCodeType, Idle, Prots, Busy
<1>2. HasArea /\ CodeProtected
  BY DEF MCodeInit, Idle, Busy, HasArea, CodeProtected, ExecutableWhenIdle, FewWritable
<1> QED BY <1>1, <1>2 DEF ProtectInv

\* "NONE of them is writable": no page of an area is writable while nothing is
\* assembled, and only the area at hand while something is; through every error.
THEOREM CodeProtectedCorrect == MCodeSpec => []CodeProtected
<1>1. ProtectInv /\ [MCodeNext]_mcodeVars => ProtectInv'
  BY ProtectStep
<1>2. ProtectInv => CodeProtected
  BY DEF ProtectInv
<1> QED BY <1>1, <1>2, ProtectInit, PTL DEF MCodeSpec

-----------------------------------------------------------------------------
(* The sum of the sizes of the areas, counted from the oldest. *)

MappedSize(s) ==
  LET sum[k \in 0 .. Len(s)] == IF k = 0 THEN 0 ELSE sum[k - 1] + s[Len(s) + 1 - k].size
  IN sum[Len(s)]

\* f gives the sizes of the k oldest areas.
IsSum(s, f) ==
  /\ f \in [0 .. Len(s) -> Nat] /\ f[0] = 0
  /\ \A k \in 1 .. Len(s) : f[k] = f[k - 1] + s[Len(s) + 1 - k].size

\* There is one sum of the sizes only.
LEMMA SumUnique ==
  ASSUME NEW s \in Seq(Area), NEW f, IsSum(s, f)
  PROVE  MappedSize(s) = f[Len(s)]
<1> DEFINE n == Len(s)
           isDef(h) == h = [k \in 0 .. n |-> IF k = 0 THEN 0 ELSE h[k - 1] + s[n + 1 - k].size]
           sum == CHOOSE h : isDef(h)
<1>1. MappedSize(s) = sum[n]
  BY DEF MappedSize
<1>2. n \in Nat
  OBVIOUS
<1>3. isDef(f)
  <2>1. f = [k \in 0 .. n |-> f[k]]
    BY DEF IsSum
  <2>2. \A k \in 0 .. n : f[k] = IF k = 0 THEN 0 ELSE f[k - 1] + s[n + 1 - k].size
    BY <1>2 DEF IsSum
  <2> QED BY <2>1, <2>2
<1>4. isDef(sum)
  <2> HIDE DEF isDef
  <2> QED BY <1>3
<1> HIDE DEF sum
<1>5. sum[0] = f[0] /\ \A i \in 1 .. n : sum[i] = sum[i - 1] + s[n + 1 - i].size
  BY <1>2, <1>4 DEF IsSum
<1>6. \A i \in 1 .. n : sum[i - 1] = f[i - 1] => sum[i] = f[i]
  BY <1>5 DEF IsSum
<1> HIDE DEF n
<1>7. \A i \in 0 .. n : sum[i] = f[i]
  BY <1>2, <1>5, <1>6, AccumulationUnique, ZenonT(60)
<1> QED BY <1>1, <1>2, <1>7 DEF n

\* Every list of areas has a sum of sizes.
LEMMA SumExists ==
  ASSUME NEW s \in Seq(Area)
  PROVE  \E f : IsSum(s, f)
<1> DEFINE n == Len(s)
           F == [x \in (1 .. n) \X Nat |-> x[2] + s[n + 1 - x[1]].size]
<1>1. n \in Nat /\ 0 \in Nat
  OBVIOUS
<1>2. ASSUME NEW i \in 1 .. n
      PROVE  s[n + 1 - i].size \in Nat
  <2>1. n + 1 - i \in 1 .. n /\ s \in [1 .. n -> Area]
    BY <1>1
  <2>2. s[n + 1 - i] \in Area
    BY <2>1
  <2> QED BY <2>2 DEF Area
<1>3. F \in [(1 .. n) \X Nat -> Nat]
  BY <1>2
<1>4. \A i \in 1 .. n, x \in Nat : F[<<i, x>>] = x + s[n + 1 - i].size
  OBVIOUS
<1> HIDE DEF n, F
<1>5. PICK f : Accumulates(f, Nat, 0, n, F)
  BY <1>1, <1>3, AccumulationExists
<1>6. \A i \in 1 .. n : f[i - 1] \in Nat
  BY <1>1, <1>5 DEF Accumulates
<1>7. IsSum(s, f)
  BY <1>4, <1>5, <1>6 DEF IsSum, n, Accumulates
<1> QED BY <1>7

\* Areas of the same sizes have the same sum.
LEMMA SumKept ==
  ASSUME MCodeType, NEW t, SameSizes(t)
  PROVE  MappedSize(t) = MappedSize(areas)
<1>1. areas \in Seq(Area) /\ t \in Seq(Area) /\ Len(t) = Len(areas)
  BY DEF MCodeType, SameSizes
<1>2. PICK f : IsSum(areas, f)
  BY <1>1, SumExists
<1>3. \A k \in 1 .. Len(areas) : t[Len(areas) + 1 - k].size = areas[Len(areas) + 1 - k].size
  <2>1. \A k \in 1 .. Len(areas) : Len(areas) + 1 - k \in DOMAIN areas
    BY <1>1
  <2> QED BY <2>1 DEF SameSizes
<1>4. IsSum(t, f)
  BY <1>1, <1>2, <1>3 DEF IsSum
<1> QED BY <1>1, <1>2, <1>4, SumUnique

\* A new area adds its size.
LEMMA SumAdded ==
  ASSUME MCodeType, NEW prot \in Prots, NEW s \in Seq(Area), NewArea(s, prot)
  PROVE  MappedSize(areas') = MappedSize(areas) + sizemcode
<1> DEFINE x == [size |-> sizemcode, prot |-> prot]
           n == Len(s)
<1>1. x \in Area /\ x.size = sizemcode /\ sizemcode \in Nat
  BY AreaTypes DEF Area
<1>2. areas' = <<x>> \o s /\ SameSizes(s) /\ n \in Nat
  BY DEF NewArea
<1> HIDE DEF x
<1>3. /\ areas' \in Seq(Area) /\ Len(areas') = n + 1 /\ areas'[1] = x
      /\ \A i \in 2 .. n + 1 : areas'[i] = s[i - 1]
  BY <1>1, <1>2, NewAreaFirst
<1>4. PICK f : IsSum(s, f)
  BY SumExists
<1> HIDE DEF n
<1>5. /\ f \in [0 .. n -> Nat] /\ f[0] = 0
      /\ \A k \in 1 .. n : f[k] = f[k - 1] + s[n + 1 - k].size
  BY <1>4 DEF IsSum, n
<1> DEFINE g == [k \in 0 .. n + 1 |-> IF k = n + 1 THEN f[n] + sizemcode ELSE f[k]]
<1>6. f[n] \in Nat
  BY <1>2, <1>5
<1>7. g \in [0 .. n + 1 -> Nat] /\ g[0] = 0 /\ g[n + 1] = f[n] + sizemcode /\ \A k \in 0 .. n : g[k] = f[k]
  BY <1>1, <1>2, <1>5, <1>6
<1>8. ASSUME NEW k \in 1 .. n + 1
      PROVE  g[k] = g[k - 1] + areas'[n + 2 - k].size
  <2>1. CASE k = n + 1
    <3>1. k - 1 = n /\ n + 2 - k = 1 /\ n \in 0 .. n
      BY <1>2, <2>1
    <3> HIDE DEF g
    <3> QED BY <1>1, <1>3, <1>7, <2>1, <3>1
  <2>2. CASE k # n + 1
    <3>1. k \in 1 .. n /\ k \in 0 .. n /\ k - 1 \in 0 .. n /\ n + 2 - k \in 2 .. n + 1 /\ (n + 2 - k) - 1 = n + 1 - k
      BY <1>2, <2>2
    <3>2. areas'[n + 2 - k] = s[n + 1 - k]
      BY <1>3, <3>1
    <3> HIDE DEF g
    <3> QED BY <1>5, <1>7, <3>1, <3>2
  <2> QED BY <2>1, <2>2
<1> HIDE DEF g
<1>9. IsSum(areas', g)
  <2>1. \A k \in 1 .. n + 1 : (n + 1) + 1 - k = n + 2 - k
    BY <1>2
  <2> QED BY <1>3, <1>7, <1>8, <2>1 DEF IsSum
<1>10. MappedSize(areas') = f[n] + sizemcode
  BY <1>3, <1>7, <1>9, SumUnique
<1>11. MappedSize(s) = f[n]
  BY <1>4, SumUnique DEF n
<1>12. MappedSize(s) = MappedSize(areas)
  BY <1>2, SumKept
<1> QED BY <1>10, <1>11, <1>12

-----------------------------------------------------------------------------
(* Accounting. *)

\* lj_mcode_reserve makes the first area writable, or adds the first one.
LEMMA ReserveEffect ==
  ASSUME ProtectInv, lj_mcode_reserve
  PROVE  /\ Keeps \/ Adds
         /\ areas # <<>> => Keeps /\ jmc' = [jmc EXCEPT !.prot = "RW"]
         /\ areas = <<>> => Len(areas') = 1 /\ jmc'.top = sizemcode /\ jmc'.bot = LinkSize
<1>1. MCodeType /\ "RW" \in Prots /\ CacheTrue /\ OnlyFirstWritable
  BY ProtectedAreas DEF ProtectInv, Prots, lj_mcode_reserve
<1>2. CASE areas = <<>>
  <2>1. mcode_allocarea
    BY <1>2 DEF lj_mcode_reserve
  <2>2. areas' = <<[size |-> sizemcode, prot |-> "RW"]>> \o <<>>
    BY <1>2, <2>1 DEF mcode_allocarea
  <2>3. SameSizes(<<>>) /\ <<>> \in Seq(Area) /\ \A i \in DOMAIN <<>> : <<>>[i].prot = "RX"
    BY <1>1, <1>2 DEF MCodeType, SameSizes
  <2>4. NewArea(<<>>, "RW")
    BY <2>1, <2>2, <2>3 DEF NewArea, mcode_allocarea
  <2>5. Adds
    BY <1>1, <1>2, <2>3, <2>4 DEF Adds
  <2>6. Len(areas') = Len(areas) + 1 /\ Len(areas) = 0
    BY <1>1, <1>2, <2>3, <2>4, NewAreaEffect
  <2> QED BY <1>2, <2>1, <2>5, <2>6 DEF mcode_allocarea
<1>3. CASE areas # <<>>
  <2>1. mcode_protect("RW")
    BY <1>3 DEF lj_mcode_reserve
  <2>2. SameSizes(areas') /\ jmc' = [jmc EXCEPT !.prot = "RW"]
    BY <1>1, <1>3, <2>1, ProtectEffect
  <2>3. jmc'.all = jmc.all
    BY <1>1, <2>2 DEF MCodeType
  <2> QED BY <1>3, <2>2, <2>3 DEF Keeps
<1> QED BY <1>2, <1>3

\* lj_mcode_patch() leaves sizes as they are.
LEMMA PatchEffect ==
  ASSUME ProtectInv, lj_mcode_patch \/ lj_mcode_patch_finish
  PROVE  Keeps /\ areas' # <<>>
<1>1. MCodeType /\ CacheTrue /\ asm.at \in Busy /\ areas # <<>> /\ asm.patch \in Nat
  BY ProtectedAreas DEF ProtectInv, HasArea, MCodeType, lj_mcode_patch, lj_mcode_patch_finish, Busy
<1>2. "RX" \in Prots /\ "RW" \in Prots
  BY DEF Prots
<1>3. ASSUME NEW prot \in Prots, mcode_protect(prot)
      PROVE  Keeps
  <2>1. areas' = Cached(areas, prot) /\ jmc' = [jmc EXCEPT !.prot = prot]
    BY <1>3 DEF mcode_protect
  <2>2. SameSizes(areas')
    BY <1>1, <2>1, CachedAreas DEF SameSizes
  <2>3. jmc'.all = jmc.all
    BY <1>1, <2>1 DEF MCodeType
  <2> QED BY <2>2, <2>3 DEF Keeps
<1>4. ASSUME NEW prot \in Prots, jmc' = jmc,
             areas' = [i \in DOMAIN areas |-> IF Age(i) = asm.patch THEN [areas[i] EXCEPT !.prot = prot]
                                              ELSE areas[i]]
      PROVE  Keeps
  <2>1. SameSizes(areas')
    BY <1>1, <1>4, PatchedAreas DEF SameSizes
  <2> QED BY <1>4, <2>1 DEF Keeps
<1>5. Keeps
  <2>1. CASE Age(1) = asm.patch
    BY <1>2, <1>3, <2>1 DEF lj_mcode_patch, lj_mcode_patch_finish
  <2>2. CASE Age(1) # asm.patch
    BY <1>2, <1>4, <2>2 DEF lj_mcode_patch, lj_mcode_patch_finish
  <2> QED BY <2>1, <2>2
<1>6. areas' # <<>>
  <2>1. Len(areas') = Len(areas) /\ Len(areas) # 0
    BY <1>1, <1>5, AreaTypes DEF Keeps, SameSizes
  <2> QED BY <2>1
<1> QED BY <1>5, <1>6

\* Every step keeps all areas, frees all, or adds one as far as maxmcode allows.
LEMMA AreasStep ==
  ASSUME ProtectInv, [MCodeNext]_mcodeVars
  PROVE  Keeps \/ Frees \/ Adds
<1>1. /\ MCodeType /\ CacheTrue /\ (asm.at # "patch" => OnlyFirstWritable)
      /\ asm.at \in Busy => areas # <<>>
  BY ProtectedAreas DEF ProtectInv, HasArea
<1>2. ASSUME areas' = areas, jmc'.all = jmc.all
      PROVE  Keeps
  BY <1>1, <1>2 DEF Keeps, SameSizes, MCodeType
<1>3. ASSUME lj_mcode_free
      PROVE  Frees
  BY <1>1, <1>3, FlushEffect DEF Frees
<1>4. ASSUME NEW need \in Int, asm.at = "emit", lj_mcode_limiterr(need)
      PROVE  Keeps \/ Frees \/ Adds
  <2>1. areas # <<>> /\ OnlyFirstWritable
    BY <1>1, <1>4 DEF Busy
  <2> QED BY <1>1, <1>4, <2>1, LimitEffect
<1>5. REDZONE \in Nat /\ Need \in Int
  BY <1>1, MCodeAssumption DEF Need, MCodeType
<1>6. "RX" \in Prots /\ "RW" \in Prots
  BY DEF Prots
<1>10. CASE lj_mcode_reserve
  BY <1>10, ReserveEffect
<1>11. CASE ReserveFails
  BY <1>3, <1>11 DEF ReserveFails, mcode_flush
<1>12. CASE AsmFails
  <2>1. lj_mcode_abort /\ OnlyFirstWritable
    BY <1>1, <1>12 DEF AsmFails
  <2> QED BY <1>1, <2>1, AbortEffect DEF Keeps
<1>13. ASSUME NEW g \in StubGroups, asm_exitstub_gen(g)
       PROVE  Keeps \/ Frees \/ Adds
  <2>1. CASE asm.bot + 2 >= asm.top
    BY <1>4, <1>5, <1>13, <2>1 DEF asm_exitstub_gen
  <2>2. CASE ~(asm.bot + 2 >= asm.top)
    <3>1. areas' = areas /\ jmc' = [jmc EXCEPT !.bot = asm.bot + 2]
      BY <1>13, <2>2 DEF asm_exitstub_gen
    <3>2. jmc'.all = jmc.all
      BY <1>1, <3>1 DEF MCodeType
    <3> QED BY <1>2, <3>1, <3>2
  <2> QED BY <2>1, <2>2
<1>14. ASSUME NEW n \in 1 .. REDZONE, asm_ir(n)
       PROVE  Keeps \/ Frees \/ Adds
  <2>1. CASE asm.p - n < asm.bot + REDZONE
    <3>1. Need + n \in Int
      BY <1>5
    <3> QED BY <1>4, <1>14, <2>1, <3>1 DEF asm_ir
  <2>2. CASE ~(asm.p - n < asm.bot + REDZONE)
    BY <1>2, <1>14, <2>2 DEF asm_ir
  <2> QED BY <2>1, <2>2
<1>15. ASSUME NEW fuse \in BOOLEAN, emit_loadk64(fuse)
       PROVE  Keeps
  <2>1. areas' = areas /\ (jmc' = jmc \/ jmc' = [jmc EXCEPT !.bot = asm.bot + 1])
    BY <1>15 DEF emit_loadk64
  <2>2. jmc'.all = jmc.all
    BY <1>1, <2>1 DEF MCodeType
  <2> QED BY <1>2, <2>1, <2>2
<1>16. ASSUME NEW pad \in 0 .. 1, asm_again(pad)
       PROVE  Keeps
  BY <1>2, <1>16 DEF asm_again
<1>17. ASSUME NEW drop \in 0 .. 1, NEW parent \in 0 .. Len(areas), lj_asm_trace(drop, parent)
       PROVE  Keeps
  BY <1>2, <1>17 DEF lj_asm_trace
<1>18. CASE lj_mcode_patch
  BY <1>18, PatchEffect
<1>19. CASE lj_mcode_patch_finish
  BY <1>19, PatchEffect
<1>20. CASE lj_mcode_commit
  <2>1. areas # <<>> /\ areas' = Cached(areas, "RX") /\ jmc' = [jmc EXCEPT !.top = asm.p, !.prot = "RX"]
    BY <1>1, <1>20 DEF lj_mcode_commit, Busy
  <2>2. SameSizes(areas')
    BY <1>1, <1>6, <2>1, CachedAreas DEF SameSizes
  <2>3. jmc'.all = jmc.all
    BY <1>1, <2>1 DEF MCodeType
  <2> QED BY <2>2, <2>3 DEF Keeps
<1>21. CASE lj_trace_flush_mcode
  BY <1>3, <1>21 DEF lj_trace_flush_mcode, mcode_flush
<1>22. ASSUME NEW sz \in MCSizes, jit_opt_start(sz)
       PROVE  Keeps
  BY <1>2, <1>22 DEF jit_opt_start
<1>23. CASE UNCHANGED mcodeVars
  BY <1>2, <1>23 DEF mcodeVars
<1> QED BY <1>10, <1>11, <1>12, <1>13, <1>14, <1>15, <1>16, <1>17, <1>18, <1>19, <1>20, <1>21, <1>22, <1>23
     DEF MCodeNext

AccountInv == ProtectInv /\ MCodeAccounted

\* Mapped is the sum of the sizes.
LEMMA MappedIsSum == Mapped = MappedSize(areas) /\ Mapped' = MappedSize(areas')
BY DEF Mapped, MappedSize, Age

\* szallmcarea is the sum of the sizes of the areas that are mapped, and within
\* maxmcode unless the first area alone is larger.
THEOREM MCodeAccountedCorrect == MCodeSpec => []MCodeAccounted
<1>1. MCodeInit => AccountInv
  <2> SUFFICES ASSUME MCodeInit
               PROVE  MCodeAccounted
    BY ProtectInit DEF AccountInv
  <2>1. areas = <<>> /\ jmc.all = 0 /\ areas \in Seq(Area) /\ Len(areas) = 0
    BY DEF MCodeInit
  <2>2. IsSum(areas, [k \in 0 .. 0 |-> 0])
    BY <2>1 DEF IsSum
  <2>3. Mapped = 0
    BY <2>1, <2>2, SumUnique, MappedIsSum
  <2> QED BY <2>1, <2>3, MCodeAssumption DEF MCodeAccounted
<1>2. AccountInv /\ [MCodeNext]_mcodeVars => AccountInv'
  <2> SUFFICES ASSUME AccountInv, [MCodeNext]_mcodeVars
               PROVE  MCodeAccounted'
    BY ProtectStep DEF AccountInv
  <2>1. /\ ProtectInv /\ MCodeType /\ jmc.all = MappedSize(areas) /\ areas \in Seq(Area)
        /\ jmc.all <= MaxMCode \/ Len(areas) = 1
    BY MappedIsSum DEF AccountInv, MCodeAccounted, ProtectInv, MCodeType
  <2>2. CASE Keeps
    <3>1. MappedSize(areas') = MappedSize(areas) /\ jmc'.all = jmc.all /\ Len(areas') = Len(areas)
      BY <2>1, <2>2, SumKept DEF Keeps, SameSizes
    <3> QED BY <2>1, <3>1, MappedIsSum DEF MCodeAccounted
  <2>3. CASE Frees
    <3>1. areas' = <<>> /\ jmc'.all = 0 /\ areas' \in Seq(Area) /\ Len(areas') = 0
      BY <2>3 DEF Frees
    <3>2. IsSum(areas', [k \in 0 .. 0 |-> 0])
      BY <3>1 DEF IsSum
    <3>3. MappedSize(areas') = 0
      BY <3>1, <3>2, SumUnique
    <3> QED BY <3>1, <3>3, MappedIsSum, MCodeAssumption DEF MCodeAccounted
  <2>4. CASE Adds
    <3>1. PICK prot \in Prots, s \in Seq(Area) : NewArea(s, prot) /\ (areas = <<>> \/ jmc.all + sizemcode <= MaxMCode)
      BY <2>4 DEF Adds
    <3>2. MappedSize(areas') = MappedSize(areas) + sizemcode
      BY <2>1, <3>1, SumAdded
    <3>3. jmc'.all = jmc.all + sizemcode
      BY <3>1 DEF NewArea
    <3>4. Len(areas') = Len(areas) + 1
      <4>1. [size |-> sizemcode, prot |-> prot] \in Area
        BY <2>1, AreaTypes DEF Area
      <4> QED BY <3>1, <4>1, NewAreaFirst DEF NewArea, SameSizes
    <3>5. areas = <<>> => Len(areas') = 1
      BY <3>4
    <3> QED BY <2>1, <3>1, <3>2, <3>3, <3>5, MappedIsSum DEF MCodeAccounted
  <2> QED BY <2>1, <2>2, <2>3, <2>4, AreasStep
<1>3. AccountInv => MCodeAccounted
  BY DEF AccountInv
<1> QED BY <1>1, <1>2, <1>3, PTL DEF MCodeSpec

-----------------------------------------------------------------------------
(* Places in the areas. *)

\* Pieces are in areas that exist, and in the current one not between its ends.
Placed ==
  /\ \A x \in pieces : x.area \in 1 .. Len(areas)
  /\ areas # <<>> => jmc.bot <= jmc.top
  /\ \A x, y \in pieces : x # y /\ x.area = y.area => x.hi <= y.lo \/ y.hi <= x.lo
  /\ \A x \in pieces : x.area = Len(areas) => x.hi <= jmc.bot \/ x.lo >= jmc.top

\* The assembler stays between the ends; a constant of the trace that is
\* assembled is below what is free, and there is one of them at most.
Room ==
  /\ asm.at \in Busy => jmc.bot = asm.bot /\ asm.bot <= asm.p /\ asm.p <= asm.top /\ asm.top <= jmc.top
  /\ \A k \in asm.ks : /\ k.at + 1 <= jmc.bot /\ asm.at \in Busy
                       /\ asm.at = "emit" => asm.top - k.i = k.at
                       /\ \A x \in pieces : x.area = Len(areas) => x.hi <= k.at \/ x.lo >= k.at + 1
  /\ \A k, l \in asm.ks : k = l

PlaceInv == ProtectInv /\ Placed /\ Room

\* The operands are numbers.
LEMMA PlaceTypes ==
  ASSUME MCodeType
  PROVE  /\ Len(areas) \in Nat /\ jmc.bot \in Int /\ jmc.top \in Int /\ jmc.all \in Nat
         /\ asm.top \in Int /\ asm.p \in Int /\ asm.bot \in Int
         /\ \A x \in pieces : x.area \in Nat /\ x.lo \in Int /\ x.hi \in Int
         /\ \A k \in asm.ks : k.at \in Int /\ k.i \in Int
         /\ REDZONE \in Nat /\ REDZONE >= 1
<1>1. Len(areas) \in Nat
  BY AreaTypes
<1>2. \A x \in pieces : x.area \in Nat /\ x.lo \in Int /\ x.hi \in Int
  BY DEF MCodeType, Piece
<1>3. \A k \in asm.ks : k.at \in Int /\ k.i \in Int
  <2>1. asm.ks \subseteq Constant
    BY DEF MCodeType
  <2> QED BY <2>1 DEF Constant
<1>4. REDZONE \in Nat /\ REDZONE >= 1
  BY MCodeAssumption
<1> QED BY <1>1, <1>2, <1>3, <1>4 DEF MCodeType

\* Nothing is assembled after the step, and the pieces and the ends stay.
LEMMA RestKeepsPlaces ==
  ASSUME Placed, pieces' = pieces, Len(areas') = Len(areas), areas' = <<>> <=> areas = <<>>,
         jmc'.bot = jmc.bot, jmc'.top = jmc.top, asm'.ks = {}, asm'.at \notin Busy
  PROVE  Placed' /\ Room'
BY DEF Placed, Room

\* All is freed.
LEMMA FreePlaces ==
  ASSUME pieces' = {}, areas' = <<>>, asm'.ks = {}, asm'.at \notin Busy
  PROVE  Placed' /\ Room'
BY DEF Placed, Room

\* A new area is empty.
LEMMA NewAreaPlaces ==
  ASSUME MCodeType, Placed, pieces' = pieces, Len(areas') = Len(areas) + 1, areas' # <<>>,
         jmc'.bot = LinkSize, jmc'.top = sizemcode
  PROVE  Placed'
<1>1. Len(areas) \in Nat /\ sizemcode \in Nat /\ sizemcode >= 1
  BY AreaTypes
<1>2. \A x \in pieces : x.area \in 1 .. Len(areas') /\ x.area # Len(areas')
  BY <1>1 DEF Placed
<1>3. jmc'.bot <= jmc'.top
  BY <1>1 DEF LinkSize
<1> QED BY <1>2, <1>3 DEF Placed

\* lj_mcode_limiterr keeps the pieces placed within their areas.
LEMMA LimitPlaces ==
  ASSUME ProtectInv, Placed, asm.at = "emit", NEW need \in Int, lj_mcode_limiterr(need)
  PROVE  Placed' /\ Room'
<1>1. MCodeType /\ CacheTrue /\ OnlyFirstWritable /\ areas # <<>>
  BY ProtectedAreas DEF ProtectInv, HasArea, Busy
<1>2. /\ Idle.ks = {} /\ Idle.at = "idle" /\ [Idle EXCEPT !.at = "retry"].ks = {}
      /\ [Idle EXCEPT !.at = "retry"].at = "retry"
  BY DEF Idle
<1>3. "idle" \notin Busy /\ "retry" \notin Busy
  BY DEF Busy
<1>4. Len(areas) \in Nat /\ Len(areas) # 0
  BY <1>1, AreaTypes
<1>5. /\ areas' \in Seq(Area)
      /\ \/ asm' = Idle /\ pieces' = pieces /\ Len(areas') = Len(areas) /\ jmc'.top = jmc.top /\ jmc'.bot = jmc.bot
         \/ asm' = Idle /\ pieces' = {} /\ areas' = <<>>
         \/ /\ asm' = [Idle EXCEPT !.at = "retry"] /\ pieces' = pieces /\ areas' # <<>>
            /\ Len(areas') = Len(areas) + 1 /\ jmc'.top = sizemcode /\ jmc'.bot = LinkSize
  BY <1>1, LimitEffect
<1>6. CASE asm' = Idle /\ pieces' = pieces /\ Len(areas') = Len(areas) /\ jmc'.top = jmc.top /\ jmc'.bot = jmc.bot
  <2>1. areas' # <<>>
    BY <1>4, <1>6
  <2> QED BY <1>1, <1>2, <1>3, <1>6, <2>1, RestKeepsPlaces
<1>7. CASE asm' = Idle /\ pieces' = {} /\ areas' = <<>>
  BY <1>2, <1>3, <1>7, FreePlaces
<1>8. CASE /\ asm' = [Idle EXCEPT !.at = "retry"] /\ pieces' = pieces /\ areas' # <<>>
           /\ Len(areas') = Len(areas) + 1 /\ jmc'.top = sizemcode /\ jmc'.bot = LinkSize
  <2>1. Placed'
    BY <1>1, <1>8, NewAreaPlaces
  <2>2. Room'
    BY <1>2, <1>3, <1>8 DEF Room
  <2> QED BY <2>1, <2>2
<1> QED BY <1>5, <1>6, <1>7, <1>8

\* A stub is put at the bottom of what is free.
LEMMA StubPlaces ==
  ASSUME ProtectInv, Placed, Room, NEW g, asm_exitstub_gen(g)
  PROVE  Placed' /\ Room'
<1>1. MCodeType /\ asm.at = "emit" /\ "emit" \in Busy
  BY DEF ProtectInv, asm_exitstub_gen, Busy
<1>2. CASE asm.bot + 2 >= asm.top
  <2>1. lj_mcode_limiterr(Need) /\ Need \in Int
    BY <1>1, <1>2, PlaceTypes DEF asm_exitstub_gen, Need
  <2> QED BY <1>1, <2>1, LimitPlaces
<1>3. CASE ~(asm.bot + 2 >= asm.top)
  <2> DEFINE stub == [kind |-> "stub", area |-> Len(areas), lo |-> asm.bot, hi |-> asm.bot + 2]
  <2>1. /\ asm' = [asm EXCEPT !.bot = @ + 2] /\ jmc' = [jmc EXCEPT !.bot = asm.bot + 2]
        /\ pieces' = pieces \cup {stub} /\ areas' = areas /\ asm.p = asm.top
    BY <1>3 DEF asm_exitstub_gen
  <2>2. stub.area = Len(areas) /\ stub.lo = asm.bot /\ stub.hi = asm.bot + 2
    OBVIOUS
  <2>3. /\ jmc'.bot = asm.bot + 2 /\ jmc'.top = jmc.top
        /\ asm'.bot = asm.bot + 2 /\ asm'.top = asm.top /\ asm'.p = asm.p
        /\ asm'.ks = asm.ks /\ asm'.at = "emit"
    BY <1>1, <2>1 DEF MCodeType
  <2>4. /\ jmc.bot = asm.bot /\ asm.top <= jmc.top /\ areas # <<>>
        /\ asm.bot + 2 < asm.top /\ asm.bot + 2 <= jmc.top /\ Len(areas) \in 1 .. Len(areas)
    <3>1. areas # <<>> /\ Len(areas) \in Nat /\ Len(areas) # 0
      BY <1>1, AreaTypes DEF ProtectInv, HasArea, Busy
    <3>2. jmc.bot = asm.bot /\ asm.top <= jmc.top
      BY <1>1 DEF Room
    <3>3. asm.bot + 2 < asm.top /\ asm.bot + 2 <= jmc.top
      BY <1>1, <1>3, <3>2, PlaceTypes
    <3> QED BY <3>1, <3>2, <3>3
  <2> HIDE DEF stub
  <2>5. \A x \in pieces : x.area = Len(areas) => x.hi <= stub.lo \/ stub.hi <= x.lo
    BY <1>1, <2>2, <2>4, PlaceTypes DEF Placed
  <2>6. \A k \in asm.ks : k.at + 1 <= stub.lo
    BY <2>2, <2>4 DEF Room
  <2>7. Placed'
    <3>1. \A x \in pieces' : x.area \in 1 .. Len(areas')
      BY <2>1, <2>2, <2>4 DEF Placed
    <3>2. \A x, y \in pieces' : x # y /\ x.area = y.area => x.hi <= y.lo \/ y.hi <= x.lo
      BY <2>1, <2>2, <2>5 DEF Placed
    <3>3. \A x \in pieces : x.area = Len(areas) => x.hi <= asm.bot + 2 \/ x.lo >= jmc.top
      BY <1>1, <2>4, PlaceTypes DEF Placed
    <3>4. \A x \in pieces' : x.area = Len(areas') => x.hi <= jmc'.bot \/ x.lo >= jmc'.top
      BY <1>1, <2>1, <2>2, <2>3, <3>3, PlaceTypes
    <3> QED BY <2>3, <2>4, <3>1, <3>2, <3>4 DEF Placed
  <2>8. Room'
    <3>1. asm.bot + 2 <= asm.p
      BY <1>1, <2>1, <2>4, PlaceTypes
    <3>2. \A k \in asm.ks : k.at + 1 <= asm.bot + 2
      BY <1>1, <2>2, <2>6, PlaceTypes
    <3>3. \A k \in asm.ks, x \in pieces' : x.area = Len(areas) => x.hi <= k.at \/ x.lo >= k.at + 1
      BY <1>1, <2>1, <2>6, PlaceTypes DEF Room
    <3>4. asm.p <= asm.top /\ asm.top <= jmc.top /\ \A k \in asm.ks : asm.top - k.i = k.at
      BY <1>1 DEF Room
    <3> QED BY <1>1, <2>1, <2>3, <3>1, <3>2, <3>3, <3>4 DEF Room
  <2> QED BY <2>7, <2>8
<1> QED BY <1>2, <1>3

\* A constant is put at the bottom of what is free, and committed.
LEMMA LoadPlaces ==
  ASSUME ProtectInv, Placed, Room, emit_loadk64(FALSE)
  PROVE  Placed' /\ Room'
<1> DEFINE new == [at |-> asm.bot, i |-> asm.top - asm.bot]
<1>1. MCodeType /\ asm.at = "emit" /\ "emit" \in Busy
  BY DEF ProtectInv, emit_loadk64, Busy
<1>2. /\ asm' = [asm EXCEPT !.bot = @ + 1, !.ks = {new}] /\ jmc' = [jmc EXCEPT !.bot = asm.bot + 1]
      /\ pieces' = pieces /\ areas' = areas /\ asm.bot + REDZONE + 1 <= asm.p
  BY DEF emit_loadk64
<1>3. /\ jmc'.bot = asm.bot + 1 /\ jmc'.top = jmc.top
      /\ asm'.bot = asm.bot + 1 /\ asm'.top = asm.top /\ asm'.p = asm.p /\ asm'.at = "emit"
  BY <1>1, <1>2 DEF MCodeType
<1>4. asm'.ks = {new}
  BY <1>1, <1>2 DEF MCodeType
<1>5. new.at = asm.bot /\ new.i = asm.top - asm.bot
  OBVIOUS
<1> HIDE DEF new
<1>6. jmc.bot = asm.bot /\ asm.p <= asm.top /\ asm.top <= jmc.top
  BY <1>1 DEF Room
<1>7. asm.bot + 1 <= asm.p /\ asm.bot + 1 <= jmc.top
  BY <1>1, <1>2, <1>6, PlaceTypes
<1>8. \A x \in pieces : x.area = Len(areas) => x.hi <= asm.bot \/ x.lo >= jmc.top
  BY <1>6 DEF Placed
<1>9. Placed'
  <2>1. \A x \in pieces : x.area = Len(areas) => x.hi <= asm.bot + 1 \/ x.lo >= jmc.top
    BY <1>1, <1>8, PlaceTypes
  <2> QED BY <1>2, <1>3, <1>7, <2>1 DEF Placed
<1>10. Room'
  <2>1. new.at + 1 <= asm.bot + 1 /\ asm.top - new.i = new.at
    BY <1>1, <1>5, PlaceTypes
  <2>2. \A x \in pieces : x.area = Len(areas) => x.hi <= new.at \/ x.lo >= new.at + 1
    BY <1>1, <1>5, <1>7, <1>8, PlaceTypes
  <2> QED BY <1>1, <1>2, <1>3, <1>4, <1>6, <1>7, <2>1, <2>2 DEF Room
<1> QED BY <1>9, <1>10

\* The code of the trace is at the top of what is free, its constant below it.
LEMMA CommitPlaces ==
  ASSUME ProtectInv, Placed, Room, lj_mcode_commit
  PROVE  Placed' /\ Room'
<1> DEFINE code == [kind |-> "code", area |-> Len(areas), lo |-> asm.p, hi |-> asm.top]
           k64(k) == [kind |-> "k64", area |-> Len(areas), lo |-> k.at, hi |-> k.at + 1]
<1>1. MCodeType /\ asm.at = "stop" /\ "stop" \in Busy /\ areas # <<>> /\ CacheTrue /\ OnlyFirstWritable
  BY ProtectedAreas DEF ProtectInv, lj_mcode_commit, Busy, HasArea
<1>2. /\ areas' = Cached(areas, "RX") /\ jmc' = [jmc EXCEPT !.top = asm.p, !.prot = "RX"]
      /\ pieces' = pieces \cup {code} \cup {k64(k) : k \in asm.ks} /\ asm' = Idle
  BY DEF lj_mcode_commit
<1>3. jmc'.top = asm.p /\ jmc'.bot = jmc.bot
  BY <1>1, <1>2 DEF MCodeType
<1>4. asm'.ks = {} /\ asm'.at \notin Busy
  BY <1>2 DEF Idle, Busy
<1>5. Len(areas') = Len(areas) /\ Len(areas) \in 1 .. Len(areas)
  <2>1. "RX" \in Prots /\ Len(areas) \in Nat /\ Len(areas) # 0
    BY <1>1, AreaTypes DEF Prots
  <2> QED BY <1>1, <1>2, <2>1, CachedAreas
<1>6. code.area = Len(areas) /\ code.lo = asm.p /\ code.hi = asm.top
  OBVIOUS
<1>7. \A k \in asm.ks : k64(k).area = Len(areas) /\ k64(k).lo = k.at /\ k64(k).hi = k.at + 1
  OBVIOUS
<1> HIDE DEF code, k64
<1>8. /\ jmc.bot = asm.bot /\ asm.bot <= asm.p /\ asm.p <= asm.top /\ asm.top <= jmc.top
      /\ \A k \in asm.ks : k.at + 1 <= jmc.bot
      /\ \A k, l \in asm.ks : k = l
  BY <1>1 DEF Room
<1>9. \A x \in pieces : x.area = Len(areas) => x.hi <= asm.p \/ x.lo >= asm.top
  BY <1>1, <1>8, PlaceTypes DEF Placed
<1>10. \A x \in pieces : x.area = Len(areas) => x.hi <= code.lo \/ code.hi <= x.lo
  BY <1>1, <1>6, <1>9, PlaceTypes
<1>11. ASSUME NEW k \in asm.ks
       PROVE  /\ k64(k).hi <= code.lo
              /\ \A x \in pieces : x.area = Len(areas) => x.hi <= k64(k).lo \/ k64(k).hi <= x.lo
  <2>1. k.at + 1 <= asm.p
    BY <1>1, <1>8, PlaceTypes
  <2>2. \A x \in pieces : x.area = Len(areas) => x.hi <= k.at \/ k.at + 1 <= x.lo
    BY <1>1, PlaceTypes DEF Room
  <2> QED BY <1>6, <1>7, <2>1, <2>2
<1>12. \A x \in pieces' : x \in pieces \/ x = code \/ \E k \in asm.ks : x = k64(k)
  BY <1>2
<1>13. \A x \in pieces' : x.area \in 1 .. Len(areas')
  BY <1>5, <1>6, <1>7, <1>12 DEF Placed
<1>14. ASSUME NEW x \in pieces', NEW y \in pieces', x # y, x.area = y.area
       PROVE  x.hi <= y.lo \/ y.hi <= x.lo
  <2>1. CASE x \in pieces /\ y \in pieces
    BY <1>14, <2>1 DEF Placed
  <2>2. CASE x \in pieces /\ y \notin pieces
    BY <1>6, <1>7, <1>10, <1>11, <1>12, <1>14, <2>2
  <2>3. CASE x \notin pieces /\ y \in pieces
    BY <1>6, <1>7, <1>10, <1>11, <1>12, <1>14, <2>3
  <2>4. CASE x \notin pieces /\ y \notin pieces
    BY <1>8, <1>11, <1>12, <1>14, <2>4
  <2> QED BY <2>1, <2>2, <2>3, <2>4
<1>15. ASSUME NEW x \in pieces', x.area = Len(areas')
       PROVE  x.hi <= jmc'.bot \/ x.lo >= jmc'.top
  <2>1. CASE x \in pieces
    <3>1. x.hi <= jmc.bot \/ x.lo >= asm.p
      BY <1>1, <1>5, <1>8, <1>15, <2>1, PlaceTypes DEF Placed
    <3> QED BY <1>3, <3>1
  <2>2. CASE x = code
    BY <1>1, <1>3, <1>6, <2>2, PlaceTypes
  <2>3. ASSUME NEW k \in asm.ks, x = k64(k)
        PROVE  x.hi <= jmc'.bot
    BY <1>3, <1>7, <1>8, <2>3
  <2> QED BY <1>12, <2>1, <2>2, <2>3
<1>16. jmc'.bot <= jmc'.top
  BY <1>3, <1>8
<1> QED BY <1>4, <1>13, <1>14, <1>15, <1>16 DEF Placed, Room

\* The inductive step: a constant that a fused load places is not committed,
\* and what follows holds without it only.
LEMMA PlaceStep ==
  ASSUME PlaceInv, [MCodeNext]_mcodeVars, "fusek64" \notin MCOps
  PROVE  PlaceInv'
<1> SUFFICES Placed' /\ Room'
  BY ProtectStep DEF PlaceInv
<1>1. /\ ProtectInv /\ Placed /\ Room /\ MCodeType /\ CacheTrue /\ (asm.at # "patch" => OnlyFirstWritable)
      /\ asm.at \in Busy \cup {"retry"} => areas # <<>>
  BY ProtectedAreas DEF PlaceInv, ProtectInv, HasArea
<1>2. /\ Idle.ks = {} /\ Idle.at = "idle" /\ "idle" \notin Busy /\ "retry" \notin Busy
      /\ "emit" \in Busy /\ "stop" \in Busy /\ "patch" \in Busy
  BY DEF Idle, Busy
<1>3. asm.at \notin Busy => asm.ks = {}
  BY <1>1 DEF Room
<1>4. CASE lj_mcode_reserve
  <2>1. /\ asm.at \notin Busy /\ pieces' = pieces
        /\ asm' = [Idle EXCEPT !.at = "emit", !.top = jmc'.top, !.p = jmc'.top, !.bot = jmc'.bot]
    BY <1>4 DEF lj_mcode_reserve, Busy
  <2>2. /\ asm'.at = "emit" /\ asm'.top = jmc'.top /\ asm'.p = jmc'.top /\ asm'.bot = jmc'.bot /\ asm'.ks = {}
    BY <2>1 DEF Idle
  <2>3. /\ areas # <<>> => Keeps /\ jmc' = [jmc EXCEPT !.prot = "RW"]
        /\ areas = <<>> => Len(areas') = 1 /\ jmc'.top = sizemcode /\ jmc'.bot = LinkSize
    BY <1>1, <1>4, ReserveEffect
  <2>4. Placed' /\ jmc'.bot <= jmc'.top
    <3>1. CASE areas = <<>>
      <4>1. sizemcode \in Nat /\ sizemcode >= 1 /\ Len(areas) = 0
        BY <1>1, <3>1, AreaTypes
      <4>2. \A x \in pieces : FALSE
        BY <1>1, <4>1 DEF Placed
      <4>3. jmc'.bot <= jmc'.top
        BY <2>3, <3>1, <4>1 DEF LinkSize
      <4> QED BY <2>1, <4>2, <4>3 DEF Placed
    <3>2. CASE areas # <<>>
      <4>1. Len(areas') = Len(areas) /\ jmc'.bot = jmc.bot /\ jmc'.top = jmc.top
        BY <1>1, <2>3, <3>2 DEF Keeps, SameSizes, MCodeType
      <4> QED BY <1>1, <2>1, <3>2, <4>1 DEF Placed
    <3> QED BY <3>1, <3>2
  <2>5. jmc'.top \in Int /\ jmc'.bot \in Int
    BY ProtectStep, <1>1, PlaceTypes DEF ProtectInv, MCodeType
  <2>6. Room'
    BY <2>2, <2>4, <2>5 DEF Room
  <2> QED BY <2>4, <2>6
<1>5. CASE ReserveFails
  BY <1>2, <1>3, <1>5, FreePlaces DEF ReserveFails, mcode_flush, lj_mcode_free
<1>6. CASE AsmFails
  <2>1. asm.at = "emit" /\ lj_mcode_abort /\ asm' = Idle /\ pieces' = pieces
    BY <1>6 DEF AsmFails
  <2>2. SameSizes(areas') /\ (areas' = <<>> <=> areas = <<>>) /\ jmc'.top = jmc.top /\ jmc'.bot = jmc.bot
    BY <1>1, <2>1, AbortEffect
  <2> QED BY <1>1, <1>2, <2>1, <2>2, RestKeepsPlaces DEF SameSizes
<1>7. ASSUME NEW g \in StubGroups, asm_exitstub_gen(g)
      PROVE  Placed' /\ Room'
  BY <1>1, <1>7, StubPlaces
<1>8. ASSUME NEW n \in 1 .. REDZONE, asm_ir(n)
      PROVE  Placed' /\ Room'
  <2>0. asm.at = "emit" /\ n \in Int /\ n >= 1
    BY <1>1, <1>8, PlaceTypes DEF asm_ir
  <2>1. CASE asm.p - n < asm.bot + REDZONE
    <3>1. lj_mcode_limiterr(Need + n) /\ Need + n \in Int
      BY <1>1, <1>8, <2>0, <2>1, PlaceTypes DEF asm_ir, Need
    <3> QED BY <1>1, <2>0, <3>1, LimitPlaces
  <2>2. CASE ~(asm.p - n < asm.bot + REDZONE)
    <3>1. asm' = [asm EXCEPT !.p = @ - n] /\ areas' = areas /\ jmc' = jmc /\ pieces' = pieces
      BY <1>8, <2>2 DEF asm_ir
    <3>2. /\ asm'.p = asm.p - n /\ asm'.top = asm.top /\ asm'.bot = asm.bot /\ asm'.ks = asm.ks /\ asm'.at = asm.at
      BY <1>1, <3>1 DEF MCodeType
    <3>3. asm.bot <= asm.p - n /\ asm.p - n <= asm.top
      BY <1>1, <1>2, <2>0, <2>2, PlaceTypes DEF Room
    <3> QED BY <1>1, <3>1, <3>2, <3>3 DEF Placed, Room
  <2> QED BY <2>1, <2>2
<1>9. ASSUME NEW fuse \in (IF "fusek64" \in MCOps THEN BOOLEAN ELSE {FALSE}), emit_loadk64(fuse)
      PROVE  Placed' /\ Room'
  <2>1. fuse = FALSE
    BY <1>9
  <2> QED BY <1>1, <1>9, <2>1, LoadPlaces
<1>10. ASSUME NEW pad \in 0 .. 1, asm_again(pad)
       PROVE  Placed' /\ Room'
  <2>1. /\ asm.at = "emit" /\ asm.p < asm.top /\ areas' = areas /\ pieces' = pieces /\ jmc' = jmc
        /\ asm' = [asm EXCEPT !.top = @ - pad, !.p = asm.top - pad, !.ks = {}]
    BY <1>10 DEF asm_again
  <2>2. /\ asm'.p = asm.top - pad /\ asm'.top = asm.top - pad /\ asm'.bot = asm.bot /\ asm'.ks = {}
        /\ asm'.at = asm.at
    BY <1>1, <2>1 DEF MCodeType
  <2>3. asm.bot <= asm.top - pad /\ asm.top - pad <= asm.top - pad /\ asm.top - pad <= jmc.top
    BY <1>1, <1>2, <2>1, PlaceTypes DEF Room
  <2> QED BY <1>1, <2>1, <2>2, <2>3 DEF Placed, Room
<1>11. ASSUME NEW drop \in 0 .. 1, NEW parent \in 0 .. Len(areas), lj_asm_trace(drop, parent)
       PROVE  Placed' /\ Room'
  <2>1. /\ asm.at = "emit" /\ asm.p < asm.top - drop /\ areas' = areas /\ pieces' = pieces /\ jmc' = jmc
        /\ asm' = [asm EXCEPT !.at = "stop", !.top = @ - drop, !.patch = parent]
    BY <1>11 DEF lj_asm_trace
  <2>2. /\ asm'.p = asm.p /\ asm'.top = asm.top - drop /\ asm'.bot = asm.bot /\ asm'.ks = asm.ks
        /\ asm'.at = "stop"
    BY <1>1, <2>1 DEF MCodeType
  <2>3. asm.p <= asm.top - drop /\ asm.top - drop <= jmc.top
    BY <1>1, <1>2, <2>1, PlaceTypes DEF Room
  <2> QED BY <1>1, <1>2, <2>1, <2>2, <2>3 DEF Placed, Room
<1>12. ASSUME asm.at \in {"stop", "patch"}, asm'.at \in {"stop", "patch"}, pieces' = pieces,
              Keeps, areas' # <<>>, jmc'.top = jmc.top, jmc'.bot = jmc.bot,
              asm'.p = asm.p, asm'.top = asm.top, asm'.bot = asm.bot, asm'.ks = asm.ks
       PROVE  Placed' /\ Room'
  BY <1>1, <1>2, <1>12 DEF Placed, Room, Keeps, SameSizes
<1>13. ASSUME NEW prot, mcode_protect(prot)
       PROVE  jmc'.top = jmc.top /\ jmc'.bot = jmc.bot
  BY <1>1, <1>13 DEF mcode_protect, MCodeType
<1>14. CASE lj_mcode_patch
  <2>1. asm.at = "stop" /\ asm' = [asm EXCEPT !.at = "patch"] /\ pieces' = pieces
    BY <1>14 DEF lj_mcode_patch
  <2>2. /\ asm'.p = asm.p /\ asm'.top = asm.top /\ asm'.bot = asm.bot /\ asm'.ks = asm.ks /\ asm'.at = "patch"
    BY <1>1, <2>1 DEF MCodeType
  <2>3. jmc'.top = jmc.top /\ jmc'.bot = jmc.bot
    BY <1>13, <1>14 DEF lj_mcode_patch
  <2>4. Keeps /\ areas' # <<>>
    BY <1>1, <1>2, <1>14, <2>1, PatchEffect
  <2> QED BY <1>12, <2>1, <2>2, <2>3, <2>4
<1>15. CASE lj_mcode_patch_finish
  <2>1. asm.at = "patch" /\ asm' = [asm EXCEPT !.at = "stop", !.patch = 0] /\ pieces' = pieces
    BY <1>15 DEF lj_mcode_patch_finish
  <2>2. /\ asm'.p = asm.p /\ asm'.top = asm.top /\ asm'.bot = asm.bot /\ asm'.ks = asm.ks /\ asm'.at = "stop"
    BY <1>1, <2>1 DEF MCodeType
  <2>3. jmc'.top = jmc.top /\ jmc'.bot = jmc.bot
    BY <1>13, <1>15 DEF lj_mcode_patch_finish
  <2>4. Keeps /\ areas' # <<>>
    BY <1>1, <1>2, <1>15, <2>1, PatchEffect
  <2> QED BY <1>12, <2>1, <2>2, <2>3, <2>4
<1>16. CASE lj_mcode_commit
  BY <1>1, <1>16, CommitPlaces
<1>17. CASE lj_trace_flush_mcode
  <2>1. pieces' = {} /\ areas' = <<>> /\ asm' = asm /\ asm.at = "idle"
    BY <1>17 DEF lj_trace_flush_mcode, mcode_flush, lj_mcode_free
  <2> QED BY <1>2, <1>3, <2>1, FreePlaces
<1>18. ASSUME NEW sz \in MCSizes, jit_opt_start(sz)
       PROVE  Placed' /\ Room'
  BY <1>1, <1>18 DEF jit_opt_start, Placed, Room
<1>19. CASE UNCHANGED mcodeVars
  BY <1>1, <1>19 DEF mcodeVars, Placed, Room
<1> QED BY <1>4, <1>5, <1>6, <1>7, <1>8, <1>9, <1>10, <1>11, <1>14, <1>15, <1>16, <1>17, <1>18, <1>19
     DEF PlaceInv, MCodeNext

\* No later step writes over code, exit stubs or constants that are in use, and
\* instructions of any pass find their constant, unless a fused load placed it.
THEOREM CodeInPlaceCorrect == "fusek64" \notin MCOps => (MCodeSpec => []CodeInPlace)
<1> SUFFICES ASSUME "fusek64" \notin MCOps
             PROVE  MCodeSpec => []CodeInPlace
  OBVIOUS
<1>1. MCodeInit => PlaceInv
  <2> SUFFICES ASSUME MCodeInit
               PROVE  Placed /\ Room
    BY ProtectInit DEF PlaceInv
  <2> QED BY DEF MCodeInit, Idle, Busy, Placed, Room
<1>2. PlaceInv /\ [MCodeNext]_mcodeVars => PlaceInv'
  BY PlaceStep
<1>3. PlaceInv => CodeInPlace
  <2> SUFFICES ASSUME PlaceInv
               PROVE  CodeInPlace
    OBVIOUS
  <2>1. MCodeType /\ Placed /\ Room
    BY DEF PlaceInv, ProtectInv
  <2>2. ASSUME NEW k \in asm.ks
        PROVE  k.at + 1 <= asm.p
    BY <2>1, PlaceTypes DEF Room
  <2> QED BY <2>1, <2>2 DEF Room, Placed, CodeInPlace, NothingOverwritten, ConstantInPlace, Busy
<1> QED BY <1>1, <1>2, <1>3, PTL DEF MCodeSpec
=============================================================================
