------------------------------- MODULE Stack -------------------------------
(***************************************************************************)
(* The stack of one coroutine: growth, overflow and the extra room that    *)
(* the error handler gets (lj_state.c), unwinding to a protected call      *)
(* (lj_err.c), and the shrinking by the collector (lj_gc.c).  Slots are    *)
(* counted; what they hold is left out.                                    *)
(***************************************************************************)
EXTENDS Integers, Sequences

CONSTANTS
  LUA_MINSTACK, LJ_STACK_MAX, LJ_STACK_EXTRA,
  FrameSizes,      \* slots that a called function may need
  CatchTop,        \* protected calls are made below this height
  MaxMarks         \* bound on nested protected calls and error handlers

LJ_STACK_START == 2 * LUA_MINSTACK
LJ_STACK_MAXEX == LJ_STACK_MAX + 1 + LJ_STACK_EXTRA

\* Two of the extra slots take the message and the handler in lj_err_run(), the
\* third is the one above top that every push may write.
ASSUME StackAssumption ==
  /\ LUA_MINSTACK \in Nat \ {0} /\ LJ_STACK_EXTRA \in Nat /\ LJ_STACK_EXTRA >= 3
  /\ FrameSizes \subseteq Nat \ {0}
  /\ LJ_STACK_MAX \in Nat /\ LJ_STACK_START < LJ_STACK_MAX
  /\ CatchTop \in Nat /\ MaxMarks \in Nat

\* lj_state_relimitstack() leaves the large stack in place for a protected call
\* in the last two slots below the limit.
ASSUME CatchAssumption == CatchTop < LJ_STACK_MAX

VARIABLES
  stacksize,       \* L->stacksize
  used,            \* L->top - L->stack
  marks,           \* protected calls and running error handlers, innermost last:
                   \* [kind, top, handler], handler tells whether a call has one
  status,          \* L->status: "OK" or "ERRERR"
  caught           \* what the last error that was caught said, or "none"

stackVars == <<stacksize, used, marks, status, caught>>

Max2(a, b) == IF a > b THEN a ELSE b
Limit == stacksize - LJ_STACK_EXTRA - 1       \* L->maxstack - L->stack
Last(s) == s[Len(s)]
PCalls == {i \in DOMAIN marks : marks[i].kind = "pcall"}
Inner == CHOOSE i \in PCalls : \A j \in PCalls : j <= i

StackInit ==
  /\ stacksize = LJ_STACK_START + LJ_STACK_EXTRA
  /\ used = 1 /\ marks = <<[kind |-> "pcall", top |-> 1, handler |-> FALSE]>>
  /\ status = "OK" /\ caught = "none"

Resized(n) == n + 1 + LJ_STACK_EXTRA

\* Mutant: the stack is not limited again.
lj_err_throw_large(size, err) ==
  LET top == marks[Inner].top
  IN /\ used' = top
     /\ stacksize' = size
     /\ marks' = SubSeq(marks, 1, IF Inner = 1 THEN 1 ELSE Inner - 1)
     /\ status' = "OK" /\ caught' = err

\* lj_err_throw() unwinds to the innermost protected call, puts the message in the
\* place of the function that was called, and relimits the stack.
lj_err_throw(size, err) ==
  LET top == marks[Inner].top
  IN /\ used' = top
     /\ stacksize' = IF size > LJ_STACK_MAXEX /\ top < LJ_STACK_MAX - 1
                     THEN Resized(LJ_STACK_MAX) ELSE size
     /\ marks' = SubSeq(marks, 1, IF Inner = 1 THEN 1 ELSE Inner - 1)
     /\ status' = "OK" /\ caught' = err

\* lj_err_run() calls the error handler with the message first, except for an
\* error in the handler itself.
lj_err_run(size, err) ==
  IF ~marks[Inner].handler THEN lj_err_throw(size, err)
  ELSE IF status = "ERRERR" THEN lj_err_throw(size, "errerr")
  ELSE /\ status' = "ERRERR" /\ stacksize' = size /\ caught' = "none"
       /\ used' = used + 2
       /\ marks' = Append(marks, [kind |-> "handler", top |-> used + 2, handler |-> FALSE])

\* Mutant: no extra room for the handler.
Grown_tight(need) ==
  LET n == stacksize + need
  IN Resized(IF n > LJ_STACK_MAX THEN LJ_STACK_MAX + 1
             ELSE IF n >= 2 * stacksize THEN n
             ELSE IF 2 * stacksize >= LJ_STACK_MAX THEN LJ_STACK_MAX ELSE 2 * stacksize)

\* The size that lj_state_growstack() asks for.
Grown(need) ==
  LET n == stacksize + need
  IN Resized(IF n > LJ_STACK_MAX THEN n + 2 * LUA_MINSTACK
             ELSE IF n >= 2 * stacksize THEN n
             ELSE IF 2 * stacksize >= LJ_STACK_MAX THEN LJ_STACK_MAX ELSE 2 * stacksize)

lj_state_growstack(need) ==
  IF stacksize > LJ_STACK_MAXEX THEN lj_err_throw(stacksize, "errerr")
  ELSE IF Grown(need) > LJ_STACK_MAXEX THEN lj_err_run(Grown(need), "overflow")
  ELSE stacksize' = Grown(need) /\ UNCHANGED <<used, marks, status, caught>>

\* A function header checks for its frame; the call goes on when there is room.
CallFunction(need) ==
  IF used + need > Limit THEN lj_state_growstack(need)
  ELSE used' = used + need /\ caught' = "none" /\ UNCHANGED <<stacksize, marks, status>>

\* Functions return, down to the innermost of the marks.
ReturnTo(top) ==
  /\ top \in Last(marks).top .. used - 1
  /\ used' = top /\ caught' = "none"
  /\ UNCHANGED <<stacksize, marks, status>>

\* The function to be called is on the stack, in room that was checked.
ProtectedCall(handler) ==
  /\ Len(marks) < MaxMarks /\ used <= Limit /\ used < CatchTop
  /\ marks' = Append(marks, [kind |-> "pcall", top |-> used, handler |-> handler])
  /\ caught' = "none"
  /\ UNCHANGED <<stacksize, used, status>>

EndProtectedCall ==
  /\ Len(marks) > 1 /\ Last(marks).kind = "pcall"
  /\ used' = Last(marks).top /\ marks' = SubSeq(marks, 1, Len(marks) - 1) /\ caught' = "none"
  /\ UNCHANGED <<stacksize, status>>

\* An error in a function, whose header has checked the stack.
RunError ==
  /\ Len(marks) < MaxMarks
  /\ Last(marks).kind = "handler" => used > Last(marks).top
  /\ lj_err_run(stacksize, "error")

\* The handler returns its message.
HandlerReturns ==
  /\ Last(marks).kind = "handler"
  /\ lj_err_throw(stacksize, "message")

\* Mutant: a stack in use is shrunk.
lj_state_shrinkstack_eager ==
  /\ stacksize <= LJ_STACK_MAXEX
  /\ 2 * (LJ_STACK_START + LJ_STACK_EXTRA) < stacksize
  /\ stacksize' = Resized(stacksize \div 2)
  /\ UNCHANGED <<used, marks, status, caught>>

\* The collector traverses the coroutine.
lj_state_shrinkstack ==
  /\ stacksize <= LJ_STACK_MAXEX
  /\ 4 * used < stacksize /\ 2 * (LJ_STACK_START + LJ_STACK_EXTRA) < stacksize
  /\ stacksize' = Resized(stacksize \div 2)
  /\ UNCHANGED <<used, marks, status, caught>>

StackNext ==
  \/ \E need \in FrameSizes : CallFunction(need)
  \/ \E top \in 1 .. used : ReturnTo(top)
  \/ \E handler \in BOOLEAN : ProtectedCall(handler)
  \/ EndProtectedCall \/ RunError \/ HandlerReturns \/ lj_state_shrinkstack

StackSpec == StackInit /\ [][StackNext]_stackVars

-----------------------------------------------------------------------------
(* Properties. *)

\* Nobody uses slots that do not exist: the frames of functions end below
\* maxstack, and what is pushed without a check above them fits into the extra
\* slots, also after the stack was shrunk or limited again.
SlotsExist == used <= Limit + 2 /\ used + 2 <= stacksize

\* Explanation of LJ_STACK_MAXEX: "Overflow while handling overflow" is told
\* from a first overflow by the size.  Once the overflow is caught and the stack
\* is below the limit again, the next overflow is a first one.
LimitRestored ==
  stacksize > LJ_STACK_MAXEX => used >= LJ_STACK_MAX - 1 \/ \E i \in DOMAIN marks : marks[i].kind = "handler"

\* The handler of an overflow can call a function that needs the guaranteed
\* minimum without failing at once.
HandlerHasRoom ==
  Last(marks).kind = "handler" /\ used = Last(marks).top /\ stacksize > LJ_STACK_MAXEX
    => used + LUA_MINSTACK <= Limit

\* Growing, overflowing, unwinding and shrinking in any order: no slot is missing,
\* the reserve is there for a handler and is given back after it.
StackLimits == SlotsExist /\ LimitRestored /\ HandlerHasRoom
=============================================================================
