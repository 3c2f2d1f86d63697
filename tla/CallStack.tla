------------------------------ MODULE CallStack -------------------------------
(***************************************************************************)
(* The calls a goroutine has under way: the frame of the innermost call    *)
(* first, and the answer of the call that returned last. A frame names its *)
(* procedure and where it stands in it, and holds the call's locals.       *)
(***************************************************************************)
EXTENDS Sequences

VARIABLES
    stack,    \* per process, its frames
    answer,   \* per process, what its last call returned
    crashed   \* a goroutine panicked: the program is gone

callVars == <<stack, answer, crashed>>

Frame(p) == Head(stack[p])

At(p, proc, label) ==
    /\ ~crashed
    /\ stack[p] # <<>>
    /\ Frame(p).proc = proc
    /\ Frame(p).at = label

Idle(p) == stack[p] = <<>>

(* Nothing has returned yet, or what did was taken. *)
NoAnswer == [ok |-> FALSE]

(* The call goes on with other frames on top, the answer is taken. *)
Frames(p, frames) ==
    /\ stack' = [stack EXCEPT ![p] = frames \o Tail(@)]
    /\ answer' = [answer EXCEPT ![p] = NoAnswer]
    /\ UNCHANGED crashed

(* It goes on at another place, with other locals. *)
Goto(p, frame) == Frames(p, <<frame>>)

(* It resumes in `frame` once the callee, given by its frames, returned. *)
Call(p, frame, callee) == Frames(p, callee \o <<frame>>)

(* The answer of the outermost call is the caller's, and not kept. *)
Return(p, value) ==
    /\ stack' = [stack EXCEPT ![p] = Tail(@)]
    /\ answer' = [answer EXCEPT ![p] = IF Len(stack[p]) = 1 THEN NoAnswer ELSE value]
    /\ UNCHANGED crashed

Panic(p) == crashed' = TRUE /\ UNCHANGED <<stack, answer>>
===============================================================================
