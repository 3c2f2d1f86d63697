----------------------------- MODULE Runner_proofs -----------------------------
(***************************************************************************)
(* What holds of the runner of an index for any number of callers, links   *)
(* and sessions, every definition, and however calls, changes of the links *)
(* and expiries interleave.                                                *)
(***************************************************************************)
EXTENDS Runner, TLAPS

(* The sessions that need no login any more, those that are logged in, and *)
(* those the site knows. None of them is left again.                       *)
Ready == {s \in Sessions : sessionState[s] # "LoginRequired"}

LoggedIn == {s \in Sessions : sessionState[s] = "LoggedIn"}

Known == {s \in Sessions : accepts /\ s \in siteUsers}

(* A page that a session's browser got shows the user only if the site     *)
(* knows the session.                                                      *)
PageOf(page, b, known) == b \in Sessions /\ page.user # 0 => b \in known

-------------------------------------------------------------------------------
(* The frames of a stack. *)

WebProc == {"fetch", "post", "open"}

ErrorType == {"login", "bad-target", "cant-fetch-content"}

(* A frame has the locals of its procedure.                                *)
SearchOK(f, ready) ==
    /\ f = [proc |-> f.proc, at |-> f.at, session |-> f.session, page |-> f.page,
            found |-> f.found, links |-> f.links, type |-> f.type, err |-> f.err, id |-> f.id]
    /\ f.type \in ErrorType
    /\ f.at \in {"fetch", "extract", "link"} => f.session \in ready

AcquireOK(f) ==
    f = [proc |-> f.proc, at |-> f.at, session |-> f.session] /\ f.session \in Sessions

LoginOK(f, known) ==
    /\ f = [proc |-> f.proc, at |-> f.at, session |-> f.session, url |-> f.url, page |-> f.page]
    /\ f.session \in Sessions /\ PageOf(f.page, f.session, known)

WebOK(f) ==
    /\ f = [proc |-> f.proc, at |-> f.at, browser |-> f.browser, req |-> f.req, hops |-> f.hops]
    /\ f.req = [method |-> f.req.method, url |-> f.req.url, jar |-> f.req.jar]
    /\ f.browser \in Browsers /\ (f.browser \in Sessions => f.req.jar = Main)

FrameOK(f, ready, known) ==
    \/ f.proc = "search" /\ SearchOK(f, ready)
    \/ f.proc \in {"health", "ratio"} /\ f = [proc |-> f.proc, at |-> f.at]
    \/ f.proc = "acquire" /\ AcquireOK(f)
    \/ f.proc = "login" /\ LoginOK(f, known)
    \/ f.proc = "resolve" /\ f = [proc |-> f.proc, at |-> f.at, next |-> f.next, path |-> f.path]
    \/ f.proc \in WebProc /\ WebOK(f)

(* Whom a call waits for. *)
Waits(caller, callee) ==
    /\ callee.proc = "search" <=> caller.proc = "health"
    /\ callee.proc # "health"
    /\ caller.proc = "search" =>
          /\ caller.at \in {"request", "fetch", "extract", "link"}
          /\ caller.at = "request" => callee.proc = "acquire"
    /\ caller.proc = "acquire" => callee.proc = "login" /\ callee.session = caller.session
    /\ caller.proc = "login" =>
          callee.proc = "resolve" \/ (callee.proc \in WebProc /\ callee.browser = caller.session)
    /\ caller.proc \in WebProc => callee.proc \in WebProc /\ callee.browser = caller.browser

IsStack(s) == \E S : s \in Seq(S)

StackOK(s, ready, known) ==
    /\ IsStack(s)
    /\ \A i \in 1 .. Len(s) : FrameOK(s[i], ready, known)
    /\ \A i \in 1 .. Len(s) - 1 : Waits(s[i + 1], s[i])

(* What an answer tells the call that waited for it.                       *)
Told(f, a, ready, loggedIn, known) ==
    a.ok => /\ f.proc = "search" /\ f.at = "request" => a.items \in ready
            /\ f.proc = "acquire" => f.session \in loggedIn
            /\ f.proc = "login" => PageOf(a.page, f.session, known)
            /\ f.proc \in WebProc => PageOf(a.page, f.browser, known)

(* What a call answers.                                                    *)
Gives(f, a, ready, loggedIn, known) ==
    a.ok => /\ f.proc = "acquire" => a.items \in ready
            /\ f.proc = "login" => f.session \in loggedIn
            /\ f.proc = "resolve" => a.page.user = 0
            /\ f.proc \in WebProc => PageOf(a.page, f.browser, known)

(* The call is the same, somewhere else.                                   *)
SameCall(g, f) ==
    /\ g.proc = f.proc
    /\ f.proc = "login" => g.session = f.session
    /\ f.proc \in WebProc => g.browser = f.browser

(* A search is about to store its error.                                   *)
Recording(f) == f.proc = "search" /\ f.at = "record"

Recorder(s) == s # <<>> /\ Recording(s[1])

(* A sequence over some set, with one frame for its first.                 *)
LEMMA Resumed ==
    ASSUME NEW s, IsStack(s), s # <<>>, NEW g
    PROVE  /\ IsStack(<<g>> \o Tail(s)) /\ Len(<<g>> \o Tail(s)) = Len(s)
           /\ (<<g>> \o Tail(s))[1] = g
           /\ \A i \in 2 .. Len(s) : (<<g>> \o Tail(s))[i] = s[i]
           /\ Len(s) \in Nat /\ Len(s) > 0
  <1>1. PICK S : s \in Seq(S)
    BY DEF IsStack
  <1> DEFINE T == S \cup {g}
  <1>2. s \in Seq(T)
    <2>1. Len(s) \in Nat /\ s \in [1 .. Len(s) -> S]
      BY <1>1
    <2>2. s \in [1 .. Len(s) -> T]
      BY <2>1
    <2> QED
      BY <2>1, <2>2
  <1>3. g \in T
    OBVIOUS
  <1> HIDE DEF T
  <1>4. Tail(s) \in Seq(T) /\ Len(Tail(s)) = Len(s) - 1 /\ Len(s) \in Nat /\ Len(s) > 0
        /\ \A i \in 1 .. Len(s) - 1 : Tail(s)[i] = s[i + 1]
    BY <1>2
  <1>5. PICK t : t = Tail(s)
    OBVIOUS
  <1>6. <<g>> \o t \in Seq(T) /\ Len(<<g>> \o t) = Len(t) + 1 /\ (<<g>> \o t)[1] = g
        /\ \A i \in 1 .. Len(t) : (<<g>> \o t)[i + 1] = t[i]
    BY ONLY <1>3, <1>4, <1>5
  <1>7. \A i \in 2 .. Len(s) : (<<g>> \o t)[i] = s[i]
    <2> SUFFICES ASSUME NEW i \in 2 .. Len(s) PROVE (<<g>> \o t)[i] = s[i]
      OBVIOUS
    <2>1. PICK j \in 1 .. Len(s) - 1 : i = j + 1
      BY <1>4
    <2> QED
      BY <1>4, <1>5, <1>6, <2>1
  <1> QED
    BY <1>4, <1>5, <1>6, <1>7 DEF IsStack

(* A frame on top of a sequence.                                           *)
LEMMA Pushed ==
    ASSUME NEW s, IsStack(s), NEW c
    PROVE  /\ IsStack(<<c>> \o s) /\ Len(<<c>> \o s) = Len(s) + 1 /\ (<<c>> \o s)[1] = c
           /\ \A i \in 1 .. Len(s) : (<<c>> \o s)[i + 1] = s[i]
           /\ Len(s) \in Nat
  <1>1. PICK S : s \in Seq(S)
    BY DEF IsStack
  <1> DEFINE T == S \cup {c}
  <1>2. s \in Seq(T)
    <2>1. Len(s) \in Nat /\ s \in [1 .. Len(s) -> S]
      BY <1>1
    <2>2. s \in [1 .. Len(s) -> T]
      BY <2>1
    <2> QED
      BY <2>1, <2>2
  <1>3. c \in T
    OBVIOUS
  <1> HIDE DEF T
  <1>4. <<c>> \o s \in Seq(T) /\ Len(<<c>> \o s) = Len(s) + 1 /\ (<<c>> \o s)[1] = c
        /\ \A i \in 1 .. Len(s) : (<<c>> \o s)[i + 1] = s[i]
    BY ONLY <1>2, <1>3
  <1> QED
    BY <1>2, <1>4 DEF IsStack

(* What is ready or known stays so for every frame.                        *)
LEMMA FrameStays ==
    ASSUME NEW R, NEW K, NEW R2, NEW K2, R \subseteq R2, K \subseteq K2,
           NEW f, FrameOK(f, R, K)
    PROVE  FrameOK(f, R2, K2)
  BY DEF FrameOK, SearchOK, LoginOK, PageOf

(* What is ready or known stays so for every stack.                        *)
LEMMA StackStays ==
    ASSUME NEW R, NEW K, NEW R2, NEW K2, R \subseteq R2, K \subseteq K2,
           NEW s, StackOK(s, R, K)
    PROVE  StackOK(s, R2, K2)
  BY FrameStays DEF StackOK

(* A call goes on somewhere else.                                          *)
LEMMA GoesOn ==
    ASSUME NEW R, NEW K, NEW s, StackOK(s, R, K), s # <<>>,
           NEW g, FrameOK(g, R, K), SameCall(g, s[1])
    PROVE  StackOK(<<g>> \o Tail(s), R, K)
  <1> DEFINE t == <<g>> \o Tail(s)
  <1>1. /\ IsStack(t) /\ Len(t) = Len(s) /\ t[1] = g /\ Len(s) \in Nat /\ Len(s) > 0
        /\ \A i \in 2 .. Len(s) : t[i] = s[i]
    BY Resumed DEF StackOK
  <1> HIDE DEF t
  <1>2. \A i \in 1 .. Len(t) : FrameOK(t[i], R, K)
    BY <1>1 DEF StackOK
  <1>3. ASSUME NEW i \in 1 .. Len(t) - 1 PROVE Waits(t[i + 1], t[i])
    <2>1. Waits(s[i + 1], s[i]) /\ t[i + 1] = s[i + 1]
      BY <1>1, <1>3 DEF StackOK
    <2>2. CASE i = 1
      BY <1>1, <2>1, <2>2 DEF Waits, SameCall
    <2>3. CASE i # 1
      BY <1>1, <1>3, <2>1, <2>3
    <2> QED
      BY <2>2, <2>3
  <1> QED
    BY <1>1, <1>2, <1>3 DEF StackOK, t

(* A call makes another one.                                               *)
LEMMA CallsOne ==
    ASSUME NEW R, NEW K, NEW s, StackOK(s, R, K), s # <<>>,
           NEW c, FrameOK(c, R, K), Waits(s[1], c)
    PROVE  StackOK(<<c>> \o s, R, K) /\ <<c>> \o s # <<>> /\ (<<c>> \o s)[1] = c
  <1> DEFINE t == <<c>> \o s
  <1>1. /\ IsStack(t) /\ Len(t) = Len(s) + 1 /\ t[1] = c /\ Len(s) \in Nat
        /\ \A i \in 1 .. Len(s) : t[i + 1] = s[i]
    BY Pushed DEF StackOK
  <1> HIDE DEF t
  <1>2. ASSUME NEW i \in 1 .. Len(t) PROVE FrameOK(t[i], R, K)
    <2>1. CASE i = 1
      BY <1>1, <2>1
    <2>2. CASE i # 1
      <3>1. PICK j \in 1 .. Len(s) : i = j + 1
        BY <1>1, <1>2, <2>2
      <3> QED
        BY <1>1, <3>1 DEF StackOK
    <2> QED
      BY <2>1, <2>2
  <1>3. ASSUME NEW i \in 1 .. Len(t) - 1 PROVE Waits(t[i + 1], t[i])
    <2>1. t[i + 1] = s[i]
      BY <1>1, <1>3
    <2>2. CASE i = 1
      BY <1>1, <2>1, <2>2
    <2>3. CASE i # 1
      <3>1. PICK j \in 1 .. Len(s) - 1 : i = j + 1
        BY <1>1, <1>3, <2>3
      <3>2. Waits(s[j + 1], s[j]) /\ t[j + 1] = s[j]
        BY <1>1, <3>1 DEF StackOK
      <3> QED
        BY <2>1, <3>1, <3>2
    <2> QED
      BY <2>2, <2>3
  <1> QED
    BY <1>1, <1>2, <1>3 DEF StackOK, t

(* A call returns, to one that is told what it answers.                    *)
LEMMA GoesBack ==
    ASSUME NEW R, NEW L, NEW K, NEW s, StackOK(s, R, K), s # <<>>,
           NEW a, Gives(s[1], a, R, L, K)
    PROVE  /\ StackOK(Tail(s), R, K)
           /\ Tail(s) # <<>> => Told(Tail(s)[1], a, R, L, K)
           /\ ~Recorder(Tail(s))
  <1>1. PICK S : s \in Seq(S)
    BY DEF StackOK, IsStack
  <1>2. PICK t : t = Tail(s)
    OBVIOUS
  <1>3. /\ t \in Seq(S) /\ Len(t) = Len(s) - 1 /\ Len(s) \in Nat /\ Len(s) > 0
        /\ \A i \in 1 .. Len(s) - 1 : t[i] = s[i + 1]
    BY <1>1, <1>2
  <1>4. \A i \in 1 .. Len(t) : FrameOK(t[i], R, K)
    BY <1>3 DEF StackOK
  <1>5. ASSUME NEW i \in 1 .. Len(t) - 1 PROVE Waits(t[i + 1], t[i])
    <2>1. t[i] = s[i + 1] /\ t[i + 1] = s[i + 1 + 1] /\ i + 1 \in 1 .. Len(s) - 1
      BY <1>3, <1>5
    <2> QED
      BY <2>1 DEF StackOK
  <1>6. ASSUME t # <<>> PROVE Told(t[1], a, R, L, K) /\ ~Recording(t[1])
    <2>1. Len(t) > 0
      BY <1>3, <1>6
    <2>2. t[1] = s[2] /\ Waits(s[2], s[1]) /\ FrameOK(s[1], R, K)
      BY <1>3, <2>1 DEF StackOK
    <2> QED
      BY <2>2 DEF Waits, Gives, Told, PageOf, WebProc, Recording
  <1> QED
    BY <1>2, <1>3, <1>4, <1>5, <1>6 DEF StackOK, IsStack, Recorder

-------------------------------------------------------------------------------
(* The calls of every caller, and what they know of the sessions.          *)

CallOK(s, a, ready, loggedIn, known) ==
    /\ StackOK(s, ready, known)
    /\ s # <<>> => Told(s[1], a, ready, loggedIn, known)

CallsInv ==
    /\ stack = [p \in Callers |-> stack[p]] /\ answer = [p \in Callers |-> answer[p]]
    /\ \A p \in Callers : CallOK(stack[p], answer[p], Ready, LoggedIn, Known)

(* No session needs a login again, or is forgotten.                        *)
Grows == Ready \subseteq Ready' /\ LoggedIn \subseteq LoggedIn' /\ Known \subseteq Known'

(* Nobody else gets to where it stores an error.                           *)
Calm == \A p \in Callers : stack'[p] = stack[p] \/ ~Recorder(stack'[p])

(* What a caller knows of the sessions stays so.                           *)
LEMMA CallStays ==
    ASSUME NEW R, NEW L, NEW K, NEW R2, NEW L2, NEW K2,
           R \subseteq R2, L \subseteq L2, K \subseteq K2,
           NEW s, NEW a, CallOK(s, a, R, L, K)
    PROVE  CallOK(s, a, R2, L2, K2)
  BY StackStays DEF CallOK, Told, PageOf

(* Where a call stands, and what it was told.                              *)
LEMMA TopOK ==
    ASSUME CallsInv, NEW p \in Callers, stack[p] # <<>>
    PROVE  /\ Frame(p) = stack[p][1]
           /\ FrameOK(Frame(p), Ready, Known)
           /\ Told(Frame(p), answer[p], Ready, LoggedIn, Known)
  <1>1. StackOK(stack[p], Ready, Known) /\ Told(stack[p][1], answer[p], Ready, LoggedIn, Known)
    BY DEF CallsInv, CallOK
  <1>2. PICK S : stack[p] \in Seq(S)
    BY <1>1 DEF StackOK, IsStack
  <1>3. 1 \in 1 .. Len(stack[p]) /\ Head(stack[p]) = stack[p][1]
    BY <1>2
  <1> QED
    BY <1>1, <1>3 DEF StackOK, Frame

(* One caller's calls change.                                              *)
LEMMA Changed ==
    ASSUME CallsInv, Grows, NEW p \in Callers, NEW s, NEW a,
           stack' = [stack EXCEPT ![p] = s], answer' = [answer EXCEPT ![p] = a],
           CallOK(s, a, Ready', LoggedIn', Known')
    PROVE  CallsInv' /\ (~Recorder(s) => Calm)
  <1>1. /\ stack' = [q \in Callers |-> stack'[q]] /\ answer' = [q \in Callers |-> answer'[q]]
        /\ stack'[p] = s /\ answer'[p] = a
        /\ \A q \in Callers : q # p => stack'[q] = stack[q] /\ answer'[q] = answer[q]
    BY DEF CallsInv
  <1>2. ASSUME NEW q \in Callers
        PROVE  CallOK(stack'[q], answer'[q], Ready', LoggedIn', Known')
    <2>1. CASE q = p
      BY <1>1, <2>1
    <2>2. CASE q # p
      <3>1. CallOK(stack[q], answer[q], Ready, LoggedIn, Known)
        BY DEF CallsInv
      <3>2. CallOK(stack[q], answer[q], Ready', LoggedIn', Known')
        BY <3>1, CallStays DEF Grows
      <3> QED
        BY <1>1, <2>2, <3>2
    <2> QED
      BY <2>1, <2>2
  <1> QED
    BY <1>1, <1>2 DEF CallsInv, Calm

(* A step that moves no call.                                              *)
LEMMA NoCallMoves ==
    ASSUME CallsInv, Grows, UNCHANGED <<stack, answer>>
    PROVE  CallsInv' /\ Calm
  <1>1. ASSUME NEW q \in Callers PROVE CallOK(stack[q], answer[q], Ready', LoggedIn', Known')
    <2>1. CallOK(stack[q], answer[q], Ready, LoggedIn, Known)
      BY DEF CallsInv
    <2> QED
      BY <2>1, CallStays DEF Grows
  <1> QED
    BY <1>1 DEF CallsInv, Calm

(* What is told nothing is told what it needs.                             *)
LEMMA NothingTold == ASSUME NEW f, NEW R, NEW L, NEW K PROVE Told(f, NoAnswer, R, L, K)
  BY DEF Told, NoAnswer

(* The calls of a caller after a step of the sessions.                     *)
LEMMA StackOf ==
    ASSUME CallsInv, Grows, NEW p \in Callers
    PROVE  StackOK(stack[p], Ready', Known')
  <1>1. StackOK(stack[p], Ready, Known)
    BY DEF CallsInv, CallOK
  <1> QED
    BY <1>1, StackStays DEF Grows

(* The actions of a call, one by one.                                      *)
LEMMA Moves ==
    ASSUME CallsInv, Grows, NEW p \in Callers, stack[p] # <<>>, NEW g, Goto(p, g),
           SameCall(g, Frame(p)), FrameOK(g, Ready', Known')
    PROVE  CallsInv' /\ (Frame(p).proc # "search" \/ ~Recording(g) => Calm)
  <1>1. StackOK(stack[p], Ready', Known') /\ Frame(p) = stack[p][1]
    BY StackOf, TopOK
  <1>2. StackOK(<<g>> \o Tail(stack[p]), Ready', Known')
    BY <1>1, GoesOn
  <1>3. (<<g>> \o Tail(stack[p]))[1] = g
    BY <1>1, Resumed DEF StackOK
  <1>4. /\ stack' = [stack EXCEPT ![p] = <<g>> \o Tail(stack[p])]
        /\ answer' = [answer EXCEPT ![p] = NoAnswer]
    BY DEF Goto, Frames
  <1>5. CallOK(<<g>> \o Tail(stack[p]), NoAnswer, Ready', LoggedIn', Known')
    BY <1>2, <1>3, NothingTold DEF CallOK
  <1>6. CallsInv' /\ (~Recorder(<<g>> \o Tail(stack[p])) => Calm)
    BY <1>4, <1>5, Changed
  <1> QED
    BY <1>3, <1>6 DEF Recorder, Recording, SameCall

(* A call answers the one below it.                                        *)
LEMMA Returns ==
    ASSUME CallsInv, Grows, NEW p \in Callers, stack[p] # <<>>, NEW v, Return(p, v),
           Gives(Frame(p), v, Ready', LoggedIn', Known')
    PROVE  CallsInv' /\ Calm /\ ~Recorder(stack'[p])
  <1>1. StackOK(stack[p], Ready', Known') /\ Frame(p) = stack[p][1]
    BY StackOf, TopOK
  <1>2. /\ StackOK(Tail(stack[p]), Ready', Known')
        /\ Tail(stack[p]) # <<>> => Told(Tail(stack[p])[1], v, Ready', LoggedIn', Known')
        /\ ~Recorder(Tail(stack[p]))
    BY <1>1, GoesBack
  <1> DEFINE a == IF Len(stack[p]) = 1 THEN NoAnswer ELSE v
  <1>3. /\ stack' = [stack EXCEPT ![p] = Tail(stack[p])]
        /\ answer' = [answer EXCEPT ![p] = a]
    BY DEF Return
  <1>4. CallOK(Tail(stack[p]), a, Ready', LoggedIn', Known')
    BY <1>2, NothingTold DEF CallOK
  <1>5. stack'[p] = Tail(stack[p])
    BY <1>3 DEF CallsInv
  <1> QED
    BY <1>2, <1>3, <1>4, <1>5, Changed

(* Two frames on top, one after the other.                                 *)
LEMMA OneByOne ==
    ASSUME NEW s, IsStack(s), NEW c, NEW g
    PROVE  (<<c>> \o <<g>>) \o s = <<c>> \o (<<g>> \o s)
  <1>1. PICK S : s \in Seq(S)
    BY DEF IsStack
  <1> DEFINE T == S \cup {c, g}
  <1>2. s \in Seq(T)
    <2>1. Len(s) \in Nat /\ s \in [1 .. Len(s) -> S]
      BY <1>1
    <2>2. s \in [1 .. Len(s) -> T]
      BY <2>1
    <2> QED
      BY <2>1, <2>2
  <1>3. c \in T /\ g \in T
    OBVIOUS
  <1> HIDE DEF T
  <1> QED
    BY ONLY <1>2, <1>3

(* Three frames on top of a sequence, one at a time.                       *)
LEMMA Three ==
    ASSUME NEW s, IsStack(s), NEW d, NEW c, NEW g
    PROVE  ((<<d>> \o <<c>>) \o <<g>>) \o s = <<d>> \o (<<c>> \o (<<g>> \o s))
  <1>1. PICK S : s \in Seq(S)
    BY DEF IsStack
  <1> DEFINE T == S \cup {c, d, g}
  <1>2. s \in Seq(T)
    <2>1. Len(s) \in Nat /\ s \in [1 .. Len(s) -> S]
      BY <1>1
    <2>2. s \in [1 .. Len(s) -> T]
      BY <2>1
    <2> QED
      BY <2>1, <2>2
  <1>3. c \in T /\ d \in T /\ g \in T
    OBVIOUS
  <1> HIDE DEF T
  <1>4. PICK t : t = <<g>> \o s
    OBVIOUS
  <1>5. PICK u : u = <<c>> \o t
    OBVIOUS
  <1>6. t \in Seq(T) /\ u \in Seq(T)
    BY <1>2, <1>3, <1>4, <1>5
  <1>7. PICK e : e = <<d>> \o <<c>>
    OBVIOUS
  <1>8. e \in Seq(T) /\ Len(e) = 2 /\ e[1] = d /\ e[2] = c
    BY <1>3, <1>7
  <1>9. (e \o <<g>>) \o s = e \o t
    BY ONLY <1>2, <1>3, <1>4, <1>8
  <1>10. e \o t = <<d>> \o u
    BY ONLY <1>3, <1>5, <1>6, <1>7
  <1> QED
    BY <1>4, <1>5, <1>7, <1>9, <1>10

(* A call waits for one procedure.                                         *)
LEMMA CallsInner ==
    ASSUME CallsInv, Grows, NEW p \in Callers, stack[p] # <<>>, NEW g, NEW callee, NEW c,
           Call(p, g, callee), callee = <<c>>, SameCall(g, Frame(p)),
           FrameOK(g, Ready', Known'), FrameOK(c, Ready', Known'), Waits(g, c), g.proc # "health"
    PROVE  CallsInv' /\ Calm
  <1> DEFINE below == <<g>> \o Tail(stack[p])
             above == <<c>> \o below
  <1>1. StackOK(stack[p], Ready', Known') /\ Frame(p) = stack[p][1]
    BY StackOf, TopOK
  <1>2. StackOK(below, Ready', Known') /\ below # <<>> /\ below[1] = g
    <2>1. StackOK(below, Ready', Known')
      BY <1>1, GoesOn
    <2>2. below[1] = g /\ Len(below) > 0
      BY <1>1, Resumed DEF StackOK
    <2>3. PICK S : below \in Seq(S)
      BY <2>1 DEF StackOK, IsStack
    <2> HIDE DEF below
    <2> QED
      BY <2>1, <2>2, <2>3
  <1>3. (<<c>> \o <<g>>) \o Tail(stack[p]) = above
    <2>1. PICK S : stack[p] \in Seq(S)
      BY <1>1 DEF StackOK, IsStack
    <2>2. IsStack(Tail(stack[p]))
      BY <2>1 DEF IsStack
    <2> QED
      BY <2>2, OneByOne
  <1>4. stack' = [stack EXCEPT ![p] = above] /\ answer' = [answer EXCEPT ![p] = NoAnswer]
    BY <1>3 DEF Call, Frames
  <1> HIDE DEF below
  <1>5. StackOK(above, Ready', Known') /\ above[1] = c
    BY <1>2, CallsOne
  <1>6. CallOK(above, NoAnswer, Ready', LoggedIn', Known')
    BY <1>5, NothingTold DEF CallOK
  <1>7. ~Recorder(above)
    BY <1>5 DEF Recorder, Recording, Waits
  <1> HIDE DEF above
  <1> QED
    BY <1>4, <1>6, <1>7, Changed

(* Two frames on top of a stack, the second waiting for the first.         *)
LEMMA CallsBoth ==
    ASSUME NEW R, NEW K, NEW s, StackOK(s, R, K), s # <<>>, NEW c, NEW d,
           FrameOK(c, R, K), FrameOK(d, R, K), Waits(s[1], c), Waits(c, d)
    PROVE  StackOK(<<d>> \o (<<c>> \o s), R, K) /\ (<<d>> \o (<<c>> \o s))[1] = d
  <1> DEFINE t == <<c>> \o s
  <1>1. StackOK(t, R, K) /\ t # <<>> /\ t[1] = c
    BY CallsOne
  <1> HIDE DEF t
  <1>2. Waits(t[1], d)
    BY <1>1
  <1>3. StackOK(<<d>> \o t, R, K) /\ (<<d>> \o t)[1] = d
    BY <1>1, <1>2, CallsOne
  <1> QED
    BY <1>3 DEF t

(* A call waits for a procedure that first makes a call of its own.        *)
LEMMA CallsTwo ==
    ASSUME CallsInv, Grows, NEW p \in Callers, stack[p] # <<>>,
           NEW g, NEW callee, NEW c, NEW d,
           Call(p, g, callee), callee = <<d>> \o <<c>>, SameCall(g, Frame(p)),
           FrameOK(g, Ready', Known'), FrameOK(c, Ready', Known'), FrameOK(d, Ready', Known'),
           Waits(g, c), Waits(c, d)
    PROVE  CallsInv' /\ Calm
  <1> DEFINE below == <<g>> \o Tail(stack[p])
             above == <<d>> \o (<<c>> \o below)
  <1>1. StackOK(stack[p], Ready', Known') /\ Frame(p) = stack[p][1]
    BY StackOf, TopOK
  <1>2. StackOK(below, Ready', Known') /\ below # <<>> /\ below[1] = g
    <2>1. StackOK(below, Ready', Known')
      BY <1>1, GoesOn
    <2>2. below[1] = g /\ Len(below) > 0
      BY <1>1, Resumed DEF StackOK
    <2>3. PICK S : below \in Seq(S)
      BY <2>1 DEF StackOK, IsStack
    <2> HIDE DEF below
    <2> QED
      BY <2>1, <2>2, <2>3
  <1>3. callee \o <<g>> \o Tail(stack[p]) = above
    <2>1. PICK S : stack[p] \in Seq(S)
      BY <1>1 DEF StackOK, IsStack
    <2>2. IsStack(Tail(stack[p]))
      BY <2>1 DEF IsStack
    <2> QED
      BY <2>2, Three
  <1>4. stack' = [stack EXCEPT ![p] = above] /\ answer' = [answer EXCEPT ![p] = NoAnswer]
    BY <1>3 DEF Call, Frames
  <1> HIDE DEF below
  <1>5. Waits(below[1], c)
    BY <1>2
  <1>6. StackOK(above, Ready', Known') /\ above[1] = d
    <2>1. FrameOK(c, Ready', Known') /\ FrameOK(d, Ready', Known') /\ Waits(c, d)
      OBVIOUS
    <2>2. PICK R, K : R = Ready' /\ K = Known'
      OBVIOUS
    <2>3. StackOK(below, R, K) /\ below # <<>> /\ FrameOK(c, R, K) /\ FrameOK(d, R, K)
      BY <1>2, <2>1, <2>2
    <2>4. StackOK(<<d>> \o (<<c>> \o below), R, K) /\ (<<d>> \o (<<c>> \o below))[1] = d
      BY ONLY <1>5, <2>1, <2>3, CallsBoth
    <2> QED
      BY <2>2, <2>4
  <1>7. CallOK(above, NoAnswer, Ready', LoggedIn', Known')
    BY <1>6, NothingTold DEF CallOK
  <1>8. ~Recorder(above)
    BY <1>6 DEF Recorder, Recording, Waits
  <1> HIDE DEF above
  <1> QED
    BY <1>4, <1>7, <1>8, Changed

-------------------------------------------------------------------------------
(* What the site and the browsers know, and the sessions.                  *)

SiteInv ==
    /\ browser = [b \in Browsers |-> [jar |-> browser[b].jar, page |-> browser[b].page]]
    /\ \A s \in Sessions : browser[s].jar = s /\ PageOf(browser[s].page, s, Known)
    /\ siteUsers # {} => accepts

SessionInv ==
    /\ sessionState \in [Sessions -> {"NoLoginRequired", "LoginRequired", "LoggedIn"}]
    /\ muxIndex \in 0 .. SessionCount - 1
    /\ def.login.test.selector => LoggedIn \subseteq Known

RunnerInv == CallsInv /\ SiteInv /\ SessionInv

(* The runner's own browser is no session's.                               *)
LEMMA BrowserNumbers ==
    /\ Main \in Browsers /\ Main \notin Sessions /\ Sessions \subseteq Browsers
    /\ 1 \in Sessions
  BY SessionAssumption DEF Main, Browsers, Sessions

(* A page that is nobody's can be anybody's.                               *)
LEMMA NobodysPage ==
    ASSUME NEW page, page.user = 0, NEW b, NEW K
    PROVE  PageOf(page, b, K)
  BY DEF PageOf

(* Frames that go on.                                                      *)
LEMMA WebAt ==
    ASSUME NEW R, NEW K, NEW f, f.proc \in WebProc, FrameOK(f, R, K), NEW l,
           NEW g, g = [f EXCEPT !.at = l]
    PROVE  FrameOK(g, R, K) /\ SameCall(g, f) /\ g.proc = f.proc /\ g.browser = f.browser
  <1>1. WebOK(f)
    BY DEF FrameOK, WebProc
  <1>2. g = [proc |-> f.proc, at |-> l, browser |-> f.browser, req |-> f.req, hops |-> f.hops]
    BY <1>1 DEF WebOK
  <1>3. WebOK(g)
    BY <1>1, <1>2 DEF WebOK
  <1> QED
    BY <1>2, <1>3 DEF FrameOK, SameCall, WebProc

(* The next request of a client has the cookies of the last.               *)
Follows(f, l, next) == [f EXCEPT !.at = l, !.req = next]

(* A client goes on to its next request with the same cookies.             *)
LEMMA WebNext ==
    ASSUME NEW R, NEW K, NEW f, f.proc \in WebProc, FrameOK(f, R, K), NEW l, NEW next,
           next = [method |-> next.method, url |-> next.url, jar |-> f.req.jar]
    PROVE  /\ FrameOK(Follows(f, l, next), R, K) /\ SameCall(Follows(f, l, next), f)
           /\ Follows(f, l, next).proc = f.proc /\ Follows(f, l, next).browser = f.browser
  <1>1. WebOK(f)
    BY DEF FrameOK, WebProc
  <1>2. PICK e : e = [f EXCEPT !.at = l]
    OBVIOUS
  <1>3. PICK g : g = [e EXCEPT !.req = next]
    OBVIOUS
  <1>4. [f EXCEPT !.at = l, !.req = next] = g
    BY ONLY <1>2, <1>3
  <1>5. e = [proc |-> f.proc, at |-> l, browser |-> f.browser, req |-> f.req, hops |-> f.hops]
    BY <1>1, <1>2 DEF WebOK
  <1>6. g = [proc |-> f.proc, at |-> l, browser |-> f.browser, req |-> next, hops |-> f.hops]
    BY ONLY <1>3, <1>5
  <1>7. WebOK(g)
    BY <1>1, <1>6 DEF WebOK
  <1>8. FrameOK(g, R, K) /\ SameCall(g, f) /\ g.proc = f.proc /\ g.browser = f.browser
    BY <1>6, <1>7 DEF FrameOK, SameCall, WebProc
  <1> QED
    BY <1>4, <1>8 DEF Follows

(* A client counts its redirects.                                          *)
LEMMA WebHops ==
    ASSUME NEW R, NEW K, NEW f, f.proc \in WebProc, FrameOK(f, R, K), NEW n,
           NEW g, g = [f EXCEPT !.hops = n]
    PROVE  FrameOK(g, R, K) /\ SameCall(g, f) /\ g.proc = f.proc /\ g.browser = f.browser
  <1>1. WebOK(f)
    BY DEF FrameOK, WebProc
  <1>2. g = [proc |-> f.proc, at |-> f.at, browser |-> f.browser, req |-> f.req, hops |-> n]
    BY <1>1 DEF WebOK
  <1>3. WebOK(g)
    BY <1>1, <1>2 DEF WebOK
  <1> QED
    BY <1>2, <1>3 DEF FrameOK, SameCall, WebProc

(* A new frame of the client.                                              *)
LEMMA WebFrames ==
    ASSUME NEW R, NEW K, NEW b \in Browsers, NEW req,
           req = [method |-> req.method, url |-> req.url, jar |-> req.jar],
           b \in Sessions => req.jar = Main, NEW proc \in WebProc, NEW l,
           NEW c, c = WebFrame(proc, l, b, req)
    PROVE  FrameOK(c, R, K) /\ c.proc = proc /\ c.browser = b
  <1>1. c = [proc |-> proc, at |-> l, browser |-> b, req |-> req, hops |-> 0]
    BY DEF WebFrame
  <1>2. WebOK(c)
    BY <1>1 DEF WebOK
  <1> QED
    BY <1>1, <1>2 DEF FrameOK

-------------------------------------------------------------------------------
(* Nothing of the site and the sessions changes.                           *)
LEMMA SiteStays ==
    ASSUME SiteInv, SessionInv, UNCHANGED <<browser, accepts, siteUsers, def, sessionVars>>
    PROVE  Grows /\ SiteInv' /\ SessionInv'
  BY DEF SiteInv, SessionInv, sessionVars, Grows, Ready, LoggedIn, Known

(* The site has come to know more users, the sessions are as they were.    *)
LEMMA UsersGrow ==
    ASSUME SiteInv, SessionInv, UNCHANGED <<accepts, def, sessionVars>>,
           siteUsers \subseteq siteUsers', accepts \/ siteUsers' = siteUsers
    PROVE  Grows /\ SessionInv' /\ (siteUsers' # {} => accepts')
  BY DEF SiteInv, SessionInv, sessionVars, Grows, Ready, LoggedIn, Known

(* One browser is used, for what its session may see.                      *)
LEMMA BrowserUsed ==
    ASSUME SiteInv, SessionInv, UNCHANGED <<accepts, def, sessionVars>>,
           siteUsers \subseteq siteUsers', accepts \/ siteUsers' = siteUsers,
           NEW b \in Browsers, NEW jar, NEW page,
           browser' = [browser EXCEPT ![b] = [jar |-> jar, page |-> page]],
           b \in Sessions => jar = b /\ PageOf(page, b, Known')
    PROVE  Grows /\ SiteInv' /\ SessionInv'
  <1>1. Grows /\ SessionInv' /\ (siteUsers' # {} => accepts')
    BY UsersGrow
  <1>2. browser'[b] = [jar |-> jar, page |-> page] /\ \A c \in Browsers \ {b} : browser'[c] = browser[c]
    BY DEF SiteInv
  <1>3. ASSUME NEW c \in Browsers
        PROVE  browser'[c] = [jar |-> browser'[c].jar, page |-> browser'[c].page]
    <2>1. CASE c = b
      BY <1>2, <2>1
    <2>2. CASE c # b
      <3>1. browser[c] = [jar |-> browser[c].jar, page |-> browser[c].page]
        BY DEF SiteInv
      <3> QED
        BY <1>2, <2>2, <3>1
    <2> QED
      BY <2>1, <2>2
  <1>4. browser' = [c \in Browsers |-> [jar |-> browser'[c].jar, page |-> browser'[c].page]]
    <2>1. browser' = [c \in Browsers |-> browser'[c]]
      BY DEF SiteInv
    <2> QED
      BY <1>3, <2>1
  <1>5. ASSUME NEW s \in Sessions
        PROVE  browser'[s].jar = s /\ PageOf(browser'[s].page, s, Known')
    <2>1. CASE s = b
      BY <1>2, <2>1
    <2>2. CASE s # b
      <3>1. browser'[s] = browser[s]
        BY <1>2, <2>2, BrowserNumbers
      <3>2. browser[s].jar = s /\ PageOf(browser[s].page, s, Known) /\ Known \subseteq Known'
        BY <1>1 DEF SiteInv, Grows
      <3> QED
        BY <3>1, <3>2 DEF PageOf
    <2> QED
      BY <2>1, <2>2
  <1> QED
    BY <1>1, <1>4, <1>5 DEF SiteInv

(* A browser keeps a page: if a session's, one the site showed it.         *)
LEMMA PageStored ==
    ASSUME SiteInv, SessionInv, UNCHANGED <<accepts, def, sessionVars>>,
           siteUsers \subseteq siteUsers', accepts \/ siteUsers' = siteUsers,
           NEW b \in Browsers, NEW page, b \in Sessions => PageOf(page, b, Known'),
           browser' = [browser EXCEPT ![b].page = page]
    PROVE  Grows /\ SiteInv' /\ SessionInv'
  <1>1. browser[b] = [jar |-> browser[b].jar, page |-> browser[b].page]
    BY DEF SiteInv
  <1>2. [browser[b] EXCEPT !.page = page] = [jar |-> browser[b].jar, page |-> page]
    BY <1>1
  <1>3. browser' = [browser EXCEPT ![b] = [browser[b] EXCEPT !.page = page]]
    OBVIOUS
  <1>4. browser' = [browser EXCEPT ![b] = [jar |-> browser[b].jar, page |-> page]]
    BY <1>2, <1>3
  <1>5. b \in Sessions => browser[b].jar = b
    BY DEF SiteInv
  <1> QED
    BY <1>4, <1>5, BrowserUsed

(* A browser keeps cookies: if a session's, its own.                       *)
LEMMA JarStored ==
    ASSUME SiteInv, SessionInv, UNCHANGED <<accepts, def, sessionVars>>,
           siteUsers \subseteq siteUsers', accepts \/ siteUsers' = siteUsers,
           NEW b \in Browsers, NEW jar, b \in Sessions => jar = b,
           browser' = [browser EXCEPT ![b].jar = jar]
    PROVE  Grows /\ SiteInv' /\ SessionInv'
  <1>1. browser[b] = [jar |-> browser[b].jar, page |-> browser[b].page]
    BY DEF SiteInv
  <1>2. [browser[b] EXCEPT !.jar = jar] = [jar |-> jar, page |-> browser[b].page]
    BY <1>1
  <1>3. browser' = [browser EXCEPT ![b] = [browser[b] EXCEPT !.jar = jar]]
    OBVIOUS
  <1>4. browser' = [browser EXCEPT ![b] = [jar |-> jar, page |-> browser[b].page]]
    BY <1>2, <1>3
  <1>5. Grows
    BY UsersGrow
  <1>6. b \in Sessions => PageOf(browser[b].page, b, Known')
    BY <1>5 DEF SiteInv, Grows, PageOf
  <1> QED
    BY <1>4, <1>6, BrowserUsed

(* A session sees its user only where the site knows it.                   *)
LEMMA SeesOwn ==
    ASSUME SiteInv, NEW b \in Browsers, NEW url, NEW hops,
           NEW page \in PagesAt(url, browser[b].jar, hops)
    PROVE  b \in Sessions => PageOf(page, b, Known)
  <1>1. page.user = IF browser[b].jar \in siteUsers THEN browser[b].jar ELSE 0
    BY DEF PagesAt
  <1> QED
    BY <1>1 DEF SiteInv, PageOf, Known

(* The login page shows its user once the site knows it.                   *)
LEMMA Submitted ==
    ASSUME SiteInv, SessionInv, UNCHANGED <<accepts, def, sessionVars>>,
           NEW b \in Browsers, NEW url, Submit(b, url)
    PROVE  Grows /\ SiteInv' /\ SessionInv'
  <1> DEFINE page == LoginAnswer(url, browser[b].jar)
  <1>1. browser' = [browser EXCEPT ![b].page = page]
    BY DEF Submit
  <1>2. siteUsers \subseteq siteUsers' /\ (accepts \/ siteUsers' = siteUsers)
    BY DEF Submit
  <1>3. page.user = IF accepts THEN browser[b].jar ELSE 0
    BY DEF LoginAnswer
  <1>4. b \in Sessions => PageOf(page, b, Known')
    BY <1>3 DEF SiteInv, PageOf, Known, Submit
  <1> HIDE DEF page
  <1> QED
    BY <1>1, <1>2, <1>4, PageStored

-------------------------------------------------------------------------------
(* A caller that is somewhere has a call under way there.                  *)
LEMMA TopAt ==
    ASSUME CallsInv, NEW p \in Callers, NEW proc, NEW label, At(p, proc, label)
    PROVE  /\ stack[p] # <<>> /\ Frame(p) = stack[p][1] /\ Frame(p).proc = proc
           /\ Frame(p).at = label
           /\ FrameOK(Frame(p), Ready, Known)
           /\ Told(Frame(p), answer[p], Ready, LoggedIn, Known)
  BY TopOK DEF At

(* What most steps do: the invariant stays, and nobody else gets to where  *)
(* it stores an error.                                                     *)
CallsKept == CallsInv' /\ Calm

Kept == RunnerInv' /\ Calm

(* The web client's steps.                                                 *)
LEMMA WebKeepsInv ==
    ASSUME RunnerInv, NEW p \in Callers, WebStep(p), UNCHANGED <<def, sessionVars>>
    PROVE  Kept
  <1> DEFINE f == Frame(p)
  <1> USE DEF RunnerInv, Kept, CallsKept
  <1>0. ASSUME NEW proc \in WebProc, NEW l, At(p, proc, l)
        PROVE  /\ stack[p] # <<>> /\ f.proc = proc /\ f.proc \in WebProc
               /\ FrameOK(f, Ready, Known) /\ WebOK(f) /\ f.browser \in Browsers
               /\ Told(f, answer[p], Ready, LoggedIn, Known)
    <2>1. /\ stack[p] # <<>> /\ f.proc = proc /\ FrameOK(f, Ready, Known)
          /\ Told(f, answer[p], Ready, LoggedIn, Known)
      BY <1>0, TopAt
    <2>2. WebOK(f)
      BY <2>1 DEF FrameOK, WebProc
    <2> QED
      BY <2>1, <2>2 DEF WebOK
  <1> HIDE DEF f
  <1>1. CASE UnknownMethod(p)
    <2>1. stack[p] # <<>> /\ Return(p, Failed)
      BY <1>0, <1>1 DEF UnknownMethod, WebProc
    <2>2. Grows /\ SiteInv' /\ SessionInv'
      BY <1>1, SiteStays DEF UnknownMethod, webVars
    <2>3. Gives(Frame(p), Failed, Ready', LoggedIn', Known')
      BY DEF Gives, Failed
    <2> QED
      BY <2>1, <2>2, <2>3, Returns
  <1>2. CASE FetchPosted(p)
    <2>1. /\ stack[p] # <<>> /\ Return(p, answer[p]) /\ f.proc = "fetch"
          /\ Told(f, answer[p], Ready, LoggedIn, Known)
      BY <1>0, <1>2 DEF FetchPosted, WebProc
    <2>2. Grows /\ SiteInv' /\ SessionInv'
      BY <1>2, SiteStays DEF FetchPosted, webVars
    <2>3. Gives(Frame(p), answer[p], Ready', LoggedIn', Known')
      BY <2>1, <2>2 DEF Gives, Told, Grows, PageOf, WebProc, f
    <2> QED
      BY <2>1, <2>2, <2>3, Returns
  <1>3. CASE Apply(p)
    <2> DEFINE g == [f EXCEPT !.at = "load"]
    <2>1. /\ stack[p] # <<>> /\ f.proc \in WebProc /\ Goto(p, g) /\ applyOptions(f.browser, f.req)
          /\ FrameOK(f, Ready, Known) /\ WebOK(f) /\ f.browser \in Browsers
      BY <1>0, <1>3 DEF Apply, WebProc, f
    <2>2. UNCHANGED <<accepts, siteUsers, def, sessionVars>>
      BY <1>3 DEF Apply
    <2>3. Grows /\ SiteInv' /\ SessionInv'
      <3>1. CASE f.req.jar = Main
        <4>1. browser' = browser
          BY <2>1, <3>1 DEF applyOptions
        <4> QED
          BY <2>2, <4>1, SiteStays
      <3>2. CASE f.req.jar # Main
        <4>1. browser' = [browser EXCEPT ![f.browser].jar = f.req.jar] /\ f.browser \notin Sessions
          BY <2>1, <3>2 DEF applyOptions, WebOK
        <4> QED
          BY <2>1, <2>2, <4>1, JarStored
      <3> QED
        BY <3>1, <3>2
    <2>4. FrameOK(g, Ready, Known) /\ SameCall(g, f)
      BY <2>1, WebAt
    <2> HIDE DEF g
    <2>5. FrameOK(g, Ready', Known')
      BY <2>3, <2>4, FrameStays DEF Grows
    <2> QED
      BY <2>1, <2>3, <2>4, <2>5, Moves DEF f, WebProc
  <1>4. CASE Load(p)
    <2> DEFINE l == IF f.proc = "fetch" THEN "refresh" ELSE "read"
               g == [f EXCEPT !.at = l]
    <2>1. /\ stack[p] # <<>> /\ f.proc \in WebProc
          /\ FrameOK(f, Ready, Known) /\ WebOK(f) /\ f.browser \in Browsers
          /\ UNCHANGED <<accepts, siteUsers, def, sessionVars>>
      BY <1>0, <1>4 DEF Load, WebProc, f
    <2>2. CASE site[f.req.url.link] = "down"
      <3>1. Return(p, Failed) /\ UNCHANGED browser
        BY <1>4, <2>2 DEF Load, f
      <3>2. Grows /\ SiteInv' /\ SessionInv'
        BY <2>1, <3>1, SiteStays
      <3>3. Gives(Frame(p), Failed, Ready', LoggedIn', Known')
        BY DEF Gives, Failed
      <3> QED
        BY <2>1, <3>1, <3>2, <3>3, Returns
    <2>3. CASE site[f.req.url.link] # "down"
      <3>1. PICK page \in PagesAt(f.req.url, browser[f.browser].jar, f.hops) :
                browser' = [browser EXCEPT ![f.browser].page = page]
        BY <1>4, <2>3 DEF Load, f
      <3>2. Goto(p, g)
        BY <1>4, <2>3 DEF Load, f
      <3>3. f.browser \in Sessions => PageOf(page, f.browser, Known')
        BY <2>1, SeesOwn DEF Known
      <3>4. Grows /\ SiteInv' /\ SessionInv'
        BY <2>1, <3>1, <3>3, PageStored
      <3>5. FrameOK(g, Ready, Known) /\ SameCall(g, f)
        BY <2>1, WebAt
      <3> HIDE DEF g
      <3>6. FrameOK(g, Ready', Known')
        BY <3>4, <3>5, FrameStays DEF Grows
      <3> QED
        BY <2>1, <3>2, <3>4, <3>5, <3>6, Moves DEF f, WebProc
    <2> QED
      BY <2>2, <2>3
  <1>5. CASE PostForm(p)
    <2> DEFINE g == [f EXCEPT !.at = "refresh"]
    <2>1. /\ stack[p] # <<>> /\ f.proc \in WebProc
          /\ FrameOK(f, Ready, Known) /\ WebOK(f) /\ f.browser \in Browsers
          /\ UNCHANGED <<accepts, def, sessionVars>>
      BY <1>0, <1>5 DEF PostForm, WebProc, f
    <2>2. CASE site[f.req.url.link] = "down"
      <3>1. Return(p, Failed) /\ UNCHANGED <<browser, siteUsers>>
        BY <1>5, <2>2 DEF PostForm, f
      <3>2. Grows /\ SiteInv' /\ SessionInv'
        BY <2>1, <3>1, SiteStays
      <3>3. Gives(Frame(p), Failed, Ready', LoggedIn', Known')
        BY DEF Gives, Failed
      <3> QED
        BY <2>1, <3>1, <3>2, <3>3, Returns
    <2>3. CASE site[f.req.url.link] # "down"
      <3>1. Goto(p, g)
        BY <1>5, <2>3 DEF PostForm, f
      <3>2. Grows /\ SiteInv' /\ SessionInv'
        <4>1. CASE f.req.url.path = "login"
          <5>1. Submit(f.browser, f.req.url)
            BY <1>5, <2>3, <4>1 DEF PostForm, f
          <5> QED
            BY <2>1, <5>1, Submitted
        <4>2. CASE f.req.url.path # "login"
          <5>1. PICK page \in PagesAt(f.req.url, browser[f.browser].jar, f.hops) :
                    browser' = [browser EXCEPT ![f.browser].page = page]
            BY <1>5, <2>3, <4>2 DEF PostForm, f
          <5>2. UNCHANGED siteUsers
            BY <1>5, <2>3, <4>2 DEF PostForm, f
          <5>3. f.browser \in Sessions => PageOf(page, f.browser, Known')
            BY <2>1, <5>2, SeesOwn DEF Known
          <5> QED
            BY <2>1, <5>1, <5>2, <5>3, PageStored
        <4> QED
          BY <4>1, <4>2
      <3>3. FrameOK(g, Ready, Known) /\ SameCall(g, f)
        BY <2>1, WebAt
      <3> HIDE DEF g
      <3>4. FrameOK(g, Ready', Known')
        BY <3>2, <3>3, FrameStays DEF Grows
      <3> QED
        BY <2>1, <3>1, <3>2, <3>3, <3>4, Moves DEF f, WebProc
    <2> QED
      BY <2>2, <2>3
  <1>6. CASE MetaRefresh(p)
    <2> DEFINE here == browser[f.browser].page
    <2>6. PICK u : u = Url(here.url.link, here.refresh)
      OBVIOUS
    <2>7. PICK next : next = [f.req EXCEPT !.url = u]
      OBVIOUS
    <2>1. /\ stack[p] # <<>> /\ f.proc \in WebProc
          /\ FrameOK(f, Ready, Known) /\ WebOK(f) /\ f.browser \in Browsers
      BY <1>0, <1>6 DEF MetaRefresh, WebProc, f
    <2>2. Grows /\ SiteInv' /\ SessionInv'
      BY <1>6, SiteStays DEF MetaRefresh, webVars
    <2>8. next = [method |-> next.method, url |-> next.url, jar |-> f.req.jar]
      <3>1. next = [method |-> f.req.method, url |-> u, jar |-> f.req.jar]
        BY <2>1, <2>7 DEF WebOK
      <3> QED
        BY <3>1
    <2>3. CASE here.refresh = "none"
      <3> DEFINE g == [f EXCEPT !.at = "read"]
      <3>1. Goto(p, g)
        BY <1>6, <2>3 DEF MetaRefresh, f
      <3>2. FrameOK(g, Ready, Known) /\ SameCall(g, f)
        BY <2>1, WebAt
      <3> HIDE DEF g
      <3>3. FrameOK(g, Ready', Known')
        BY <2>2, <3>2, FrameStays DEF Grows
      <3> QED
        BY <2>1, <2>2, <3>1, <3>2, <3>3, Moves DEF f, WebProc
    <2>4. CASE here.refresh # "none" /\ f.proc = "fetch"
      <3> DEFINE e == Follows(f, "apply", next)
                 g == [e EXCEPT !.hops = f.hops + 1]
      <3>1. Goto(p, g)
        <4>1. [f EXCEPT !.at = "apply", !.req = next, !.hops = @ + 1] = g
          BY Zenon DEF Follows
        <4> QED
          BY <1>6, <2>4, <2>6, <2>7, <4>1 DEF MetaRefresh, f
      <3>2. FrameOK(g, Ready, Known) /\ SameCall(g, f)
        <4>1. FrameOK(e, Ready, Known) /\ SameCall(e, f) /\ e.proc = f.proc
          <5>1. f.proc \in WebProc /\ FrameOK(f, Ready, Known)
            BY <2>1
          <5> QED
            BY ONLY <2>8, <5>1, WebNext
        <4> HIDE DEF e
        <4>2. FrameOK(g, Ready, Known) /\ SameCall(g, e)
          BY <2>1, <4>1, WebHops
        <4> QED
          BY <4>1, <4>2 DEF SameCall
      <3> HIDE DEF g
      <3>3. FrameOK(g, Ready', Known')
        BY <2>2, <3>2, FrameStays DEF Grows
      <3> QED
        BY <2>1, <2>2, <3>1, <3>2, <3>3, Moves DEF f, WebProc
    <2>5. CASE here.refresh # "none" /\ f.proc # "fetch"
      <3> DEFINE g == Follows(f, "refreshed", next)
                 e == WebFrame("fetch", "apply", f.browser, next)
                 c == [e EXCEPT !.hops = f.hops + 1]
      <3>1. Call(p, g, GetCall(f.browser, next, f.hops + 1))
        BY <1>6, <2>5, <2>6, <2>7 DEF MetaRefresh, Follows, f
      <3>2. FrameOK(g, Ready, Known) /\ SameCall(g, f) /\ g.proc = f.proc /\ g.browser = f.browser
        <4>1. f.proc \in WebProc /\ FrameOK(f, Ready, Known)
          BY <2>1
        <4> QED
          BY ONLY <2>8, <4>1, WebNext
      <3>3. GetCall(f.browser, next, f.hops + 1) = <<c>>
        BY DEF GetCall
      <3>4. next = [method |-> next.method, url |-> next.url, jar |-> next.jar]
            /\ (f.browser \in Sessions => next.jar = Main)
        BY <2>1, <2>8 DEF WebOK
      <3>5. FrameOK(c, Ready', Known') /\ c.proc = "fetch" /\ c.browser = f.browser
        <4>1. FrameOK(e, Ready', Known') /\ e.proc = "fetch" /\ e.browser = f.browser
          <5>1. "fetch" \in WebProc
            BY DEF WebProc
          <5>2. PICK R, K : R = Ready' /\ K = Known'
            OBVIOUS
          <5>3. f.browser \in Browsers
            BY <2>1
          <5>4. FrameOK(e, R, K) /\ e.proc = "fetch" /\ e.browser = f.browser
            BY ONLY <3>4, <5>1, <5>3, WebFrames
          <5> QED
            BY <5>2, <5>4
        <4> HIDE DEF e
        <4> QED
          BY <4>1, WebHops DEF WebProc
      <3> HIDE DEF g, c
      <3>6. FrameOK(g, Ready', Known')
        BY <2>2, <3>2, FrameStays DEF Grows
      <3>7. Waits(g, c)
        BY <2>1, <3>2, <3>5 DEF Waits, WebProc
      <3> QED
        BY <2>1, <2>2, <3>1, <3>2, <3>3, <3>5, <3>6, <3>7, CallsInner DEF f, WebProc
    <2> QED
      BY <2>3, <2>4, <2>5
  <1>7. CASE PostRefreshed(p)
    <2> DEFINE g == [f EXCEPT !.at = "read"]
    <2>1. stack[p] # <<>> /\ f.proc \in WebProc /\ FrameOK(f, Ready, Known)
      BY <1>0, <1>7 DEF PostRefreshed, WebProc, f
    <2>2. Grows /\ SiteInv' /\ SessionInv'
      BY <1>7, SiteStays DEF PostRefreshed, webVars
    <2>3. CASE answer[p].ok
      <3>1. Goto(p, g)
        BY <1>7, <2>3 DEF PostRefreshed, f
      <3>2. FrameOK(g, Ready, Known) /\ SameCall(g, f)
        BY <2>1, WebAt
      <3> HIDE DEF g
      <3>3. FrameOK(g, Ready', Known')
        BY <2>2, <3>2, FrameStays DEF Grows
      <3> QED
        BY <2>1, <2>2, <3>1, <3>2, <3>3, Moves DEF f, WebProc
    <2>4. CASE ~answer[p].ok
      <3>1. Return(p, Failed)
        BY <1>7, <2>4 DEF PostRefreshed
      <3>2. Gives(Frame(p), Failed, Ready', LoggedIn', Known')
        BY DEF Gives, Failed
      <3> QED
        BY <2>1, <2>2, <3>1, <3>2, Returns
    <2> QED
      BY <2>3, <2>4
  <1>8. CASE ReadPage(p)
    <2> DEFINE v == Loaded(browser[f.browser].page)
    <2>1. stack[p] # <<>> /\ f.proc \in WebProc /\ f.browser \in Browsers /\ Return(p, v)
      BY <1>0, <1>8 DEF ReadPage, WebProc, f
    <2>2. Grows /\ SiteInv' /\ SessionInv'
      BY <1>8, SiteStays DEF ReadPage, webVars
    <2>3. v.page = browser[f.browser].page
      BY DEF Loaded, Failed
    <2>4. PageOf(browser[f.browser].page, f.browser, Known')
      BY <2>2 DEF SiteInv, PageOf, Grows
    <2> HIDE DEF v
    <2>5. Gives(Frame(p), v, Ready', LoggedIn', Known')
      BY <2>1, <2>3, <2>4 DEF Gives, WebProc, f
    <2> QED
      BY <2>1, <2>2, <2>5, Returns
  <1> QED
    BY <1>1, <1>2, <1>3, <1>4, <1>5, <1>6, <1>7, <1>8 DEF WebStep

-------------------------------------------------------------------------------
(* What a call that fails answers tells nothing.                           *)
LEMMA FailedGives == ASSUME NEW f, NEW R, NEW L, NEW K PROVE Gives(f, Failed, R, L, K)
  BY DEF Gives, Failed

(* The frames of the resolver.                                             *)
ResolveFrame(path) == [proc |-> "resolve", at |-> "look", next |-> 1, path |-> path]
Tested(f) == [f EXCEPT !.at = "tested"]
LooksOn(f) == [f EXCEPT !.at = "look", !.next = @ + 1]

(* The frame of a new resolution of an address.                            *)
LEMMA ResolveFrames ==
    ASSUME NEW R, NEW K, NEW path
    PROVE  /\ ResolveCall(path) = <<ResolveFrame(path)>>
           /\ FrameOK(ResolveFrame(path), R, K) /\ ResolveFrame(path).proc = "resolve"
  BY DEF ResolveCall, ResolveFrame, FrameOK

(* The frames a resolution goes on with.                                   *)
LEMMA ResolveGoes ==
    ASSUME NEW R, NEW K, NEW f, f.proc = "resolve", FrameOK(f, R, K)
    PROVE  \A g \in {Tested(f), LooksOn(f)} :
             FrameOK(g, R, K) /\ SameCall(g, f) /\ g.proc = "resolve"
  <1>1. f = [proc |-> f.proc, at |-> f.at, next |-> f.next, path |-> f.path]
    BY DEF FrameOK, WebProc
  <1>2. Tested(f) = [proc |-> f.proc, at |-> "tested", next |-> f.next, path |-> f.path]
    BY <1>1 DEF Tested
  <1>3. PICK e : e = [f EXCEPT !.at = "look"]
    OBVIOUS
  <1>4. PICK n : n = f.next + 1
    OBVIOUS
  <1>5. PICK g : g = [e EXCEPT !.next = n]
    OBVIOUS
  <1>6. LooksOn(f) = g
    BY <1>3, <1>4, <1>5, Zenon DEF LooksOn
  <1>7. e = [proc |-> f.proc, at |-> "look", next |-> f.next, path |-> f.path]
    BY <1>1, <1>3
  <1>8. g = [proc |-> f.proc, at |-> "look", next |-> n, path |-> f.path]
    BY ONLY <1>5, <1>7
  <1> QED
    BY <1>2, <1>6, <1>8 DEF FrameOK, SameCall, WebProc

(* Opening a page in the runner's browser.                                 *)
LEMMA OpenFrames ==
    ASSUME NEW R, NEW K, NEW b \in Browsers, NEW url
    PROVE  \E c : /\ OpenCall(b, url) = <<c>> /\ FrameOK(c, R, K)
                  /\ c.proc = "open" /\ c.browser = b
  <1> DEFINE req == Request("get", url, Main)
             c == WebFrame("open", "load", b, req)
  <1>1. req = [method |-> req.method, url |-> req.url, jar |-> req.jar] /\ req.jar = Main
    BY DEF Request
  <1>2. OpenCall(b, url) = <<c>>
    BY DEF OpenCall
  <1> HIDE DEF req
  <1>3. FrameOK(c, R, K) /\ c.proc = "open" /\ c.browser = b
    BY <1>1, WebFrames DEF WebProc
  <1> QED
    BY <1>2, <1>3

(* The url is looked up in the cache, or tested in the browser that the    *)
(* searches share.                                                         *)
LEMMA ResolveKeepsInv ==
    ASSUME RunnerInv, NEW p \in Callers, ResolveStep(p), UNCHANGED sessionVars
    PROVE  Kept
  <1> DEFINE f == Frame(p)
  <1> USE DEF RunnerInv, Kept, CallsKept
  <1>0. ASSUME NEW l, At(p, "resolve", l)
        PROVE  stack[p] # <<>> /\ f.proc = "resolve" /\ FrameOK(f, Ready, Known)
    BY <1>0, TopAt
  <1>1. Grows /\ SiteInv' /\ SessionInv'
    BY SiteStays DEF ResolveStep, ResolveLook, ResolveTested, webVars
  <1>2. stack[p] # <<>> /\ f.proc = "resolve" /\ FrameOK(f, Ready', Known')
    <2>1. stack[p] # <<>> /\ f.proc = "resolve" /\ FrameOK(f, Ready, Known)
      BY <1>0 DEF ResolveStep, ResolveLook, ResolveTested
    <2> QED
      BY <1>1, <2>1, FrameStays DEF Grows
  <1>3. ASSUME NEW link, NEW path, Return(p, Resolved(link, path)) PROVE Kept
    <2>1. Resolved(link, path).page.user = 0
      BY DEF Resolved, Failed, NoPage
    <2>2. Gives(Frame(p), Resolved(link, path), Ready', LoggedIn', Known')
      BY <1>2, <2>1 DEF Gives, WebProc
    <2> QED
      BY <1>1, <1>2, <1>3, <2>2, Returns
  <1>4. ASSUME Return(p, Failed) PROVE Kept
    BY <1>1, <1>2, <1>4, FailedGives, Returns
  <1>5. CASE ResolveLook(p)
    <2> DEFINE urls == ResolverUrls(def)
    <2>1. CASE f.path = "magnet"
      BY <1>3, <1>5, <2>1 DEF ResolveLook
    <2>2. CASE f.path # "magnet" /\ f.next > Len(urls)
      BY <1>4, <1>5, <2>2 DEF ResolveLook
    <2>3. CASE f.path # "magnet" /\ ~(f.next > Len(urls)) /\ urls[f.next] = Unparsable
      <3>1. UNCHANGED <<stack, answer>>
        BY <1>5, <2>3 DEF ResolveLook, Panic
      <3> QED
        BY <1>1, <3>1, NoCallMoves
    <2>4. CASE /\ f.path # "magnet" /\ ~(f.next > Len(urls)) /\ urls[f.next] # Unparsable
               /\ IsOk(Root(urls[f.next]))
      BY <1>3, <1>5, <2>4 DEF ResolveLook
    <2>5. CASE /\ f.path # "magnet" /\ ~(f.next > Len(urls)) /\ urls[f.next] # Unparsable
               /\ ~IsOk(Root(urls[f.next]))
      <3> DEFINE url == Root(urls[f.next])
      <3>1. Call(p, Tested(f), OpenCall(Main, url))
        BY <1>5, <2>5 DEF ResolveLook, Tested
      <3>2. FrameOK(Tested(f), Ready', Known') /\ SameCall(Tested(f), f)
            /\ Tested(f).proc = "resolve"
        BY <1>2, ResolveGoes
      <3>3. PICK c : /\ OpenCall(Main, url) = <<c>> /\ FrameOK(c, Ready', Known')
                     /\ c.proc = "open" /\ c.browser = Main
        BY BrowserNumbers, OpenFrames
      <3>4. Waits(Tested(f), c)
        BY <3>2, <3>3 DEF Waits, WebProc
      <3> QED
        BY <1>1, <1>2, <3>1, <3>2, <3>3, <3>4, CallsInner DEF WebProc
    <2> QED
      BY <2>1, <2>2, <2>3, <2>4, <2>5
  <1>6. CASE ResolveTested(p)
    <2>1. CASE ValidBrowserCall(answer[p])
      BY <1>3, <1>6, <2>1 DEF ResolveTested
    <2>2. CASE ~ValidBrowserCall(answer[p])
      <3>1. Goto(p, LooksOn(f))
        BY <1>6, <2>2 DEF ResolveTested, LooksOn
      <3>2. FrameOK(LooksOn(f), Ready', Known') /\ SameCall(LooksOn(f), f)
        BY <1>2, ResolveGoes
      <3> QED
        BY <1>1, <1>2, <3>1, <3>2, Moves DEF WebProc
    <2> QED
      BY <2>1, <2>2
  <1> QED
    BY <1>5, <1>6 DEF ResolveStep

-------------------------------------------------------------------------------
(* A request of the client: one frame, or two where a fetch posts.         *)
IsRequest(callee, b, ready, known) ==
    \/ \E c : /\ callee = <<c>> /\ FrameOK(c, ready, known)
              /\ c.proc \in WebProc /\ c.browser = b
    \/ \E c, d : /\ callee = <<d>> \o <<c>>
                 /\ FrameOK(c, ready, known) /\ FrameOK(d, ready, known)
                 /\ c.proc = "fetch" /\ d.proc = "post" /\ c.browser = b /\ d.browser = b

(* A request from a session's browser has the session's own cookies.       *)
LEMMA WebRequest ==
    ASSUME NEW R, NEW K, NEW b \in Browsers, NEW req,
           req = [method |-> req.method, url |-> req.url, jar |-> req.jar],
           b \in Sessions => req.jar = Main, NEW callee,
           callee \in {FetchCall(b, req), PostCall(b, req)}
    PROVE  IsRequest(callee, b, R, K)
  <1>0. "fetch" \in WebProc /\ "post" \in WebProc
    BY DEF WebProc
  <1> DEFINE post == WebFrame("post", "apply", b, req)
             posted == WebFrame("fetch", "posted", b, req)
             get == WebFrame("fetch", "apply", b, req)
             got == [get EXCEPT !.hops = 0]
             unknown == WebFrame("fetch", "unknown", b, req)
  <1>1. /\ FrameOK(post, R, K) /\ post.proc = "post" /\ post.browser = b
        /\ FrameOK(posted, R, K) /\ posted.proc = "fetch" /\ posted.browser = b
        /\ FrameOK(get, R, K) /\ get.proc = "fetch" /\ get.browser = b
        /\ FrameOK(unknown, R, K) /\ unknown.proc = "fetch" /\ unknown.browser = b
    BY <1>0, WebFrames
  <1>2. PostCall(b, req) = <<post>> /\ GetCall(b, req, 0) = <<got>>
    BY DEF PostCall, GetCall
  <1> HIDE DEF post, posted, get, unknown
  <1>3. FrameOK(got, R, K) /\ got.proc = "fetch" /\ got.browser = b
    BY <1>0, <1>1, WebHops
  <1>4. FetchCall(b, req) \in {GetCall(b, req, 0), PostCall(b, req) \o <<posted>>, <<unknown>>}
    BY DEF FetchCall, posted, unknown
  <1> HIDE DEF got
  <1>5. CASE callee = <<got>>
    BY <1>0, <1>3, <1>5 DEF IsRequest
  <1>6. CASE callee = <<post>>
    BY <1>0, <1>1, <1>6 DEF IsRequest
  <1>7. CASE callee = <<unknown>>
    BY <1>0, <1>1, <1>7 DEF IsRequest
  <1>8. CASE callee = <<post>> \o <<posted>>
    BY <1>0, <1>1, <1>8 DEF IsRequest
  <1> QED
    BY <1>2, <1>4, <1>5, <1>6, <1>7, <1>8

(* A call makes such a request.                                            *)
LEMMA CallsWeb ==
    ASSUME CallsInv, Grows, NEW p \in Callers, stack[p] # <<>>, NEW g,
           SameCall(g, Frame(p)), FrameOK(g, Ready', Known'), NEW b \in Browsers, NEW req,
           req = [method |-> req.method, url |-> req.url, jar |-> req.jar],
           b \in Sessions => req.jar = Main, NEW callee,
           callee \in {FetchCall(b, req), PostCall(b, req)}, Call(p, g, callee),
           \A c : c.proc \in WebProc /\ c.browser = b => Waits(g, c)
    PROVE  CallsKept
  <1>1. IsRequest(callee, b, Ready', Known')
    BY WebRequest
  <1>2. ASSUME NEW c, callee = <<c>>, FrameOK(c, Ready', Known'), c.proc \in WebProc,
               c.browser = b
        PROVE  CallsKept
    BY <1>2, CallsInner DEF Waits, CallsKept, WebProc
  <1>3. ASSUME NEW c, NEW d, callee = <<d>> \o <<c>>,
               FrameOK(c, Ready', Known'), FrameOK(d, Ready', Known'),
               c.proc = "fetch", d.proc = "post", c.browser = b, d.browser = b
        PROVE  CallsKept
    <2>1. Waits(g, c) /\ Waits(c, d)
      BY <1>3 DEF Waits, WebProc
    <2> QED
      BY <1>3, <2>1, CallsTwo DEF CallsKept
  <1> QED
    BY <1>1, <1>2, <1>3 DEF IsRequest

-------------------------------------------------------------------------------
(* The frames of a session that is acquired, and of its login.             *)
AcquireFrame == [proc |-> "acquire", at |-> "pick", session |-> 1]
Picked(f, s) == [f EXCEPT !.at = "store", !.session = s]
SetsUp(f) == [f EXCEPT !.at = "setup"]

LoginFrame(s) ==
    [proc |-> "login", at |-> "inputs", session |-> s, url |-> NoUrl, page |-> NoPage]
LoginAt(f, l) == [f EXCEPT !.at = l]
LoginUrl(f, url) == [f EXCEPT !.at = "init", !.url = url]
LoginPage(f, l, page) == [f EXCEPT !.at = l, !.page = page]

(* The frame of a new acquisition.                                         *)
LEMMA AcquireFrames ==
    ASSUME NEW R, NEW K
    PROVE  /\ AcquireCall = <<AcquireFrame>>
           /\ FrameOK(AcquireFrame, R, K) /\ AcquireFrame.proc = "acquire"
  BY BrowserNumbers DEF AcquireCall, AcquireFrame, FrameOK, AcquireOK

(* The frames an acquisition goes on with.                                 *)
LEMMA AcquireGoes ==
    ASSUME NEW R, NEW K, NEW f, f.proc = "acquire", FrameOK(f, R, K), NEW s \in Sessions
    PROVE  /\ f.session \in Sessions
           /\ FrameOK(Picked(f, s), R, K) /\ SameCall(Picked(f, s), f)
           /\ FrameOK(SetsUp(f), R, K) /\ SameCall(SetsUp(f), f)
           /\ SetsUp(f).proc = "acquire" /\ SetsUp(f).session = f.session
  <1>1. f = [proc |-> f.proc, at |-> f.at, session |-> f.session] /\ f.session \in Sessions
    BY DEF FrameOK, AcquireOK, WebProc
  <1>2. SetsUp(f) = [proc |-> f.proc, at |-> "setup", session |-> f.session]
    BY <1>1 DEF SetsUp
  <1>3. PICK e : e = [f EXCEPT !.at = "store"]
    OBVIOUS
  <1>4. PICK g : g = [e EXCEPT !.session = s]
    OBVIOUS
  <1>5. Picked(f, s) = g
    BY <1>3, <1>4, Zenon DEF Picked
  <1>6. e = [proc |-> f.proc, at |-> "store", session |-> f.session]
    BY <1>1, <1>3
  <1>7. g = [proc |-> f.proc, at |-> "store", session |-> s]
    BY ONLY <1>4, <1>6
  <1> QED
    BY <1>1, <1>2, <1>5, <1>7 DEF FrameOK, AcquireOK, SameCall, WebProc

(* The frames of a new login.                                              *)
LEMMA LoginFrames ==
    ASSUME NEW R, NEW K, NEW s \in Sessions
    PROVE  /\ LoginCall(s) = <<ResolveFrame("login")>> \o <<LoginFrame(s)>>
           /\ FrameOK(LoginFrame(s), R, K) /\ LoginFrame(s).proc = "login"
           /\ LoginFrame(s).session = s
  <1>1. LoginCall(s) = <<ResolveFrame("login")>> \o <<LoginFrame(s)>>
    BY ResolveFrames DEF LoginCall, LoginFrame
  <1>2. PageOf(NoPage, s, K)
    BY DEF PageOf, NoPage
  <1>3. LoginOK(LoginFrame(s), K)
    BY <1>2 DEF LoginOK, LoginFrame
  <1> QED
    BY <1>1, <1>3 DEF FrameOK, LoginFrame

(* The frames a login goes on with.                                        *)
LEMMA LoginGoesOn ==
    ASSUME NEW R, NEW K, NEW f, f.proc = "login", FrameOK(f, R, K), NEW l, NEW url, NEW page
    PROVE  /\ f.session \in Sessions /\ PageOf(f.page, f.session, K)
           /\ FrameOK(LoginAt(f, l), R, K) /\ SameCall(LoginAt(f, l), f)
           /\ LoginAt(f, l).proc = "login" /\ LoginAt(f, l).session = f.session
           /\ FrameOK(LoginUrl(f, url), R, K) /\ SameCall(LoginUrl(f, url), f)
           /\ LoginUrl(f, url).proc = "login"
           /\ PageOf(page, f.session, K) => FrameOK(LoginPage(f, l, page), R, K)
           /\ SameCall(LoginPage(f, l, page), f) /\ LoginPage(f, l, page).proc = "login"
  <1>1. LoginOK(f, K)
    BY DEF FrameOK, WebProc
  <1>2. PICK e : e = [f EXCEPT !.at = l]
    OBVIOUS
  <1>3. PICK i : i = [f EXCEPT !.at = "init"]
    OBVIOUS
  <1>4. PICK u : u = [i EXCEPT !.url = url]
    OBVIOUS
  <1>5. PICK v : v = [e EXCEPT !.page = page]
    OBVIOUS
  <1>6. LoginAt(f, l) = e /\ LoginUrl(f, url) = u /\ LoginPage(f, l, page) = v
    BY <1>2, <1>3, <1>4, <1>5, Zenon DEF LoginAt, LoginUrl, LoginPage
  <1>7. /\ e = [proc |-> f.proc, at |-> l, session |-> f.session, url |-> f.url, page |-> f.page]
        /\ i = [proc |-> f.proc, at |-> "init", session |-> f.session, url |-> f.url,
                page |-> f.page]
    BY <1>1, <1>2, <1>3 DEF LoginOK
  <1>8. u = [proc |-> f.proc, at |-> "init", session |-> f.session, url |-> url, page |-> f.page]
    BY ONLY <1>4, <1>7
  <1>9. v = [proc |-> f.proc, at |-> l, session |-> f.session, url |-> f.url, page |-> page]
    BY ONLY <1>5, <1>7
  <1>10. LoginOK(e, K) /\ LoginOK(u, K) /\ (PageOf(page, f.session, K) => LoginOK(v, K))
    BY <1>1, <1>7, <1>8, <1>9 DEF LoginOK
  <1> QED
    BY <1>1, <1>6, <1>7, <1>8, <1>9, <1>10 DEF FrameOK, LoginOK, SameCall, WebProc

-------------------------------------------------------------------------------
(* A session that logs in is one that the site knows, if the login is      *)
(* tested; none is left again.                                             *)
LEMMA SessionKeepsSite ==
    ASSUME RunnerInv, NEW p \in Callers, SessionStep(p)
    PROVE  Grows /\ SiteInv' /\ SessionInv'
  <1> DEFINE f == Frame(p)
  <1> USE DEF RunnerInv, Kept, CallsKept
  <1>0. ASSUME NEW l, At(p, "login", l)
        PROVE  f.session \in Sessions /\ f.session \in Browsers /\ PageOf(f.page, f.session, Known)
    BY <1>0, TopAt, LoginGoesOn, BrowserNumbers
  <1>1. CASE UNCHANGED <<webVars, def, sessionVars>>
    BY <1>1, SiteStays DEF webVars
  <1>2. CASE StoreIndex(p)
    <2>1. muxIndex' \in 0 .. SessionCount - 1 /\ sessionState' = sessionState
      <3>1. /\ FrameOK(Frame(p), Ready, Known) /\ Frame(p).proc = "acquire"
            /\ sessionState' = sessionState
        BY <1>2, TopAt DEF StoreIndex
      <3>2. PICK loaded \in {Frame(p).session - 1, muxIndex} : muxIndex' = NextIndex(loaded)
        BY <1>2 DEF StoreIndex
      <3>3. Frame(p).session \in Sessions
        BY <3>1, BrowserNumbers, AcquireGoes
      <3>4. loaded \in Nat
        BY <3>2, <3>3, SessionAssumption DEF Sessions, SessionInv
      <3> QED
        BY <3>1, <3>2, <3>4, SessionAssumption DEF NextIndex
    <2> QED
      BY <1>2, <2>1 DEF StoreIndex, webVars, SiteInv, SessionInv, Grows, Ready, LoggedIn, Known
  <1>3. CASE LoginSubmit(p)
    <2>1. At(p, "login", "submit") /\ UNCHANGED <<accepts, def, sessionVars>>
      BY <1>3 DEF LoginSubmit
    <2>2. CASE UNCHANGED <<browser, siteUsers>>
      BY <2>1, <2>2, SiteStays
    <2>3. CASE /\ browser' = [browser EXCEPT ![f.session].jar = f.session]
               /\ siteUsers' = IF accepts THEN siteUsers \cup {f.session} ELSE siteUsers
      BY <1>0, <2>1, <2>3, JarStored
    <2>4. \/ UNCHANGED <<browser, siteUsers>>
          \/ /\ browser' = [browser EXCEPT ![f.session].jar = f.session]
             /\ siteUsers' = IF accepts THEN siteUsers \cup {f.session} ELSE siteUsers
      BY <1>3 DEF LoginSubmit
    <2> QED
      BY <2>2, <2>3, <2>4
  <1>4. CASE LoginForm(p)
    <2>1. At(p, "login", "form") /\ UNCHANGED <<accepts, def, sessionVars>>
      BY <1>4 DEF LoginForm
    <2>2. CASE UNCHANGED <<browser, siteUsers>>
      BY <2>1, <2>2, SiteStays
    <2>3. CASE Submit(f.session, browser[f.session].page.url)
      BY <1>0, <2>1, <2>3, Submitted
    <2>4. UNCHANGED <<browser, siteUsers>> \/ Submit(f.session, browser[f.session].page.url)
      BY <1>4 DEF LoginForm
    <2> QED
      BY <2>2, <2>3, <2>4
  <1>5. CASE LoginVerify(p)
    <2>1. At(p, "login", "verify") /\ UNCHANGED <<webVars, def, muxIndex>>
      BY <1>5 DEF LoginVerify
    <2>2. CASE ~TestPasses(f.page)
      <3>1. UNCHANGED sessionState
        BY <1>5, <2>2 DEF LoginVerify
      <3> QED
        BY <1>1, <2>1, <3>1 DEF sessionVars
    <2>3. CASE TestPasses(f.page)
      <3>1. sessionState' = [sessionState EXCEPT ![f.session] = "LoggedIn"]
        BY <1>5, <2>3 DEF LoginVerify
      <3>2. f.session \in Sessions /\ (def.login.test.selector => f.session \in Known)
        BY <1>0, <2>1, <2>3 DEF TestPasses, ShowsUser, PageOf
      <3> HIDE DEF f
      <3>3. Known' = Known /\ SiteInv'
        BY <2>1 DEF Known, SiteInv, webVars
      <3>4. /\ sessionState' \in [Sessions -> {"NoLoginRequired", "LoginRequired", "LoggedIn"}]
            /\ LoggedIn' = LoggedIn \cup {f.session} /\ Ready' = Ready \cup {f.session}
        BY <3>1, <3>2 DEF SessionInv, LoggedIn, Ready
      <3> QED
        BY <2>1, <3>2, <3>3, <3>4 DEF SessionInv, Grows
    <2> QED
      BY <2>2, <2>3
  <1>6. \/ UNCHANGED <<webVars, def, sessionVars>>
        \/ StoreIndex(p) \/ LoginSubmit(p) \/ LoginForm(p) \/ LoginVerify(p)
    BY DEF SessionStep, PickSession, SetUp, LoginInputs, LoginInit, LoginInitFetch,
           LoginInitFetched, LoginCheck, LoginTestUrl, LoginTestFetched
  <1> QED
    BY <1>1, <1>2, <1>3, <1>4, <1>5, <1>6

(* What a login does next.                                                 *)
LEMMA LoginDoes ==
    ASSUME CallsInv, Grows, NEW p \in Callers, NEW l0, At(p, "login", l0), NEW l
    PROVE  LET f == Frame(p) IN
           /\ Goto(p, LoginAt(f, l)) => CallsKept
           /\ \A path : Call(p, LoginAt(f, l), ResolveCall(path)) => CallsKept
           /\ \A req, callee :
                /\ req = [method |-> req.method, url |-> req.url, jar |-> Main]
                /\ callee \in {FetchCall(f.session, req), PostCall(f.session, req)}
                /\ Call(p, LoginAt(f, l), callee)
                => CallsKept
           /\ \A url : Call(p, LoginAt(f, l), OpenCall(f.session, url)) => CallsKept
           /\ Return(p, Failed) => CallsKept
  <1> DEFINE f == Frame(p)
             g == LoginAt(f, l)
  <1>1. stack[p] # <<>> /\ f.proc = "login" /\ FrameOK(f, Ready, Known)
    BY TopAt
  <1>2. FrameOK(f, Ready', Known')
    BY <1>1, FrameStays DEF Grows
  <1> HIDE DEF f
  <1>3. /\ f.session \in Browsers
        /\ FrameOK(g, Ready', Known') /\ SameCall(g, f) /\ g.proc = "login" /\ g.session = f.session
    BY <1>1, <1>2, LoginGoesOn, BrowserNumbers
  <1> HIDE DEF g
  <1>4. \A c : c.proc \in WebProc /\ c.browser = f.session => Waits(g, c)
    BY <1>3 DEF Waits, WebProc
  <1>5. Goto(p, g) => CallsKept
    BY <1>1, <1>3, Moves DEF f, CallsKept, WebProc
  <1>6. ASSUME NEW path, Call(p, g, ResolveCall(path)) PROVE CallsKept
    <2>1. /\ ResolveCall(path) = <<ResolveFrame(path)>> /\ FrameOK(ResolveFrame(path), Ready', Known')
          /\ ResolveFrame(path).proc = "resolve"
      BY ResolveFrames
    <2>2. Waits(g, ResolveFrame(path))
      BY <1>3, <2>1 DEF Waits, WebProc
    <2> QED
      BY <1>1, <1>3, <1>6, <2>1, <2>2, CallsInner DEF f, CallsKept, WebProc
  <1>7. ASSUME NEW req, NEW callee, req = [method |-> req.method, url |-> req.url, jar |-> Main],
               callee \in {FetchCall(f.session, req), PostCall(f.session, req)},
               Call(p, g, callee)
        PROVE  CallsKept
    <2>1. req = [method |-> req.method, url |-> req.url, jar |-> req.jar] /\ req.jar = Main
      BY <1>7
    <2> QED
      BY <1>1, <1>3, <1>4, <1>7, <2>1, CallsWeb DEF f
  <1>8. ASSUME NEW url, Call(p, g, OpenCall(f.session, url)) PROVE CallsKept
    <2>1. PICK c : /\ OpenCall(f.session, url) = <<c>> /\ FrameOK(c, Ready', Known')
                   /\ c.proc = "open" /\ c.browser = f.session
      BY <1>3, OpenFrames
    <2>2. Waits(g, c)
      BY <1>4, <2>1 DEF WebProc
    <2> QED
      BY <1>1, <1>3, <1>8, <2>1, <2>2, CallsInner DEF f, CallsKept, WebProc
  <1>9. Return(p, Failed) => CallsKept
    BY <1>1, FailedGives, Returns DEF CallsKept
  <1> QED
    BY <1>5, <1>6, <1>7, <1>8, <1>9 DEF f, g

(* The steps of a session and of its login.                                *)
LEMMA SessionKeepsInv ==
    ASSUME RunnerInv, NEW p \in Callers, SessionStep(p)
    PROVE  Kept
  <1> DEFINE f == Frame(p)
  <1> USE DEF RunnerInv, Kept, CallsKept
  <1>0. Grows /\ SiteInv' /\ SessionInv'
    BY SessionKeepsSite
  <1>a. ASSUME NEW l, At(p, "acquire", l)
        PROVE  /\ stack[p] # <<>> /\ f.proc = "acquire" /\ FrameOK(f, Ready', Known')
               /\ f.session \in Sessions
    <2>1. stack[p] # <<>> /\ f.proc = "acquire" /\ FrameOK(f, Ready, Known)
      BY <1>a, TopAt
    <2>2. FrameOK(f, Ready', Known')
      BY <1>0, <2>1, FrameStays DEF Grows
    <2>3. f.session \in Sessions
      BY <2>1, AcquireGoes, BrowserNumbers
    <2> QED
      BY <2>1, <2>2, <2>3
  <1>b. ASSUME NEW l0, At(p, "login", l0), NEW l
        PROVE  /\ Goto(p, LoginAt(f, l)) => Kept
               /\ \A path : Call(p, LoginAt(f, l), ResolveCall(path)) => Kept
               /\ \A url : Call(p, LoginAt(f, l), FetchCall(f.session, Request("get", url, Main)))
                           => Kept
               /\ \A url : Call(p, LoginAt(f, l), PostCall(f.session, Request("post", url, Main)))
                           => Kept
               /\ \A url : Call(p, LoginAt(f, l), OpenCall(f.session, url)) => Kept
               /\ Return(p, Failed) => Kept
    <2>1. \A method, url : LET req == Request(method, url, Main)
                           IN  req = [method |-> req.method, url |-> req.url, jar |-> Main]
      BY DEF Request
    <2> QED
      BY <1>0, <1>b, <2>1, LoginDoes
  <1>c. ASSUME NEW l, At(p, "login", l)
        PROVE  /\ stack[p] # <<>> /\ f.proc = "login" /\ FrameOK(f, Ready', Known')
               /\ f.session \in Sessions
               /\ answer[p].ok => PageOf(answer[p].page, f.session, Known')
    <2>1. /\ stack[p] # <<>> /\ f.proc = "login" /\ FrameOK(f, Ready, Known)
          /\ Told(f, answer[p], Ready, LoggedIn, Known)
      BY <1>c, TopAt
    <2>2. FrameOK(f, Ready', Known')
      BY <1>0, <2>1, FrameStays DEF Grows
    <2>3. f.session \in Sessions
      BY <2>1, LoginGoesOn
    <2> QED
      BY <1>0, <2>1, <2>2, <2>3 DEF Told, PageOf, Grows
  <1>1. CASE PickSession(p)
    <2> DEFINE s == muxIndex + 1
    <2>1. Goto(p, Picked(f, s)) /\ At(p, "acquire", "pick")
      BY <1>1 DEF PickSession, Picked
    <2>2. s \in Sessions
      BY SessionAssumption DEF SessionInv, Sessions
    <2> HIDE DEF s
    <2>3. FrameOK(Picked(f, s), Ready', Known') /\ SameCall(Picked(f, s), f)
      BY <1>a, <2>1, <2>2, AcquireGoes
    <2> QED
      BY <1>0, <1>a, <2>1, <2>3, Moves DEF WebProc
  <1>2. CASE StoreIndex(p)
    <2>1. At(p, "acquire", "store") /\ sessionState' = sessionState
      BY <1>2 DEF StoreIndex
    <2>2. CASE isRequired(f.session)
      <3>1. Call(p, SetsUp(f), LoginCall(f.session))
        BY <1>2, <2>2 DEF StoreIndex, SetsUp
      <3>2. /\ FrameOK(SetsUp(f), Ready', Known') /\ SameCall(SetsUp(f), f)
            /\ SetsUp(f).proc = "acquire" /\ SetsUp(f).session = f.session
        BY <1>a, <2>1, AcquireGoes
      <3>3. /\ LoginCall(f.session) = <<ResolveFrame("login")>> \o <<LoginFrame(f.session)>>
            /\ FrameOK(LoginFrame(f.session), Ready', Known')
            /\ LoginFrame(f.session).proc = "login" /\ LoginFrame(f.session).session = f.session
        BY <1>a, <2>1, LoginFrames
      <3>4. FrameOK(ResolveFrame("login"), Ready', Known') /\ ResolveFrame("login").proc = "resolve"
        BY ResolveFrames
      <3>5. Waits(SetsUp(f), LoginFrame(f.session)) /\ Waits(LoginFrame(f.session), ResolveFrame("login"))
        BY <3>2, <3>3, <3>4 DEF Waits, WebProc
      <3> HIDE DEF f
      <3> QED
        BY <1>0, <1>a, <2>1, <3>1, <3>2, <3>3, <3>4, <3>5, CallsTwo DEF f
    <2>3. CASE ~isRequired(f.session)
      <3> DEFINE v == [Failed EXCEPT !.ok = TRUE, !.items = f.session]
      <3>1. Return(p, v)
        BY <1>2, <2>3 DEF StoreIndex
      <3>2. v.items = f.session
        BY DEF Failed
      <3>3. f.session \in Ready'
        BY <1>0, <1>a, <2>1, <2>3 DEF isRequired, Ready, SessionInv
      <3> HIDE DEF v
      <3>4. Gives(Frame(p), v, Ready', LoggedIn', Known')
        BY <1>a, <2>1, <3>2, <3>3 DEF Gives, WebProc
      <3> QED
        BY <1>0, <1>a, <2>1, <3>1, <3>4, Returns
    <2> QED
      BY <2>2, <2>3
  <1>3. CASE SetUp(p)
    <2>1. At(p, "acquire", "setup")
      BY <1>3 DEF SetUp
    <2>2. CASE answer[p].ok
      <3> DEFINE v == [Failed EXCEPT !.ok = TRUE, !.items = f.session]
      <3>1. Return(p, v)
        BY <1>3, <2>2 DEF SetUp
      <3>2. v.items = f.session
        BY DEF Failed
      <3>3. f.session \in Ready'
        <4>1. f.session \in LoggedIn
          BY <1>a, <2>1, <2>2, TopAt DEF Told
        <4> QED
          BY <1>0, <4>1 DEF Grows, LoggedIn, Ready
      <3> HIDE DEF v
      <3>4. Gives(Frame(p), v, Ready', LoggedIn', Known')
        BY <1>a, <2>1, <3>2, <3>3 DEF Gives, WebProc
      <3> QED
        BY <1>0, <1>a, <2>1, <3>1, <3>4, Returns
    <2>3. CASE ~answer[p].ok
      BY <1>0, <1>3, <1>a, <2>1, <2>3, FailedGives, Returns DEF SetUp
    <2> QED
      BY <2>2, <2>3
  <1>4. CASE LoginInputs(p)
    <2>1. At(p, "login", "inputs")
      BY <1>4 DEF LoginInputs
    <2>2. CASE answer[p].ok
      <3> DEFINE g == LoginUrl(f, answer[p].url)
      <3>1. Call(p, g, ResolveCall("login"))
        BY <1>4, <2>2 DEF LoginInputs, LoginUrl
      <3>2. FrameOK(g, Ready', Known') /\ SameCall(g, f) /\ g.proc = "login"
        BY <1>c, <2>1, LoginGoesOn
      <3>3. /\ ResolveCall("login") = <<ResolveFrame("login")>>
            /\ FrameOK(ResolveFrame("login"), Ready', Known')
            /\ ResolveFrame("login").proc = "resolve"
        BY ResolveFrames
      <3> HIDE DEF g
      <3>4. Waits(g, ResolveFrame("login"))
        BY <3>2, <3>3 DEF Waits, WebProc
      <3> QED
        BY <1>0, <1>c, <2>1, <3>1, <3>2, <3>3, <3>4, CallsInner DEF WebProc
    <2>3. CASE ~answer[p].ok
      BY <1>4, <1>b, <2>1, <2>3 DEF LoginInputs
    <2> QED
      BY <2>2, <2>3
  <1>5. CASE LoginInit(p)
    <2>1. At(p, "login", "init")
      BY <1>5 DEF LoginInit
    <2>2. \/ Return(p, Failed)
          \/ Call(p, LoginAt(f, "initFetch"), ResolveCall("init"))
          \/ Goto(p, LoginAt(f, "submit"))
      BY <1>5 DEF LoginInit, LoginGoes, LoginAt
    <2> QED
      BY <1>b, <2>1, <2>2
  <1>6. CASE LoginInitFetch(p)
    <2>1. At(p, "login", "initFetch")
      BY <1>6 DEF LoginInitFetch
    <2>2. \/ Return(p, Failed)
          \/ Call(p, LoginAt(f, "initFetched"),
                  FetchCall(f.session, Request("get", answer[p].url, Main)))
      BY <1>6 DEF LoginInitFetch, LoginGoes, LoginAt
    <2> QED
      BY <1>b, <2>1, <2>2
  <1>7. CASE LoginInitFetched(p)
    <2>1. At(p, "login", "initFetched")
      BY <1>7 DEF LoginInitFetched
    <2>2. Return(p, Failed) \/ Goto(p, LoginAt(f, "submit"))
      BY <1>7 DEF LoginInitFetched, LoginAt
    <2> QED
      BY <1>b, <2>1, <2>2
  <1>8. CASE LoginSubmit(p)
    <2>1. At(p, "login", "submit")
      BY <1>8 DEF LoginSubmit
    <2>2. \/ Return(p, Failed)
          \/ Call(p, LoginAt(f, "form"), FetchCall(f.session, Request("get", f.url, Main)))
          \/ Call(p, LoginAt(f, "check"), PostCall(f.session, Request("post", f.url, Main)))
          \/ Call(p, LoginAt(f, "check"), OpenCall(f.session, f.url))
      BY <1>8 DEF LoginSubmit, LoginGoes, LoginAt
    <2> QED
      BY <1>b, <2>1, <2>2
  <1>9. CASE LoginForm(p)
    <2>1. At(p, "login", "form")
      BY <1>9 DEF LoginForm
    <2>2. CASE Return(p, Failed)
      BY <1>b, <2>1, <2>2
    <2>3. CASE ~Return(p, Failed)
      <3> DEFINE g == LoginAt(f, "check")
                 s == <<g>> \o Tail(stack[p])
      <3>1. /\ answer[p].ok /\ stack' = [stack EXCEPT ![p] = s] /\ UNCHANGED answer
        BY <1>9, <2>3 DEF LoginForm, LoginAt
      <3>2. FrameOK(g, Ready', Known') /\ SameCall(g, f) /\ g.proc = "login"
            /\ g.session = f.session
        BY <1>c, <2>1, LoginGoesOn
      <3> HIDE DEF g
      <3>3. StackOK(stack[p], Ready', Known') /\ f = stack[p][1] /\ stack[p] # <<>>
        BY <1>0, <1>c, <2>1, StackOf, TopOK
      <3>4. StackOK(s, Ready', Known') /\ s[1] = g
        BY <3>2, <3>3, GoesOn, Resumed DEF StackOK
      <3>5. Told(g, answer[p], Ready', LoggedIn', Known')
        BY <1>c, <2>1, <3>2 DEF Told, WebProc
      <3>6. CallOK(s, answer[p], Ready', LoggedIn', Known')
        BY <3>4, <3>5 DEF CallOK
      <3>7. ~Recorder(s)
        BY <3>2, <3>4 DEF Recorder, Recording
      <3> HIDE DEF s
      <3>8. answer' = [answer EXCEPT ![p] = answer[p]]
        BY <3>1 DEF CallsInv
      <3> QED
        BY <1>0, <3>1, <3>6, <3>7, <3>8, Changed
    <2> QED
      BY <2>2, <2>3
  <1>10. CASE LoginCheck(p)
    <2> DEFINE page == answer[p].page
    <2>1. At(p, "login", "check")
      BY <1>10 DEF LoginCheck
    <2>2. CASE Return(p, Failed)
      BY <1>b, <2>1, <2>2
    <2>3. CASE Panic(p)
      BY <1>0, <2>3, NoCallMoves DEF Panic
    <2>4. ASSUME NEW l, answer[p].ok
          PROVE  /\ FrameOK(LoginPage(f, l, page), Ready', Known')
                 /\ SameCall(LoginPage(f, l, page), f) /\ LoginPage(f, l, page).proc = "login"
      BY <1>c, <2>1, <2>4, LoginGoesOn
    <2>5. CASE answer[p].ok /\ Call(p, LoginPage(f, "testUrl", page), ResolveCall("test"))
      <3> DEFINE g == LoginPage(f, "testUrl", page)
      <3>1. FrameOK(g, Ready', Known') /\ SameCall(g, f) /\ g.proc = "login"
        BY <2>4, <2>5
      <3>2. /\ ResolveCall("test") = <<ResolveFrame("test")>>
            /\ FrameOK(ResolveFrame("test"), Ready', Known')
            /\ ResolveFrame("test").proc = "resolve"
        BY ResolveFrames
      <3> HIDE DEF g
      <3>3. Waits(g, ResolveFrame("test"))
        BY <3>1, <3>2 DEF Waits, WebProc
      <3> QED
        BY <1>0, <1>c, <2>1, <2>5, <3>1, <3>2, <3>3, CallsInner DEF g, WebProc
    <2>6. CASE answer[p].ok /\ Goto(p, LoginPage(f, "verify", page))
      BY <1>0, <1>c, <2>1, <2>4, <2>6, Moves DEF WebProc
    <2>7. \/ Return(p, Failed) \/ Panic(p)
          \/ answer[p].ok /\ Call(p, LoginPage(f, "testUrl", page), ResolveCall("test"))
          \/ answer[p].ok /\ Goto(p, LoginPage(f, "verify", page))
      BY <1>10 DEF LoginCheck, LoginPage
    <2> QED
      BY <2>2, <2>3, <2>5, <2>6, <2>7
  <1>11. CASE LoginTestUrl(p)
    <2>1. At(p, "login", "testUrl")
      BY <1>11 DEF LoginTestUrl
    <2>2. \/ Return(p, Failed)
          \/ Call(p, LoginAt(f, "testFetched"),
                  FetchCall(f.session, Request("get", answer[p].url, Main)))
      BY <1>11 DEF LoginTestUrl, LoginGoes, LoginAt
    <2> QED
      BY <1>b, <2>1, <2>2
  <1>12. CASE LoginTestFetched(p)
    BY <1>12, <1>b DEF LoginTestFetched
  <1>13. CASE LoginVerify(p)
    <2>1. At(p, "login", "verify")
      BY <1>13 DEF LoginVerify
    <2>2. CASE Return(p, Failed)
      BY <1>b, <2>1, <2>2
    <2>3. CASE ~Return(p, Failed)
      <3> DEFINE v == [Failed EXCEPT !.ok = TRUE]
      <3>1. Return(p, v) /\ sessionState' = [sessionState EXCEPT ![f.session] = "LoggedIn"]
        BY <1>13, <2>3 DEF LoginVerify
      <3>2. f.session \in LoggedIn'
        BY <1>c, <2>1, <3>1 DEF LoggedIn, SessionInv
      <3> HIDE DEF v
      <3>3. Gives(Frame(p), v, Ready', LoggedIn', Known')
        BY <1>c, <2>1, <3>2 DEF Gives, WebProc
      <3> QED
        BY <1>0, <1>c, <2>1, <3>1, <3>3, Returns
    <2> QED
      BY <2>2, <2>3
  <1> QED
    BY <1>1, <1>2, <1>3, <1>4, <1>5, <1>6, <1>7, <1>8, <1>9, <1>10, <1>11, <1>12, <1>13
    DEF SessionStep

-------------------------------------------------------------------------------
(* The frames of a search.                                                 *)
SearchFails(f, type) == [f EXCEPT !.at = "report", !.type = type, !.err = "some", !.found = 0]
SearchWith(f, s) == [f EXCEPT !.at = "fetch", !.session = s]
SearchAt(f, l) == [f EXCEPT !.at = l]
SearchReads(f, page, n) == [f EXCEPT !.page = page, !.found = n]
SearchLinks(f, link) == [f EXCEPT !.links = Append(@, link)]
SearchNotes(f, id) == [f EXCEPT !.at = "record", !.id = id]

(* A search with the locals it should have.                                *)
IsSearch(f, ready) == f.proc = "search" /\ SearchOK(f, ready)

(* A frame of a search, among the frames of a stack.                       *)
LEMMA SearchTop ==
    ASSUME NEW R, NEW K, NEW f
    PROVE  /\ f.proc = "search" /\ FrameOK(f, R, K) => IsSearch(f, R)
           /\ IsSearch(f, R) => FrameOK(f, R, K) /\ f.proc = "search"
  BY DEF IsSearch, FrameOK, WebProc

(* The frames of a new search.                                             *)
LEMMA SearchFirst ==
    ASSUME NEW R
    PROVE  /\ SearchCall = <<AcquireFrame>> \o <<SearchFrame>>
           /\ IsSearch(SearchFrame, R) /\ SearchFrame.at = "request"
  BY DEF SearchCall, AcquireCall, AcquireFrame, SearchFrame, IsSearch, SearchOK, ErrorType

(* A search goes on somewhere else.                                        *)
LEMMA SearchGoes ==
    ASSUME NEW R, NEW f, IsSearch(f, R), NEW l
    PROVE  /\ (l \in {"fetch", "extract", "link"} => f.session \in R)
              => IsSearch(SearchAt(f, l), R)
           /\ SearchAt(f, l).at = l
  <1>1. SearchAt(f, l)
        = [proc |-> f.proc, at |-> l, session |-> f.session, page |-> f.page, found |-> f.found,
           links |-> f.links, type |-> f.type, err |-> f.err, id |-> f.id]
    BY DEF SearchAt, IsSearch, SearchOK
  <1> QED
    BY <1>1 DEF IsSearch, SearchOK

(* A search takes a session that needs no login any more.                  *)
LEMMA SearchTakes ==
    ASSUME NEW R, NEW f, IsSearch(f, R), NEW s \in R
    PROVE  IsSearch(SearchWith(f, s), R)
  <1>1. PICK g : g = SearchAt(f, "fetch")
    OBVIOUS
  <1>2. PICK h : h = [g EXCEPT !.session = s]
    OBVIOUS
  <1>3. SearchWith(f, s) = h
    BY <1>1, <1>2, Zenon DEF SearchWith, SearchAt
  <1>4. g = [proc |-> f.proc, at |-> "fetch", session |-> f.session, page |-> f.page,
             found |-> f.found, links |-> f.links, type |-> f.type, err |-> f.err, id |-> f.id]
    BY <1>1 DEF SearchAt, IsSearch, SearchOK
  <1>5. h = [proc |-> f.proc, at |-> "fetch", session |-> s, page |-> f.page,
             found |-> f.found, links |-> f.links, type |-> f.type, err |-> f.err, id |-> f.id]
    BY ONLY <1>2, <1>4
  <1> QED
    BY <1>3, <1>5 DEF IsSearch, SearchOK

(* A search reads a row of its page.                                       *)
LEMMA SearchReadsOn ==
    ASSUME NEW R, NEW f, IsSearch(f, R), NEW page, NEW n
    PROVE  /\ IsSearch(SearchReads(f, page, n), R)
           /\ SearchReads(f, page, n).session = f.session
  <1>1. PICK g : g = [f EXCEPT !.page = page]
    OBVIOUS
  <1>2. PICK h : h = [g EXCEPT !.found = n]
    OBVIOUS
  <1>3. SearchReads(f, page, n) = h
    BY <1>1, <1>2, Zenon DEF SearchReads
  <1>4. g = [proc |-> f.proc, at |-> f.at, session |-> f.session, page |-> page,
             found |-> f.found, links |-> f.links, type |-> f.type, err |-> f.err, id |-> f.id]
    BY <1>1 DEF IsSearch, SearchOK
  <1>5. h = [proc |-> f.proc, at |-> f.at, session |-> f.session, page |-> page,
             found |-> n, links |-> f.links, type |-> f.type, err |-> f.err, id |-> f.id]
    BY ONLY <1>2, <1>4
  <1> QED
    BY <1>3, <1>5 DEF IsSearch, SearchOK

(* A search collects a link.                                               *)
LEMMA SearchLinksOn ==
    ASSUME NEW R, NEW f, IsSearch(f, R), NEW link
    PROVE  /\ IsSearch(SearchLinks(f, link), R)
           /\ SearchLinks(f, link).session = f.session
  <1>1. PICK links : links = Append(f.links, link)
    OBVIOUS
  <1>2. SearchLinks(f, link) = [f EXCEPT !.links = links]
    BY <1>1 DEF SearchLinks
  <1>3. [f EXCEPT !.links = links]
        = [proc |-> f.proc, at |-> f.at, session |-> f.session, page |-> f.page,
           found |-> f.found, links |-> links, type |-> f.type, err |-> f.err, id |-> f.id]
    BY DEF IsSearch, SearchOK
  <1> QED
    BY <1>2, <1>3 DEF IsSearch, SearchOK

(* A search takes the number of its error.                                 *)
LEMMA SearchNotesOn ==
    ASSUME NEW R, NEW f, IsSearch(f, R), NEW id
    PROVE  /\ IsSearch(SearchNotes(f, id), R)
           /\ SearchNotes(f, id).at = "record" /\ SearchNotes(f, id).id = id
  <1>1. PICK g : g = SearchAt(f, "record")
    OBVIOUS
  <1>2. PICK h : h = [g EXCEPT !.id = id]
    OBVIOUS
  <1>3. SearchNotes(f, id) = h
    BY <1>1, <1>2, Zenon DEF SearchNotes, SearchAt
  <1>4. g = [proc |-> f.proc, at |-> "record", session |-> f.session, page |-> f.page,
             found |-> f.found, links |-> f.links, type |-> f.type, err |-> f.err, id |-> f.id]
    BY <1>1 DEF SearchAt, IsSearch, SearchOK
  <1>5. h = [proc |-> f.proc, at |-> "record", session |-> f.session, page |-> f.page,
             found |-> f.found, links |-> f.links, type |-> f.type, err |-> f.err, id |-> id]
    BY ONLY <1>2, <1>4
  <1> QED
    BY <1>3, <1>5 DEF IsSearch, SearchOK

(* A search is about to report an error.                                   *)
LEMMA SearchFailsOn ==
    ASSUME NEW R, NEW f, IsSearch(f, R), NEW type \in ErrorType
    PROVE  IsSearch(SearchFails(f, type), R) /\ SearchFails(f, type).at = "report"
  <1>1. PICK a : a = SearchAt(f, "report")
    OBVIOUS
  <1>2. PICK b : b = [a EXCEPT !.type = type]
    OBVIOUS
  <1>3. PICK c : c = [b EXCEPT !.err = "some"]
    OBVIOUS
  <1>4. PICK d : d = [c EXCEPT !.found = 0]
    OBVIOUS
  <1>5. SearchFails(f, type) = d
    BY <1>1, <1>2, <1>3, <1>4, Zenon DEF SearchFails, SearchAt
  <1>6. a = [proc |-> f.proc, at |-> "report", session |-> f.session, page |-> f.page,
             found |-> f.found, links |-> f.links, type |-> f.type, err |-> f.err, id |-> f.id]
    BY <1>1 DEF SearchAt, IsSearch, SearchOK
  <1>7. b = [proc |-> f.proc, at |-> "report", session |-> f.session, page |-> f.page,
             found |-> f.found, links |-> f.links, type |-> type, err |-> f.err, id |-> f.id]
    BY ONLY <1>2, <1>6
  <1>8. c = [proc |-> f.proc, at |-> "report", session |-> f.session, page |-> f.page,
             found |-> f.found, links |-> f.links, type |-> type, err |-> "some", id |-> f.id]
    BY ONLY <1>3, <1>7
  <1>9. d = [proc |-> f.proc, at |-> "report", session |-> f.session, page |-> f.page,
             found |-> 0, links |-> f.links, type |-> type, err |-> "some", id |-> f.id]
    BY ONLY <1>4, <1>8
  <1> QED
    BY <1>5, <1>9 DEF IsSearch, SearchOK

-------------------------------------------------------------------------------
(* The steps of a search.                                                  *)
LEMMA SearchDoes ==
    ASSUME RunnerInv, NEW p \in Callers, NEW l0, At(p, "search", l0), UNCHANGED <<webVars, def, sessionVars>>
    PROVE  /\ Grows /\ SiteInv' /\ SessionInv'
           /\ IsSearch(Frame(p), Ready) /\ stack[p] # <<>> /\ Frame(p).at = l0
           /\ l0 \in {"fetch", "extract", "link"} => Frame(p).session \in Ready
           /\ l0 = "request" /\ answer[p].ok => answer[p].items \in Ready
           /\ \A g : IsSearch(g, Ready) /\ Goto(p, g)
                    => RunnerInv' /\ (g.at # "record" => Calm)
           /\ \A type \in ErrorType : Fails(p, type) => Kept
           /\ Panic(p) => Kept
  <1> USE DEF RunnerInv, Kept, CallsKept
  <1>1. Grows /\ SiteInv' /\ SessionInv'
    BY SiteStays DEF webVars
  <1>2. /\ stack[p] # <<>> /\ IsSearch(Frame(p), Ready) /\ Frame(p).at = l0
        /\ Told(Frame(p), answer[p], Ready, LoggedIn, Known)
    BY TopAt, SearchTop
  <1>3. l0 \in {"fetch", "extract", "link"} => Frame(p).session \in Ready
    BY <1>2 DEF IsSearch, SearchOK
  <1>4. l0 = "request" /\ answer[p].ok => answer[p].items \in Ready
    BY <1>2 DEF Told, IsSearch
  <1>5. ASSUME NEW g, IsSearch(g, Ready), Goto(p, g)
        PROVE  RunnerInv' /\ (g.at # "record" => Calm)
    <2>1. FrameOK(g, Ready, Known) /\ g.proc = "search" /\ Frame(p).proc = "search"
      BY <1>2, <1>5, SearchTop DEF IsSearch
    <2>2. FrameOK(g, Ready', Known')
      BY <1>1, <2>1, FrameStays DEF Grows
    <2>3. SameCall(g, Frame(p))
      BY <2>1 DEF SameCall, WebProc
    <2> QED
      BY <1>1, <1>2, <1>5, <2>2, <2>3, Moves DEF Recording
  <1>6. ASSUME NEW type \in ErrorType, Fails(p, type) PROVE Kept
    <2>1. Goto(p, SearchFails(Frame(p), type))
      BY <1>6 DEF Fails, SearchFails
    <2>2. IsSearch(SearchFails(Frame(p), type), Ready) /\ SearchFails(Frame(p), type).at = "report"
      BY <1>2, SearchFailsOn
    <2> QED
      BY <1>5, <2>1, <2>2
  <1>7. Panic(p) => Kept
    BY <1>1, NoCallMoves DEF Panic
  <1> QED
    BY <1>1, <1>2, <1>3, <1>4, <1>5, <1>6, <1>7

(* A search asks for an url.                                               *)
LEMMA SearchResolves ==
    ASSUME RunnerInv, NEW p \in Callers, NEW l0, At(p, "search", l0),
           UNCHANGED <<webVars, def, sessionVars>>,
           NEW g, IsSearch(g, Ready), g.at \in {"fetch", "link"}, NEW path,
           Call(p, g, ResolveCall(path))
    PROVE  Kept
  <1>1. /\ Grows /\ SiteInv' /\ SessionInv' /\ stack[p] # <<>> /\ IsSearch(Frame(p), Ready)
    BY SearchDoes
  <1>2. FrameOK(g, Ready, Known) /\ g.proc = "search" /\ Frame(p).proc = "search"
    BY <1>1, SearchTop DEF IsSearch
  <1>3. FrameOK(g, Ready', Known')
    BY <1>1, <1>2, FrameStays DEF Grows
  <1>4. SameCall(g, Frame(p))
    BY <1>2 DEF SameCall, WebProc
  <1>5. /\ ResolveCall(path) = <<ResolveFrame(path)>>
        /\ FrameOK(ResolveFrame(path), Ready', Known') /\ ResolveFrame(path).proc = "resolve"
    BY ResolveFrames
  <1>6. Waits(g, ResolveFrame(path))
    BY <1>2, <1>5 DEF Waits, WebProc
  <1> QED
    BY <1>1, <1>2, <1>3, <1>4, <1>5, <1>6, CallsInner DEF RunnerInv, Kept, CallsKept

(* The items are gone through, each with a link to be resolved.            *)
LEMMA SearchItems ==
    ASSUME RunnerInv, NEW p \in Callers, NEW l0, At(p, "search", l0),
           UNCHANGED <<webVars, def, sessionVars>>,
           NEW f, IsSearch(f, Ready), f.session \in Ready, Items(p, f)
    PROVE  Kept
  <1>1. /\ IsSearch(SearchAt(f, "link"), Ready) /\ SearchAt(f, "link").at = "link"
        /\ IsSearch(SearchAt(f, "report"), Ready) /\ SearchAt(f, "report").at = "report"
    BY SearchGoes
  <1>2. \/ Call(p, SearchAt(f, "link"), ResolveCall("item")) \/ Goto(p, SearchAt(f, "report"))
    BY DEF Items, SearchAt
  <1> QED
    BY <1>1, <1>2, SearchResolves, SearchDoes DEF Kept

(* No session is left and no page forgotten while a search goes on.        *)
LEMMA SearchKeepsInv ==
    ASSUME RunnerInv, NEW p \in Callers,
           \/ CreateRequest(p) \/ SearchFetch(p) \/ Extract(p)
           \/ LinkItem(p) \/ SearchReturns(p)
    PROVE  Kept
  <1> DEFINE f == Frame(p)
  <1>0. UNCHANGED <<webVars, def, sessionVars>>
    BY DEF CreateRequest, SearchFetch, Extract, LinkItem, SearchReturns, lower
  <1>1. CASE CreateRequest(p)
    <2>1. At(p, "search", "request")
      BY <1>1 DEF CreateRequest
    <2>2. /\ IsSearch(f, Ready) /\ (answer[p].ok => answer[p].items \in Ready)
          /\ \A type \in ErrorType : Fails(p, type) => Kept
      BY <1>0, <2>1, SearchDoes
    <2> DEFINE g == SearchWith(f, answer[p].items)
    <2>3. \/ Fails(p, "login") \/ Fails(p, "bad-target")
          \/ answer[p].ok /\ Call(p, g, ResolveCall(def.searchPath))
      BY <1>1 DEF CreateRequest, SearchWith
    <2>4. CASE answer[p].ok /\ Call(p, g, ResolveCall(def.searchPath))
      <3>1. IsSearch(g, Ready)
        BY <2>2, <2>4, SearchTakes
      <3>2. g.at = "fetch"
        <4>1. f = [proc |-> f.proc, at |-> f.at, session |-> f.session, page |-> f.page,
                   found |-> f.found, links |-> f.links, type |-> f.type, err |-> f.err,
                   id |-> f.id]
          BY <2>2 DEF IsSearch, SearchOK
        <4> QED
          BY <4>1 DEF SearchWith
      <3> QED
        BY <1>0, <2>1, <2>4, <3>1, <3>2, SearchResolves
    <2>5. "login" \in ErrorType /\ "bad-target" \in ErrorType
      BY DEF ErrorType
    <2> QED
      BY <2>2, <2>3, <2>4, <2>5
  <1>2. CASE SearchFetch(p)
    <2>1. At(p, "search", "fetch")
      BY <1>2 DEF SearchFetch
    <2>2. /\ IsSearch(f, Ready) /\ f.session \in Ready /\ stack[p] # <<>>
          /\ \A type \in ErrorType : Fails(p, type) => Kept
          /\ Grows /\ SiteInv' /\ SessionInv'
      BY <1>0, <2>1, SearchDoes
    <2> DEFINE g == SearchAt(f, "extract")
               req == Request(def.method, answer[p].url, SessionJar(f.session))
    <2>3. \/ Fails(p, "bad-target")
          \/ Call(p, g, FetchCall(Main, req))
      BY <1>2 DEF SearchFetch, SearchAt
    <2>4. CASE Call(p, g, FetchCall(Main, req))
      <3>1. IsSearch(g, Ready) /\ g.at = "extract"
        BY <2>2, SearchGoes
      <3>2. req = [method |-> req.method, url |-> req.url, jar |-> req.jar]
        BY DEF Request
      <3>3. FrameOK(g, Ready, Known) /\ g.proc = "search" /\ f.proc = "search"
        BY <2>2, <3>1, SearchTop
      <3> HIDE DEF g, req
      <3>4. FrameOK(g, Ready', Known')
        BY <2>2, <3>3, FrameStays DEF Grows
      <3>5. SameCall(g, f)
        BY <3>3 DEF SameCall, WebProc
      <3>6. \A c : c.proc \in WebProc /\ c.browser = Main => Waits(g, c)
        BY <3>1, <3>3 DEF Waits, WebProc
      <3> QED
        BY <2>2, <2>4, <3>2, <3>4, <3>5, <3>6, BrowserNumbers, CallsWeb DEF RunnerInv, Kept, CallsKept
    <2>5. "bad-target" \in ErrorType
      BY DEF ErrorType
    <2> QED
      BY <2>2, <2>3, <2>4, <2>5
  <1>3. CASE Extract(p)
    <2>1. At(p, "search", "extract")
      BY <1>3 DEF Extract
    <2>2. /\ IsSearch(f, Ready) /\ f.session \in Ready
          /\ \A type \in ErrorType : Fails(p, type) => Kept
          /\ Panic(p) => Kept
      BY <1>0, <2>1, SearchDoes
    <2>3. \/ Fails(p, "cant-fetch-content") \/ Panic(p)
          \/ \E n : Items(p, SearchReads(f, answer[p].page, n))
      BY <1>3 DEF Extract, SearchReads
    <2>4. ASSUME NEW n, Items(p, SearchReads(f, answer[p].page, n)) PROVE Kept
      <3> DEFINE g == SearchReads(f, answer[p].page, n)
      <3>1. IsSearch(g, Ready) /\ g.session \in Ready
        BY <2>2, SearchReadsOn
      <3> QED
        BY <1>0, <2>1, <2>4, <3>1, SearchItems
    <2>5. "cant-fetch-content" \in ErrorType
      BY DEF ErrorType
    <2> QED
      BY <2>2, <2>3, <2>4, <2>5
  <1>4. CASE LinkItem(p)
    <2> DEFINE g == SearchLinks(f, answer[p].url.link)
    <2>1. At(p, "search", "link") /\ Items(p, g)
      BY <1>4 DEF LinkItem, SearchLinks
    <2>2. IsSearch(f, Ready) /\ f.session \in Ready
      BY <1>0, <2>1, SearchDoes
    <2>3. IsSearch(g, Ready) /\ g.session \in Ready
      BY <2>2, SearchLinksOn
    <2> HIDE DEF g
    <2> QED
      BY <1>0, <2>1, <2>3, SearchItems
  <1>5. CASE SearchReturns(p)
    <2>1. PICK v : At(p, "search", "record") /\ Return(p, v)
      BY <1>5 DEF SearchReturns
    <2>2. /\ Grows /\ SiteInv' /\ SessionInv' /\ stack[p] # <<>> /\ f.proc = "search"
      BY <1>0, <2>1, SearchDoes, SearchTop
    <2>3. Gives(Frame(p), v, Ready', LoggedIn', Known')
      BY <2>2 DEF Gives, WebProc
    <2> QED
      BY <2>1, <2>2, <2>3, Returns DEF RunnerInv, Kept, CallsKept
  <1> QED
    BY <1>1, <1>2, <1>3, <1>4, <1>5

(* The number of the next error is taken, and nothing else changes.        *)
LEMMA NoteKeepsInv ==
    ASSUME RunnerInv, NEW p \in Callers, NoteError(p)
    PROVE  /\ RunnerInv' /\ \A q \in Callers \ {p} : stack'[q] = stack[q]
           /\ stack[p] # <<>> /\ stack'[p] # <<>>
           /\ stack'[p][1].id = ErrorId
  <1> DEFINE f == Frame(p)
             g == SearchNotes(f, ErrorId)
  <1>1. At(p, "search", "report") /\ Goto(p, g) /\ UNCHANGED <<webVars, def, sessionVars>>
    BY DEF NoteError, SearchNotes, lower
  <1>2. IsSearch(f, Ready) /\ stack[p] # <<>>
    BY <1>1, SearchDoes
  <1>3. IsSearch(g, Ready) /\ g.id = ErrorId
    BY <1>2, SearchNotesOn
  <1> HIDE DEF g
  <1>4. RunnerInv'
    BY <1>1, <1>3, SearchDoes
  <1>5. stack' = [stack EXCEPT ![p] = <<g>> \o Tail(stack[p])]
    BY <1>1 DEF Goto, Frames
  <1>6. /\ IsStack(<<g>> \o Tail(stack[p])) /\ Len(<<g>> \o Tail(stack[p])) > 0
        /\ (<<g>> \o Tail(stack[p]))[1] = g
    <2>1. IsStack(stack[p])
      BY DEF RunnerInv, CallsInv, CallOK, StackOK
    <2> QED
      BY <1>2, <2>1, Resumed
  <1>7. stack'[p] = <<g>> \o Tail(stack[p]) /\ \A q \in Callers \ {p} : stack'[q] = stack[q]
    BY <1>5 DEF RunnerInv, CallsInv
  <1>8. stack'[p] # <<>>
    <2>1. PICK s : s = <<g>> \o Tail(stack[p])
      OBVIOUS
    <2>2. IsStack(s) /\ Len(s) > 0
      BY <1>6, <2>1
    <2>3. s # <<>>
      BY <2>2 DEF IsStack
    <2> QED
      BY <1>7, <2>1, <2>3
  <1> QED
    BY <1>2, <1>3, <1>4, <1>6, <1>7, <1>8

-------------------------------------------------------------------------------
(* The frames of a health check and of a ratio request.                    *)
OtherAt(f, l) == [f EXCEPT !.at = l]

(* A health check or a ratio request goes on somewhere else.               *)
LEMMA OtherGoes ==
    ASSUME NEW R, NEW K, NEW f, f.proc \in {"health", "ratio"}, FrameOK(f, R, K), NEW l
    PROVE  FrameOK(OtherAt(f, l), R, K) /\ SameCall(OtherAt(f, l), f)
           /\ OtherAt(f, l).proc = f.proc
  <1>1. f = [proc |-> f.proc, at |-> f.at]
    BY DEF FrameOK, WebProc
  <1>2. OtherAt(f, l) = [proc |-> f.proc, at |-> l]
    BY <1>1 DEF OtherAt
  <1> QED
    BY <1>2 DEF FrameOK, SameCall, WebProc

(* What a health check or a ratio request does next.                       *)
LEMMA OtherDoes ==
    ASSUME RunnerInv, NEW p \in Callers, NEW proc \in {"health", "ratio"}, NEW l0,
           At(p, proc, l0), UNCHANGED <<webVars, def, sessionVars>>, NEW l
    PROVE  LET f == Frame(p) IN
           /\ f.proc = proc
           /\ \A v : Return(p, v) => Kept
           /\ Panic(p) => Kept
           /\ \A req : /\ req = [method |-> req.method, url |-> req.url, jar |-> req.jar]
                       /\ proc = "ratio" /\ Call(p, OtherAt(f, l), FetchCall(Main, req))
                       => Kept
           /\ \A path : proc = "ratio" /\ Call(p, OtherAt(f, l), ResolveCall(path)) => Kept
           /\ proc = "ratio" /\ Call(p, OtherAt(f, l), AcquireCall) => Kept
           /\ proc = "health" /\ Call(p, OtherAt(f, l), SearchCall) => Kept
  <1> DEFINE f == Frame(p)
             g == OtherAt(f, l)
  <1> USE DEF RunnerInv, Kept, CallsKept
  <1>1. Grows /\ SiteInv' /\ SessionInv'
    BY SiteStays DEF webVars
  <1>2. stack[p] # <<>> /\ f.proc = proc /\ FrameOK(f, Ready, Known)
    BY TopAt
  <1>3. FrameOK(f, Ready', Known')
    BY <1>1, <1>2, FrameStays DEF Grows
  <1> HIDE DEF f
  <1>4. FrameOK(g, Ready', Known') /\ SameCall(g, f) /\ g.proc = proc
    BY <1>2, <1>3, OtherGoes
  <1> HIDE DEF g
  <1>5. ASSUME NEW v, Return(p, v) PROVE Kept
    <2>1. Gives(Frame(p), v, Ready', LoggedIn', Known')
      BY <1>2 DEF Gives, WebProc, f
    <2> QED
      BY <1>1, <1>2, <1>5, <2>1, Returns
  <1>6. Panic(p) => Kept
    BY <1>1, NoCallMoves DEF Panic
  <1>7. ASSUME NEW req, req = [method |-> req.method, url |-> req.url, jar |-> req.jar],
               proc = "ratio", Call(p, g, FetchCall(Main, req))
        PROVE  Kept
    <2>1. \A c : c.proc \in WebProc /\ c.browser = Main => Waits(g, c)
      BY <1>4, <1>7 DEF Waits, WebProc
    <2> QED
      BY <1>1, <1>2, <1>4, <1>7, <2>1, BrowserNumbers, CallsWeb DEF f
  <1>8. ASSUME NEW path, proc = "ratio", Call(p, g, ResolveCall(path)) PROVE Kept
    <2>1. /\ ResolveCall(path) = <<ResolveFrame(path)>>
          /\ FrameOK(ResolveFrame(path), Ready', Known') /\ ResolveFrame(path).proc = "resolve"
      BY ResolveFrames
    <2>2. Waits(g, ResolveFrame(path))
      BY <1>4, <1>8, <2>1 DEF Waits, WebProc
    <2> QED
      BY <1>1, <1>2, <1>4, <1>8, <2>1, <2>2, CallsInner DEF f, WebProc
  <1>9. ASSUME proc = "ratio", Call(p, g, AcquireCall) PROVE Kept
    <2>1. /\ AcquireCall = <<AcquireFrame>>
          /\ FrameOK(AcquireFrame, Ready', Known') /\ AcquireFrame.proc = "acquire"
      BY AcquireFrames
    <2>2. Waits(g, AcquireFrame)
      BY <1>4, <1>9, <2>1 DEF Waits, WebProc
    <2> QED
      BY <1>1, <1>2, <1>4, <1>9, <2>1, <2>2, CallsInner DEF f, WebProc
  <1>10. ASSUME proc = "health", Call(p, g, SearchCall) PROVE Kept
    <2>1. /\ SearchCall = <<AcquireFrame>> \o <<SearchFrame>>
          /\ FrameOK(AcquireFrame, Ready', Known') /\ AcquireFrame.proc = "acquire"
      BY AcquireFrames, SearchFirst
    <2>2. /\ FrameOK(SearchFrame, Ready', Known') /\ SearchFrame.proc = "search"
          /\ SearchFrame.at = "request"
      BY SearchFirst, SearchTop
    <2>3. Waits(g, SearchFrame) /\ Waits(SearchFrame, AcquireFrame)
      BY <1>4, <1>10, <2>1, <2>2 DEF Waits, WebProc
    <2> QED
      BY <1>1, <1>2, <1>4, <1>10, <2>1, <2>2, <2>3, CallsTwo DEF f
  <1> QED
    BY <1>2, <1>5, <1>6, <1>7, <1>8, <1>9, <1>10 DEF f, g

(* No step of a health check or a ratio request breaks the invariant.      *)
LEMMA OtherKeepsInv ==
    ASSUME RunnerInv, NEW p \in Callers,
           \/ HealthChecks(p) \/ HealthJudges(p)
           \/ RatioText(p) \/ RatioResolve(p) \/ RatioFetch(p) \/ RatioMatch(p)
    PROVE  Kept
  <1> DEFINE f == Frame(p)
  <1>0. UNCHANGED <<webVars, def, sessionVars>>
    BY DEF HealthChecks, HealthJudges, RatioText, RatioResolve, RatioFetch, RatioMatch, lower
  <1>1. CASE HealthChecks(p)
    <2>1. At(p, "health", "check")
      BY <1>1 DEF HealthChecks
    <2>2. (\E v : Return(p, v)) \/ Call(p, OtherAt(f, "judge"), SearchCall)
      BY <1>1 DEF HealthChecks, OtherAt
    <2> QED
      BY <1>0, <2>1, <2>2, OtherDoes
  <1>2. CASE HealthJudges(p)
    <2>1. At(p, "health", "judge") /\ \E v : Return(p, v)
      BY <1>2 DEF HealthJudges
    <2> QED
      BY <1>0, <2>1, OtherDoes
  <1>3. CASE RatioText(p)
    <2>1. At(p, "ratio", "text")
      BY <1>3 DEF RatioText
    <2>2. (\E v : Return(p, v)) \/ Call(p, OtherAt(f, "resolve"), AcquireCall)
      BY <1>3 DEF RatioText, OtherAt
    <2> QED
      BY <1>0, <2>1, <2>2, OtherDoes
  <1>4. CASE RatioResolve(p)
    <2>1. At(p, "ratio", "resolve")
      BY <1>4 DEF RatioResolve
    <2>2. (\E v : Return(p, v)) \/ Call(p, OtherAt(f, "fetch"), ResolveCall("ratio"))
      BY <1>4 DEF RatioResolve, OtherAt
    <2> QED
      BY <1>0, <2>1, <2>2, OtherDoes
  <1>5. CASE RatioFetch(p)
    <2> DEFINE req == Request("get", answer[p].url, Main)
    <2>1. At(p, "ratio", "fetch")
      BY <1>5 DEF RatioFetch
    <2>2. (\E v : Return(p, v)) \/ Call(p, OtherAt(f, "match"), FetchCall(Main, req))
      BY <1>5 DEF RatioFetch, OtherAt
    <2>3. req = [method |-> req.method, url |-> req.url, jar |-> req.jar]
      BY DEF Request
    <2> HIDE DEF req
    <2> QED
      BY <1>0, <2>1, <2>2, <2>3, OtherDoes
  <1>6. CASE RatioMatch(p)
    <2>1. At(p, "ratio", "match")
      BY <1>6 DEF RatioMatch
    <2>2. (\E v : Return(p, v)) \/ Panic(p)
      BY <1>6 DEF RatioMatch
    <2> QED
      BY <1>0, <2>1, <2>2, OtherDoes
  <1> QED
    BY <1>1, <1>2, <1>3, <1>4, <1>5, <1>6

-------------------------------------------------------------------------------
(* A first call.                                                           *)
LEMMA OneFrame ==
    ASSUME NEW R, NEW K, NEW c, FrameOK(c, R, K)
    PROVE  StackOK(<<c>>, R, K) /\ <<c>> # <<>> /\ <<c>>[1] = c
  <1>1. <<c>> \in Seq({c}) /\ Len(<<c>>) = 1 /\ <<c>>[1] = c
    OBVIOUS
  <1>2. IsStack(<<c>>)
    BY <1>1 DEF IsStack
  <1>3. \A i \in 1 .. Len(<<c>>) : FrameOK(<<c>>[i], R, K)
    BY <1>1
  <1>4. \A i \in 1 .. Len(<<c>>) - 1 : Waits(<<c>>[i + 1], <<c>>[i])
    BY <1>1
  <1> QED
    BY <1>1, <1>2, <1>3, <1>4 DEF StackOK

(* A new call has nothing to answer for yet.                               *)
LEMMA StartKeepsInv ==
    ASSUME RunnerInv, NEW p \in Callers, SearchStarts(p) \/ HealthStarts(p) \/ RatioStarts(p)
    PROVE  Kept
  <1> USE DEF RunnerInv, Kept, CallsKept
  <1>1. Grows /\ SiteInv' /\ SessionInv'
    BY SiteStays DEF SearchStarts, HealthStarts, RatioStarts, Start, lower, webVars
  <1>2. ASSUME NEW call, Start(p, call), StackOK(call, Ready', Known'), ~Recorder(call) PROVE Kept
    <2>1. stack' = [stack EXCEPT ![p] = call] /\ answer' = [answer EXCEPT ![p] = NoAnswer]
      BY <1>2 DEF Start
    <2>2. CallOK(call, NoAnswer, Ready', LoggedIn', Known')
      BY <1>2, NothingTold DEF CallOK
    <2> QED
      BY <1>1, <1>2, <2>1, <2>2, Changed
  <1>3. /\ StackOK(<<HealthCall>>, Ready', Known') /\ StackOK(<<RatioCall>>, Ready', Known')
        /\ ~Recorder(<<HealthCall>>) /\ ~Recorder(<<RatioCall>>)
    <2>1. /\ FrameOK(HealthCall, Ready', Known') /\ FrameOK(RatioCall, Ready', Known')
          /\ ~Recording(HealthCall) /\ ~Recording(RatioCall)
      BY DEF FrameOK, HealthCall, RatioCall, Recording
    <2> QED
      BY <2>1, OneFrame DEF Recorder
  <1>4. StackOK(SearchCall, Ready', Known') /\ ~Recorder(SearchCall)
    <2>1. /\ FrameOK(SearchFrame, Ready', Known') /\ SearchFrame.proc = "search"
          /\ SearchFrame.at = "request"
      BY SearchFirst, SearchTop
    <2>2. /\ SearchCall = <<AcquireFrame>> \o <<SearchFrame>>
          /\ FrameOK(AcquireFrame, Ready', Known') /\ AcquireFrame.proc = "acquire"
      BY AcquireFrames, SearchFirst
    <2>3. Waits(SearchFrame, AcquireFrame)
      BY <2>1, <2>2 DEF Waits, WebProc
    <2>4. PICK s : s = <<SearchFrame>>
      OBVIOUS
    <2>5. StackOK(s, Ready', Known') /\ s # <<>> /\ s[1] = SearchFrame
      BY <2>1, <2>4, OneFrame
    <2>6. Waits(s[1], AcquireFrame)
      BY <2>3, <2>5
    <2>7. StackOK(<<AcquireFrame>> \o s, Ready', Known') /\ (<<AcquireFrame>> \o s)[1] = AcquireFrame
      BY <2>2, <2>5, <2>6, CallsOne
    <2> QED
      BY <2>2, <2>4, <2>7 DEF Recorder, Recording
  <1> QED
    BY <1>2, <1>3, <1>4 DEF SearchStarts, HealthStarts, RatioStarts

(* Links come and go, and what is remembered does: no call notices at once. *)
LEMMA ChangeKeepsInv ==
    ASSUME RunnerInv, LinkChanges \/ AnswerExpires \/ DayPasses \/ TwoDaysPass
    PROVE  Kept
  <1>1. UNCHANGED <<stack, answer, browser, accepts, siteUsers, def, sessionVars>>
    BY DEF LinkChanges, AnswerExpires, DayPasses, TwoDaysPass, SiteChanges, callVars, webVars, lower
  <1>2. Grows /\ SiteInv' /\ SessionInv'
    BY <1>1, SiteStays DEF RunnerInv, Kept, CallsKept
  <1> QED
    BY <1>1, <1>2, NoCallMoves DEF RunnerInv, Kept, CallsKept

(* Every step of a call but one starts no report.                          *)
LEMMA StepKeepsInv ==
    ASSUME RunnerInv, NEW p \in Callers, Step(p), ~NoteError(p)
    PROVE  Kept
  <1>1. CASE WebStep(p) /\ UNCHANGED <<def, sessionVars, runnerVars, history>>
    BY <1>1, WebKeepsInv
  <1>2. CASE ResolveStep(p) /\ UNCHANGED <<sessionVars, runnerVars, history>>
    BY <1>2, ResolveKeepsInv
  <1>3. CASE SessionStep(p)
    BY <1>3, SessionKeepsInv
  <1>4. CASE CreateRequest(p) \/ SearchFetch(p) \/ Extract(p) \/ LinkItem(p) \/ SearchReturns(p)
    BY <1>4, SearchKeepsInv
  <1>5. CASE \/ HealthChecks(p) \/ HealthJudges(p)
             \/ RatioText(p) \/ RatioResolve(p) \/ RatioFetch(p) \/ RatioMatch(p)
    BY <1>5, OtherKeepsInv
  <1> QED
    BY <1>1, <1>2, <1>3, <1>4, <1>5 DEF Step

(* Nobody has called anything at first, and no session is logged in.       *)
LEMMA RunnerInvInit == Init => RunnerInv
  <1> SUFFICES ASSUME Init PROVE RunnerInv
    OBVIOUS
  <1>1. CallsInv
    <2>1. StackOK(<<>>, Ready, Known)
      <3>1. <<>> \in Seq({}) /\ Len(<<>>) = 0
        OBVIOUS
      <3> QED
        BY <3>1 DEF StackOK, IsStack
    <2> QED
      BY <2>1 DEF Init, CallsInv, CallOK
  <1>2. SiteInv
    BY DEF Init, SiteInv, PageOf, NoPage, Sessions, Browsers
  <1>3. SessionInv
    BY SessionAssumption DEF Init, SessionInv, NewSession, LoggedIn
  <1> QED
    BY <1>1, <1>2, <1>3 DEF RunnerInv

(* No step breaks the invariant.                                           *)
LEMMA RunnerInvStep == RunnerInv /\ [Next]_vars => RunnerInv'
  <1> SUFFICES ASSUME RunnerInv, [Next]_vars PROVE RunnerInv'
    OBVIOUS
  <1>1. CASE UNCHANGED vars
    <2>1. UNCHANGED <<stack, answer, browser, accepts, siteUsers, def, sessionVars>>
      BY <1>1 DEF vars, callVars, lower, webVars
    <2>2. Grows /\ SiteInv' /\ SessionInv'
      BY <2>1, SiteStays DEF RunnerInv
    <2> QED
      BY <2>1, <2>2, NoCallMoves DEF RunnerInv
  <1>2. ASSUME NEW p \in Callers, Step(p) PROVE RunnerInv'
    BY <1>2, StepKeepsInv, NoteKeepsInv DEF Kept
  <1> QED
    BY <1>1, <1>2, StartKeepsInv, ChangeKeepsInv DEF Next, Kept

(* A session whose login is tested with a selector is logged in only when  *)
(* the site accepts the credentials and knows the session's cookies, for   *)
(* any number of sessions and of searches that log them in at once         *)
(* (browsingSession.go:139,272).                                           *)
THEOREM OnlyRealLogins == Spec => []TestedLoginsAreReal
  <1>1. RunnerInv => TestedLoginsAreReal
    BY DEF RunnerInv, SessionInv, SiteInv, TestedLoginsAreReal, LoggedIn, Known
  <1> QED
    BY <1>1, RunnerInvInit, RunnerInvStep, PTL DEF Spec

(* Of the frames of a caller only one is a search's.                       *)
LEMMA OneSearch ==
    ASSUME NEW R, NEW K, NEW s, StackOK(s, R, K), NEW i \in 1 .. Len(s), NEW j \in 1 .. Len(s),
           s[i].proc = "search", s[j].proc = "search"
    PROVE  i = j
  <1>1. Len(s) \in Nat
    <2>1. PICK S : s \in Seq(S)
      BY DEF StackOK, IsStack
    <2> QED
      BY <2>1
  <1>2. ASSUME NEW n \in 1 .. Len(s), s[n].proc = "search", n # Len(s)
        PROVE  n = Len(s) - 1 /\ s[Len(s)].proc = "health"
    <2>1. n \in 1 .. Len(s) - 1 /\ s[n + 1].proc = "health"
      BY <1>1, <1>2 DEF StackOK, Waits
    <2>2. CASE n + 1 = Len(s)
      BY <1>1, <2>1, <2>2
    <2>3. CASE n + 1 # Len(s)
      <3>1. n + 1 \in 1 .. Len(s) - 1
        BY <1>1, <2>1, <2>3
      <3> QED
        BY <2>1, <3>1 DEF StackOK, Waits
    <2> QED
      BY <2>2, <2>3
  <1>3. i = Len(s) \/ (i = Len(s) - 1 /\ s[Len(s)].proc = "health")
    BY <1>2
  <1>4. j = Len(s) \/ (j = Len(s) - 1 /\ s[Len(s)].proc = "health")
    BY <1>2
  <1> QED
    BY <1>3, <1>4

(* A search never fetches a page with a session that still has to log in,  *)
(* whoever else logs it in or acquires it (runner.go:276,                  *)
(* browsingSession.go:79).                                                 *)
THEOREM SearchesHaveSession == Spec => []FetchesWithSession
  <1>1. RunnerInv => FetchesWithSession
    <2> SUFFICES ASSUME RunnerInv, NEW p \in Callers, stack[p] # <<>>,
                        NEW k \in 1 .. Len(stack[p]), stack[p][k].proc = "search",
                        stack[p][k].at \in {"extract", "link"}
                 PROVE  LET i == CHOOSE i \in 1 .. Len(stack[p]) : stack[p][i].proc = "search"
                        IN  sessionState[stack[p][i].session] \in {"NoLoginRequired", "LoggedIn"}
      BY DEF FetchesWithSession
    <2> DEFINE i == CHOOSE i \in 1 .. Len(stack[p]) : stack[p][i].proc = "search"
    <2>1. i \in 1 .. Len(stack[p]) /\ stack[p][i].proc = "search"
      OBVIOUS
    <2> HIDE DEF i
    <2>2. StackOK(stack[p], Ready, Known)
      BY DEF RunnerInv, CallsInv, CallOK
    <2>3. i = k
      BY <2>1, <2>2, OneSearch
    <2>4. FrameOK(stack[p][k], Ready, Known)
      BY <2>2 DEF StackOK
    <2>5. stack[p][k].session \in Ready
      BY <2>4 DEF FrameOK, SearchOK, WebProc
    <2> QED
      BY <2>3, <2>5 DEF i, RunnerInv, SessionInv, Ready
  <1> QED
    BY <1>1, RunnerInvInit, RunnerInvStep, PTL DEF Spec

-------------------------------------------------------------------------------
(* The errors of an index while nothing upsets them: their numbers are     *)
(* those of the reports, and at most one search has taken the next one.    *)
Shown ==
    /\ errors = [size |-> ErrorCap, list |-> errors.list, items |-> errors.items]
    /\ errors.list \in Seq(Nat) /\ Len(errors.list) = reports
    /\ DOMAIN errors.items = 0 .. reports - 1
    /\ \A k \in 0 .. reports - 1 : errors.items[k] # NoText

ErrorInv ==
    /\ reports \in Nat
    /\ ~upset => \A p, q \in Callers : Recorder(stack[p]) /\ Recorder(stack[q]) => p = q
    /\ ~upset /\ reports <= ErrorCap =>
         Shown /\ \A p \in Callers : Recorder(stack[p]) => stack[p][1].id = reports

(* An error that is stored under the next number, with room for it.        *)
LEMMA StoredNext ==
    ASSUME NEW c, NEW n \in Nat, c = [size |-> ErrorCap, list |-> c.list, items |-> c.items],
           c.list \in Seq(Nat), Len(c.list) = n, DOMAIN c.items = 0 .. n - 1,
           n + 1 <= ErrorCap, NEW v
    PROVE  LET d == LruAdd(c, n, v) IN
           /\ d = [size |-> ErrorCap, list |-> d.list, items |-> d.items]
           /\ d.list \in Seq(Nat) /\ Len(d.list) = n + 1
           /\ DOMAIN d.items = 0 .. n
           /\ d.items[n] = v /\ \A k \in 0 .. n - 1 : d.items[k] = c.items[k]
  <1> DEFINE more == [x \in DOMAIN c.items \cup {n} |-> IF x = n THEN v ELSE c.items[x]]
             longer == <<n>> \o c.list
  <1>1. longer \in Seq(Nat) /\ Len(longer) = n + 1
    OBVIOUS
  <1>2. /\ DOMAIN more = 0 .. n /\ more[n] = v
        /\ \A k \in 0 .. n - 1 : more[k] = c.items[k]
    <2>1. DOMAIN c.items \cup {n} = 0 .. n /\ n \notin 0 .. n - 1
      OBVIOUS
    <2> QED
      BY <2>1
  <1>3. PICK e : e = [c EXCEPT !.list = longer]
    OBVIOUS
  <1>4. PICK d : d = [e EXCEPT !.items = more]
    OBVIOUS
  <1>5. [c EXCEPT !.list = longer, !.items = more] = d
    BY <1>3, <1>4, Zenon
  <1>6. n \notin LruKeys(c)
    BY DEF LruKeys
  <1>7. LruAdd(c, n, v) = IF Len(d.list) > c.size THEN RemoveOldest(d) ELSE d
    BY <1>5, <1>6 DEF LruAdd
  <1> HIDE DEF longer, more
  <1>8. e = [size |-> ErrorCap, list |-> longer, items |-> c.items]
    BY <1>3
  <1>9. d = [size |-> ErrorCap, list |-> longer, items |-> more]
    BY ONLY <1>4, <1>8
  <1>10. ~(Len(d.list) > c.size)
    BY <1>1, <1>9, RunnerAssumption
  <1>11. LruAdd(c, n, v) = d
    BY <1>7, <1>10
  <1> QED
    BY <1>1, <1>2, <1>9, <1>11

(* There are no errors at first.                                           *)
LEMMA ErrorInit == Init => ErrorInv
  <1> SUFFICES ASSUME Init PROVE ErrorInv
    OBVIOUS
  <1>1. \A p \in Callers : ~Recorder(stack[p])
    BY DEF Init, Recorder
  <1>2. Shown
    BY DEF Init, Shown, NewLRU
  <1> QED
    BY <1>1, <1>2 DEF Init, ErrorInv

(* Nothing of the errors changes, and nobody starts a report.              *)
LEMMA ErrorsStay ==
    ASSUME ErrorInv, Calm, UNCHANGED <<errors, reports>>, upset => upset'
    PROVE  ErrorInv'
  <1>1. \A p \in Callers : Recorder(stack'[p]) => stack'[p] = stack[p]
    BY DEF Calm
  <1>2. Shown => Shown'
    BY DEF Shown
  <1> QED
    BY <1>1, <1>2 DEF ErrorInv

(* No step loses an error, unless something upset the log.                 *)
LEMMA ErrorStep == RunnerInv /\ ErrorInv /\ [Next]_vars => ErrorInv'
  <1> SUFFICES ASSUME RunnerInv, ErrorInv, [Next]_vars PROVE ErrorInv'
    OBVIOUS
  <1>1. CASE UNCHANGED <<stack, errors, reports, upset>>
    BY <1>1, ErrorsStay DEF Calm
  <1>2. ASSUME NEW p \in Callers, NoteError(p) PROVE ErrorInv'
    <2>1. /\ At(p, "search", "report") /\ UNCHANGED <<errors, reports>>
          /\ upset' = (upset \/ \E q \in Callers : At(q, "search", "record"))
      BY <1>2 DEF NoteError, runnerVars
    <2>2. /\ \A q \in Callers \ {p} : stack'[q] = stack[q]
          /\ stack'[p][1].id = ErrorId
      BY <1>2, NoteKeepsInv
    <2>3. ASSUME ~upset' PROVE ~upset /\ \A q \in Callers : ~Recorder(stack[q])
      <3>1. ASSUME NEW q \in Callers, Recorder(stack[q]) PROVE At(q, "search", "record")
        <4>1. Frame(q) = stack[q][1]
          BY <3>1, TopOK DEF RunnerInv, Recorder
        <4> QED
          BY <2>1, <3>1, <4>1 DEF At, Recorder, Recording
      <3> QED
        BY <2>1, <2>3, <3>1
    <2>4. ASSUME ~upset', NEW q \in Callers, Recorder(stack'[q]) PROVE q = p
      BY <2>2, <2>3, <2>4
    <2>5. ASSUME ~upset', reports <= ErrorCap
          PROVE  Shown' /\ stack'[p][1].id = reports'
      <3>1. Shown /\ reports' = reports
        BY <2>1, <2>3, <2>5 DEF ErrorInv
      <3> QED
        BY <2>1, <2>2, <3>1 DEF Shown, ErrorId
    <2> QED
      BY <2>1, <2>4, <2>5 DEF ErrorInv
  <1>3. ASSUME NEW p \in Callers, SearchReturns(p) PROVE ErrorInv'
    <2> DEFINE f == Frame(p)
               report == NewError(f.type, f.err)
    <2>1. PICK v : /\ At(p, "search", "record") /\ Return(p, v)
                   /\ Record(f.id, report) /\ reports' = reports + 1 /\ upset' = upset
      BY <1>3 DEF SearchReturns
    <2>2. /\ stack[p] # <<>> /\ f = stack[p][1] /\ Recorder(stack[p])
          /\ FrameOK(f, Ready, Known)
      BY <2>1, TopAt DEF RunnerInv, Recorder, Recording
    <2>3. Calm /\ ~Recorder(stack'[p])
      <3>1. UNCHANGED <<browser, accepts, siteUsers, def, sessionVars>>
        BY <1>3 DEF SearchReturns, lower, webVars
      <3>2. Grows
        BY <3>1, SiteStays DEF RunnerInv
      <3>3. Gives(Frame(p), v, Ready', LoggedIn', Known')
        BY <2>1, <2>2 DEF Gives, WebProc, At
      <3> QED
        BY <2>1, <2>2, <3>2, <3>3, Returns DEF RunnerInv
    <2>4. report # NoText
      <3>1. f.type \in ErrorType
        BY <2>1, <2>2 DEF FrameOK, SearchOK, WebProc, At
      <3> QED
        BY <3>1 DEF ErrorType, NewError, NoText
    <2> HIDE DEF report
    <2>5. ASSUME ~upset', NEW q \in Callers PROVE ~Recorder(stack'[q])
      <3>1. Recorder(stack'[q]) => stack'[q] = stack[q]
        BY <2>3 DEF Calm
      <3>2. Recorder(stack[q]) => q = p
        BY <2>1, <2>2, <2>5 DEF ErrorInv
      <3> QED
        BY <2>3, <3>1, <3>2
    <2>6. ASSUME ~upset', reports' <= ErrorCap PROVE Shown'
      <3>1. reports \in Nat /\ ErrorCap \in Nat
        BY RunnerAssumption DEF ErrorInv
      <3>2. reports <= ErrorCap /\ reports + 1 <= ErrorCap
        BY <2>1, <2>6, <3>1
      <3>3. Shown /\ f.id = reports
        BY <2>1, <2>2, <2>6, <3>2 DEF ErrorInv
      <3>4. errors' = LruAdd(errors, reports, report)
        BY <2>1, <3>3 DEF Record
      <3>5. /\ errors' = [size |-> ErrorCap, list |-> errors'.list, items |-> errors'.items]
            /\ errors'.list \in Seq(Nat) /\ Len(errors'.list) = reports + 1
            /\ DOMAIN errors'.items = 0 .. reports
            /\ errors'.items[reports] = report
            /\ \A k \in 0 .. reports - 1 : errors'.items[k] = errors.items[k]
        BY <3>1, <3>2, <3>3, <3>4, StoredNext DEF Shown
      <3>6. \A k \in 0 .. reports : errors'.items[k] # NoText
        <4> TAKE k \in 0 .. reports
        <4>1. CASE k = reports
          BY <2>4, <3>5, <4>1
        <4>2. CASE k # reports
          <5>1. k \in 0 .. reports - 1
            BY <3>1, <4>2
          <5> QED
            BY <3>3, <3>5, <5>1 DEF Shown
        <4> QED
          BY <4>1, <4>2
      <3>7. reports' - 1 = reports
        BY <2>1, <3>1
      <3> QED
        BY <2>1, <3>5, <3>6, <3>7 DEF Shown
    <2> QED
      BY <2>1, <2>5, <2>6 DEF ErrorInv
  <1>4. CASE TwoDaysPass
    <2>1. upset' /\ reports' = reports
      BY <1>4 DEF TwoDaysPass, Change
    <2> QED
      BY <2>1 DEF ErrorInv
  <1>5. ASSUME NEW p \in Callers, Step(p), ~NoteError(p), ~SearchReturns(p) PROVE ErrorInv'
    <2>1. UNCHANGED <<errors, reports, upset>>
      BY <1>5 DEF Step, CreateRequest, SearchFetch, Extract, LinkItem, HealthChecks, HealthJudges,
             RatioText, RatioResolve, RatioFetch, RatioMatch, runnerVars, history
    <2>2. Calm
      BY <1>5, StepKeepsInv DEF Kept
    <2> QED
      BY <2>1, <2>2, ErrorsStay
  <1>6. CASE \E p \in Callers : SearchStarts(p) \/ HealthStarts(p) \/ RatioStarts(p)
    <2>1. UNCHANGED <<errors, reports, upset>>
      BY <1>6 DEF SearchStarts, HealthStarts, RatioStarts, Start, runnerVars
    <2>2. Calm
      BY <1>6, StartKeepsInv DEF Kept
    <2> QED
      BY <2>1, <2>2, ErrorsStay
  <1>7. CASE LinkChanges \/ AnswerExpires \/ DayPasses
    <2>1. UNCHANGED <<stack, errors, reports, upset>>
      BY <1>7 DEF LinkChanges, AnswerExpires, DayPasses, Change, SiteChanges, callVars, runnerVars
    <2> QED
      BY <1>1, <2>1
  <1> QED
    BY <1>1, <1>2, <1>3, <1>4, <1>5, <1>6, <1>7 DEF Next, vars, callVars, runnerVars, history

(* As long as the log of errors is not full, no error expired and no two   *)
(* searches reported at once, the errors shown are those reported, each    *)
(* with its text, for a log of any size (statusReporter.go:39,44).         *)
THEOREM ReportedIsShown == Spec => []ErrorsAreShown
  <1>1. ErrorInv => ErrorsAreShown
    <2> SUFFICES ASSUME ErrorInv, ~upset, reports <= ErrorCap
                 PROVE  Len(GetErrors) = reports /\ \A i \in 1 .. reports : GetErrors[i] # NoText
      BY DEF ErrorsAreShown
    <2>1. Shown /\ reports \in Nat
      BY DEF ErrorInv
    <2>2. GetErrors = [i \in 1 .. reports |-> IF i - 1 \in LruKeys(errors) THEN errors.items[i - 1]
                                                                         ELSE NoText]
      BY <2>1 DEF Shown, GetErrors
    <2>3. Len(GetErrors) = reports
      BY <2>1, <2>2
    <2>4. ASSUME NEW i \in 1 .. reports PROVE GetErrors[i] # NoText
      <3>1. i - 1 \in 0 .. reports - 1
        BY <2>1
      <3>2. GetErrors[i] = errors.items[i - 1]
        BY <2>1, <2>2, <3>1 DEF Shown, LruKeys
      <3> QED
        BY <2>1, <3>1, <3>2 DEF Shown
    <2> QED
      BY <2>3, <2>4
  <1> QED
    BY <1>1, RunnerInvInit, RunnerInvStep, ErrorInit, ErrorStep, PTL DEF Spec

-------------------------------------------------------------------------------
(* A call that no other overlaps. Its world: the definition, the sessions  *)
(* whose pages must show their user, whether anything changed meanwhile,   *)
(* and of the urls of the resolver, by their places, those that the cache  *)
(* takes to work and those that do.                                        *)
Places(d) == {n \in Nat \ {0} : ~(n > Len(ResolverUrls(d)))}

World(p) ==
    [def  |-> def,
     must |-> {s \in Sessions : sessionState[s] = "LoggedIn" /\ def.login.test.selector},
     free |-> ~settled[p],
     ok   |-> {n \in Places(def) : IsOk(Root(ResolverUrls(def)[n]))},
     up   |-> {n \in Places(def) : site[ResolverUrls(def)[n]] = "up"}]

(* Every url before the place was given up, and would be again.            *)
Clear(w) == {n \in Nat \ {0} : \A j \in 1 .. n - 1 : j \in Places(w.def) \ (w.ok \cup w.up)}

(* The link that an address is resolved with, if there is one.             *)
Lead(w) == {ResolverUrls(w.def)[n] : n \in w.ok \cap Clear(w)}

(* The page is the search's own, and the session's.                        *)
OwnPage(page, s, w) ==
    /\ page.url.path \in {w.def.searchPath, "browse"} /\ page.refresh \in {"none", "browse"}
    /\ s \in w.must => page.user = s
    /\ w.free \/ page.url.link \in Lead(w)

(* A request that a search makes for its page.                             *)
Asks(f) == f.proc \in WebProc /\ f.req.jar # Main

(* A search that has read its page.                                        *)
HasRead(f) == f.proc = "search" /\ f.at \in {"link", "report", "record"}

SearchOwn(f, w) ==
    /\ IsStack(f.links)
    /\ f.at \notin {"report", "record"} => f.err = "none"
    /\ f.at \in {"request", "fetch", "extract"} => f.links = <<>>
    /\ HasRead(f) =>
         /\ f.err = "none" => f.session \in Sessions /\ OwnPage(f.page, f.session, w)
         /\ w.free \/ \A i \in DOMAIN f.links : f.links[i] = f.page.url.link

ResolveOwn(f, w) ==
    /\ f.next \in Nat \ {0} /\ (w.free \/ f.next \in Clear(w))
    /\ f.at = "tested" => f.next \in Places(w.def) /\ (w.free \/ f.next \notin w.ok)

FrameOwn(f, w) ==
    /\ Asks(f) => /\ f.proc # "open" /\ f.browser = Main
                  /\ f.req.url.path \in {w.def.searchPath, "browse"}
    /\ f.proc = "resolve" => ResolveOwn(f, w)
    /\ f.proc = "search" => SearchOwn(f, w)

(* What a caller waits for.                                                *)
PairOwn(g, c, d) ==
    /\ g.proc \in WebProc =>
         /\ g.proc # "open" /\ g.at \in {"posted", "refreshed"}
         /\ c.proc \in WebProc /\ c.req.jar = g.req.jar
    /\ g.proc = "search" =>
         \/ g.at = "request" /\ c.proc = "acquire"
         \/ g.at = "fetch" /\ c.proc = "resolve" /\ c.path = d.searchPath /\ c.path # "magnet"
         \/ g.at = "extract" /\ c.proc = "fetch" /\ c.req.jar = g.session /\ g.session # Main
         \/ g.at = "link" /\ c.proc = "resolve" /\ c.path = "item"
    /\ g.proc = "resolve" =>
         /\ c.proc = "open" /\ c.browser = Main
         /\ c.req.url = Root(ResolverUrls(d)[g.next])

OwnStack(s, w) ==
    /\ IsStack(s)
    /\ \A i \in 1 .. Len(s) : FrameOwn(s[i], w)
    /\ \A i \in 1 .. Len(s) - 1 : PairOwn(s[i + 1], s[i], w.def)

(* What was opened at the place tells whether its site is up.              *)
Judges(a, n, w) == w.free \/ (ValidBrowserCall(a) <=> n \in w.up)

(* Where the innermost call stands, with the runner's browser.             *)
TopOwn(f, a, w, v) ==
    /\ Asks(f) =>
         /\ f.at \in {"apply", "load"} => w.free \/ f.req.url.link \in Lead(w)
         /\ f.at = "load" => v.jar = f.req.jar
         /\ f.at \in {"refresh", "read"} => OwnPage(v.page, f.req.jar, w)
         /\ f.at \in {"posted", "refreshed"} /\ a.ok =>
               OwnPage(a.page, f.req.jar, w) /\ OwnPage(v.page, f.req.jar, w)
    /\ f.proc = "open" /\ f.browser = Main /\ f.at = "read" =>
         \A n \in Places(w.def) :
            f.req.url = Root(ResolverUrls(w.def)[n]) => Judges(Loaded(v.page), n, w)
    /\ f.proc = "resolve" /\ f.at = "tested" => Judges(a, f.next, w)
    /\ f.proc = "search" /\ f.at = "fetch" /\ a.ok =>
         a.url.path = w.def.searchPath /\ (w.free \/ a.url.link \in Lead(w))
    /\ f.proc = "search" /\ f.at = "extract" /\ a.ok => OwnPage(a.page, f.session, w)
    /\ f.proc = "search" /\ f.at = "link" => w.free \/ a.url.link = f.page.url.link

(* What it answers.                                                        *)
GivesOwn(f, a, w, v) ==
    /\ Asks(f) /\ a.ok => OwnPage(a.page, f.req.jar, w) /\ OwnPage(v.page, f.req.jar, w)
    /\ f.proc = "open" /\ f.browser = Main =>
         \A n \in Places(w.def) : f.req.url = Root(ResolverUrls(w.def)[n]) => Judges(a, n, w)
    /\ f.proc = "resolve" /\ f.path # "magnet" =>
         /\ a.ok => a.url.path = f.path /\ (w.free \/ a.url.link \in Lead(w))
         /\ w.free \/ Lead(w) = {} \/ a.ok

OwnCall(s, a, w, v) == OwnStack(s, w) /\ TopOwn(s[1], a, w, v)

OwnInv ==
    \A p \in Callers : alone[p] /\ stack[p] # <<>> =>
        /\ \A q \in Callers \ {p} : stack[q] = <<>>
        /\ OwnCall(stack[p], answer[p], World(p), browser[Main])

-------------------------------------------------------------------------------
(* Stacks whose frames are a search's own. *)

(* What lies under the innermost frame, in another world.                  *)
Below(s, w) ==
    /\ IsStack(s)
    /\ \A i \in 2 .. Len(s) : FrameOwn(s[i], w)
    /\ \A i \in 1 .. Len(s) - 1 : PairOwn(s[i + 1], s[i], w.def)

(* For whom waits for it the frame is the same.                            *)
SameOwn(g, f) ==
    /\ g.proc = f.proc
    /\ f.proc \in WebProc => g.browser = f.browser /\ g.req.jar = f.req.jar
    /\ f.proc = "open" => g.req = f.req
    /\ f.proc = "resolve" => g.path = f.path

(* A frame goes on.                                                        *)
LEMMA OwnGoesOn ==
    ASSUME NEW w, NEW s, Below(s, w), s # <<>>, NEW g, FrameOwn(g, w), SameOwn(g, s[1])
    PROVE  OwnStack(<<g>> \o Tail(s), w)
  <1> DEFINE t == <<g>> \o Tail(s)
  <1>1. /\ IsStack(t) /\ Len(t) = Len(s) /\ t[1] = g /\ Len(s) \in Nat /\ Len(s) > 0
        /\ \A i \in 2 .. Len(s) : t[i] = s[i]
    BY Resumed DEF Below
  <1> HIDE DEF t
  <1>2. \A i \in 1 .. Len(t) : FrameOwn(t[i], w)
    BY <1>1 DEF Below
  <1>3. ASSUME NEW i \in 1 .. Len(t) - 1 PROVE PairOwn(t[i + 1], t[i], w.def)
    <2>1. PairOwn(s[i + 1], s[i], w.def) /\ t[i + 1] = s[i + 1]
      BY <1>1, <1>3 DEF Below
    <2>2. CASE i = 1
      <3>1. PICK x, y : x = s[2] /\ y = s[1]
        OBVIOUS
      <3>2. PairOwn(x, y, w.def) /\ SameOwn(g, y) /\ t[i + 1] = x /\ t[i] = g
        BY <1>1, <2>1, <2>2, <3>1
      <3>3. PairOwn(x, g, w.def)
        BY <3>2 DEF PairOwn, SameOwn, WebProc
      <3> QED
        BY <3>2, <3>3
    <2>3. CASE i # 1
      BY <1>1, <1>3, <2>1, <2>3
    <2> QED
      BY <2>2, <2>3
  <1> QED
    BY <1>1, <1>2, <1>3 DEF OwnStack, t

(* A frame calls.                                                          *)
LEMMA OwnCalls ==
    ASSUME NEW w, NEW s, OwnStack(s, w), s # <<>>, NEW c, FrameOwn(c, w), PairOwn(s[1], c, w.def)
    PROVE  OwnStack(<<c>> \o s, w) /\ <<c>> \o s # <<>> /\ (<<c>> \o s)[1] = c
  <1> DEFINE t == <<c>> \o s
  <1>1. /\ IsStack(t) /\ Len(t) = Len(s) + 1 /\ t[1] = c /\ Len(s) \in Nat
        /\ \A i \in 1 .. Len(s) : t[i + 1] = s[i]
    BY Pushed DEF OwnStack
  <1> HIDE DEF t
  <1>2. ASSUME NEW i \in 1 .. Len(t) PROVE FrameOwn(t[i], w)
    <2>1. CASE i = 1
      BY <1>1, <2>1
    <2>2. CASE i # 1
      <3>1. PICK j \in 1 .. Len(s) : i = j + 1
        BY <1>1, <1>2, <2>2
      <3> QED
        BY <1>1, <3>1 DEF OwnStack
    <2> QED
      BY <2>1, <2>2
  <1>3. ASSUME NEW i \in 1 .. Len(t) - 1 PROVE PairOwn(t[i + 1], t[i], w.def)
    <2>1. t[i + 1] = s[i]
      BY <1>1, <1>3
    <2>2. CASE i = 1
      BY <1>1, <2>1, <2>2
    <2>3. CASE i # 1
      <3>1. PICK j \in 1 .. Len(s) - 1 : i = j + 1
        BY <1>1, <1>3, <2>3
      <3>2. PairOwn(s[j + 1], s[j], w.def) /\ t[j + 1] = s[j]
        BY <1>1, <3>1 DEF OwnStack
      <3> QED
        BY <2>1, <3>1, <3>2
    <2> QED
      BY <2>2, <2>3
  <1> QED
    BY <1>1, <1>2, <1>3 DEF OwnStack, t

(* There is at most one link that addresses are resolved with.             *)
LEMMA OneLead == ASSUME NEW w, NEW k \in Lead(w), NEW l \in Lead(w) PROVE k = l
  <1>1. PICK m \in w.ok \cap Clear(w) : k = ResolverUrls(w.def)[m]
    BY DEF Lead
  <1>2. PICK n \in w.ok \cap Clear(w) : l = ResolverUrls(w.def)[n]
    BY DEF Lead
  <1>3. m = n
    BY <1>1, <1>2 DEF Clear
  <1> QED
    BY <1>1, <1>2, <1>3

(* A frame whose call answered is told what it waits for.                  *)
LEMMA ToldOwn ==
    ASSUME NEW w, NEW v, NEW g, FrameOwn(g, w), NEW c, PairOwn(g, c, w.def),
           NEW a, GivesOwn(c, a, w, v)
    PROVE  TopOwn(g, a, w, v)
  <1>1. Asks(g) => Asks(c) /\ c.req.jar = g.req.jar
    BY DEF PairOwn, Asks
  <1>2. ~(g.proc = "open")
    <2>1. g.proc = "open" => g.proc \in WebProc
      BY DEF WebProc
    <2> QED
      BY <2>1 DEF PairOwn
  <1>3. CASE g.proc \in WebProc
    <2>1. g.proc \notin {"search", "resolve"} /\ g.at \in {"posted", "refreshed"}
      BY <1>3 DEF PairOwn, WebProc
    <2>2. Asks(g) /\ a.ok => OwnPage(a.page, g.req.jar, w) /\ OwnPage(v.page, g.req.jar, w)
      BY <1>1 DEF GivesOwn
    <2> QED
      BY <1>2, <2>1, <2>2 DEF TopOwn
  <1>4. CASE g.proc = "search"
    <2>1. ~Asks(g) /\ g.proc # "resolve" /\ g.proc # "open"
      BY <1>4 DEF Asks, WebProc
    <2>2. CASE g.at = "request"
      BY <2>1, <2>2 DEF TopOwn
    <2>3. CASE g.at = "fetch"
      <3>1. c.proc = "resolve" /\ c.path = w.def.searchPath /\ c.path # "magnet"
        BY <1>4, <2>3 DEF PairOwn
      <3>2. a.ok => a.url.path = w.def.searchPath /\ (w.free \/ a.url.link \in Lead(w))
        BY <3>1 DEF GivesOwn
      <3> QED
        BY <2>1, <2>3, <3>2 DEF TopOwn
    <2>4. CASE g.at = "extract"
      <3>1. Asks(c) /\ c.req.jar = g.session
        BY <1>4, <2>4 DEF PairOwn, Asks, WebProc
      <3>2. a.ok => OwnPage(a.page, g.session, w)
        BY <3>1 DEF GivesOwn
      <3> QED
        BY <2>1, <2>4, <3>2 DEF TopOwn
    <2>5. CASE g.at = "link"
      <3>1. c.proc = "resolve" /\ c.path = "item"
        BY <1>4, <2>5 DEF PairOwn
      <3>2. SearchOwn(g, w) /\ g.err = "none" /\ OwnPage(g.page, g.session, w)
        BY <1>4, <2>5 DEF FrameOwn, SearchOwn, HasRead
      <3>3. w.free \/ (g.page.url.link \in Lead(w) /\ a.ok /\ a.url.link \in Lead(w))
        BY <3>1, <3>2 DEF GivesOwn, OwnPage
      <3>4. w.free \/ a.url.link = g.page.url.link
        BY <3>3, OneLead
      <3> QED
        BY <2>1, <2>5, <3>4 DEF TopOwn
    <2> QED
      BY <1>4, <2>2, <2>3, <2>4, <2>5 DEF PairOwn
  <1>5. CASE g.proc = "resolve"
    <2>1. ~Asks(g) /\ g.proc # "search" /\ g.proc # "open"
      BY <1>5 DEF Asks, WebProc
    <2>2. g.at = "tested" => Judges(a, g.next, w)
      <3>1. /\ c.proc = "open" /\ c.browser = Main /\ c.req.url = Root(ResolverUrls(w.def)[g.next])
            /\ (g.at = "tested" => g.next \in Places(w.def))
        BY <1>5 DEF PairOwn, FrameOwn, ResolveOwn
      <3> QED
        BY <3>1 DEF GivesOwn
    <2> QED
      BY <2>1, <2>2 DEF TopOwn
  <1> QED
    <2>1. CASE g.proc \notin WebProc \cup {"search", "resolve"}
      BY <1>2, <2>1 DEF TopOwn, Asks
    <2> QED
      BY <1>3, <1>4, <1>5, <2>1

(* A call returns.                                                         *)
LEMMA OwnBack ==
    ASSUME NEW w, NEW v, NEW s, Below(s, w), s # <<>>, NEW a, GivesOwn(s[1], a, w, v)
    PROVE  OwnStack(Tail(s), w) /\ (Tail(s) # <<>> => TopOwn(Tail(s)[1], a, w, v))
  <1>1. PICK S : s \in Seq(S)
    BY DEF Below, IsStack
  <1>2. PICK t : t = Tail(s)
    OBVIOUS
  <1>3. /\ t \in Seq(S) /\ Len(t) = Len(s) - 1 /\ Len(s) \in Nat /\ Len(s) > 0
        /\ \A i \in 1 .. Len(s) - 1 : t[i] = s[i + 1]
    BY <1>1, <1>2
  <1>4. \A i \in 1 .. Len(t) : FrameOwn(t[i], w)
    BY <1>3 DEF Below
  <1>5. ASSUME NEW i \in 1 .. Len(t) - 1 PROVE PairOwn(t[i + 1], t[i], w.def)
    <2>1. t[i] = s[i + 1] /\ t[i + 1] = s[i + 1 + 1] /\ i + 1 \in 1 .. Len(s) - 1
      BY <1>3, <1>5
    <2> QED
      BY <2>1 DEF Below
  <1>6. ASSUME t # <<>> PROVE TopOwn(t[1], a, w, v)
    <2>1. Len(t) > 0
      BY <1>3, <1>6
    <2>2. t[1] = s[2] /\ PairOwn(s[2], s[1], w.def) /\ FrameOwn(s[2], w)
      BY <1>3, <2>1 DEF Below
    <2> QED
      BY <2>2, ToldOwn
  <1> QED
    BY <1>2, <1>3, <1>4, <1>5, <1>6 DEF OwnStack, IsStack
-------------------------------------------------------------------------------
(* The world a search runs in. *)

(* Nothing the world of a search depends on changes.                       *)
LEMMA SameWorld ==
    ASSUME NEW p, UNCHANGED <<def, sessionState, settled, remembered, optimistic, site>>
    PROVE  World(p)' = World(p)
  BY DEF World, Places, IsOk, Root, Url

(* The world is a record of what a search depends on.                      *)
LEMMA WorldIs ==
    ASSUME NEW p
    PROVE  /\ World(p).def = def /\ (World(p).free <=> ~settled[p])
           /\ World(p).must = {s \in Sessions : sessionState[s] = "LoggedIn"
                                                /\ def.login.test.selector}
           /\ World(p).ok = {n \in Places(def) : IsOk(Root(ResolverUrls(def)[n]))}
           /\ World(p).up = {n \in Places(def) : site[ResolverUrls(def)[n]] = "up"}
  BY DEF World

(* Frames that wait for nothing that looks for an url do not care what is  *)
(* remembered, nor who is logged in; others only if the link is lost.      *)
LEMMA BelowChanged ==
    ASSUME NEW w, NEW u, u.def = w.def, NEW s, OwnStack(s, w), s # <<>>, s[1].proc # "open",
           s[1].proc = "resolve" => /\ u.must \subseteq w.must /\ (w.free => u.free)
                                    /\ u.free \/ Lead(w) \subseteq Lead(u)
    PROVE  Below(s, u)
  <1>1. Len(s) \in Nat /\ Len(s) > 0
    <2>1. PICK S : s \in Seq(S)
      BY DEF OwnStack, IsStack
    <2> QED
      BY <2>1
  <1>2. ASSUME NEW i \in 1 .. Len(s) - 1
        PROVE  FrameOwn(s[i + 1], w) /\ PairOwn(s[i + 1], s[i], w.def)
    BY <1>1 DEF OwnStack
  <1>3. ASSUME NEW i \in 1 .. Len(s) - 1 PROVE s[i].proc # "open"
    <2>1. CASE i = 1
      BY <2>1
    <2>2. CASE i # 1
      <3>1. PICK j \in 1 .. Len(s) - 1 : i = j + 1
        BY <1>1, <2>2
      <3> QED
        BY <1>2, <3>1 DEF PairOwn, WebProc
    <2> QED
      BY <2>1, <2>2
  <1>4. ASSUME NEW i \in 1 .. Len(s) - 1 PROVE s[i + 1].proc # "resolve"
    BY <1>2, <1>3 DEF PairOwn
  <1>5. ASSUME NEW i \in 1 .. Len(s) - 1, HasRead(s[i + 1])
        PROVE  i = 1 /\ s[1].proc = "resolve" /\ s[i + 1].at = "link"
    <2>1. s[i].proc = "resolve" /\ s[i + 1].at = "link"
      BY <1>2, <1>5 DEF PairOwn, HasRead
    <2>2. CASE i = 1
      BY <2>1, <2>2
    <2>3. CASE i # 1
      <3>1. PICK j \in 1 .. Len(s) - 1 : i = j + 1
        BY <1>1, <2>3
      <3> QED
        BY <1>4, <2>1, <3>1
    <2> QED
      BY <2>2, <2>3
  <1>6. ASSUME NEW i \in 1 .. Len(s) - 1 PROVE FrameOwn(s[i + 1], u)
    <2>1. CASE HasRead(s[i + 1])
      BY <1>2, <1>4, <1>5, <2>1 DEF FrameOwn, SearchOwn, HasRead, OwnPage
    <2>2. CASE ~HasRead(s[i + 1])
      BY <1>2, <1>4, <2>2 DEF FrameOwn, SearchOwn
    <2> QED
      BY <2>1, <2>2
  <1>7. \A i \in 2 .. Len(s) : FrameOwn(s[i], u)
    <2> SUFFICES ASSUME NEW i \in 2 .. Len(s) PROVE FrameOwn(s[i], u)
      OBVIOUS
    <2>1. PICK j \in 1 .. Len(s) - 1 : i = j + 1
      BY <1>1
    <2> QED
      BY <1>6, <2>1
  <1> QED
    BY <1>2, <1>7 DEF Below, OwnStack

(* In the same world nothing changes for a frame.                          *)
LEMMA BelowSame == ASSUME NEW w, NEW s, OwnStack(s, w) PROVE Below(s, w)
  <1>1. PICK S : s \in Seq(S)
    BY DEF OwnStack, IsStack
  <1>2. \A i \in 2 .. Len(s) : i \in 1 .. Len(s)
    BY <1>1
  <1> QED
    BY <1>2 DEF OwnStack, Below

(* When a link changed or an answer expired, less has to hold.             *)
LEMMA CallFreed ==
    ASSUME NEW w, NEW u, u.def = w.def, u.must = w.must, u.free,
           NEW s, NEW a, NEW v, OwnCall(s, a, w, v)
    PROVE  OwnCall(s, a, u, v)
  <1>1. \A page, t : OwnPage(page, t, w) => OwnPage(page, t, u)
    BY DEF OwnPage
  <1>2. \A f : FrameOwn(f, w) => FrameOwn(f, u)
    BY <1>1 DEF FrameOwn, ResolveOwn, SearchOwn
  <1>3. TopOwn(s[1], a, w, v) => TopOwn(s[1], a, u, v)
    BY <1>1 DEF TopOwn, Judges
  <1> QED
    BY <1>2, <1>3 DEF OwnCall, OwnStack

-------------------------------------------------------------------------------
(* What a caller's step makes of its calls. *)

(* A call goes on somewhere else.                                          *)
LEMMA OwnMoves ==
    ASSUME NEW w, NEW v, NEW s, Below(s, w), s # <<>>, NEW g, FrameOwn(g, w),
           SameOwn(g, s[1]), NEW a, TopOwn(g, a, w, v)
    PROVE  OwnCall(<<g>> \o Tail(s), a, w, v)
  <1>1. OwnStack(<<g>> \o Tail(s), w)
    BY OwnGoesOn
  <1>2. (<<g>> \o Tail(s))[1] = g
    BY Resumed DEF Below
  <1> QED
    BY <1>1, <1>2 DEF OwnCall

(* A call calls another one, which begins with nothing told.               *)
LEMMA OwnCallsOne ==
    ASSUME NEW w, NEW v, NEW s, Below(s, w), s # <<>>, NEW g, FrameOwn(g, w), SameOwn(g, s[1]),
           NEW c, FrameOwn(c, w), PairOwn(g, c, w.def), TopOwn(c, NoAnswer, w, v)
    PROVE  OwnCall((<<c>> \o <<g>>) \o Tail(s), NoAnswer, w, v)
  <1> DEFINE t == <<g>> \o Tail(s)
  <1>1. OwnStack(t, w) /\ t # <<>> /\ t[1] = g
    <2>1. OwnStack(t, w)
      BY OwnGoesOn
    <2>2. IsStack(t) /\ Len(t) > 0 /\ t[1] = g
      BY Resumed DEF Below
    <2> HIDE DEF t
    <2> QED
      BY <2>1, <2>2 DEF IsStack
  <1>2. (<<c>> \o <<g>>) \o Tail(s) = <<c>> \o t
    <2>1. PICK S : s \in Seq(S)
      BY DEF Below, IsStack
    <2>2. IsStack(Tail(s))
      BY <2>1 DEF IsStack
    <2> QED
      BY <2>2, OneByOne
  <1> HIDE DEF t
  <1>3. PairOwn(t[1], c, w.def)
    BY <1>1
  <1>4. OwnStack(<<c>> \o t, w) /\ (<<c>> \o t)[1] = c
    BY <1>1, <1>3, OwnCalls
  <1> QED
    BY <1>2, <1>4 DEF OwnCall

(* A call calls one that waits for another one from the beginning.         *)
LEMMA OwnCallsTwo ==
    ASSUME NEW w, NEW v, NEW s, Below(s, w), s # <<>>, NEW g, FrameOwn(g, w), SameOwn(g, s[1]),
           NEW c, FrameOwn(c, w), PairOwn(g, c, w.def),
           NEW d, FrameOwn(d, w), PairOwn(c, d, w.def), TopOwn(d, NoAnswer, w, v)
    PROVE  OwnCall(((<<d>> \o <<c>>) \o <<g>>) \o Tail(s), NoAnswer, w, v)
  <1> DEFINE t == <<g>> \o Tail(s)
             r == <<c>> \o t
  <1>1. OwnStack(t, w) /\ t # <<>> /\ t[1] = g
    <2>1. OwnStack(t, w)
      BY OwnGoesOn
    <2>2. IsStack(t) /\ Len(t) > 0 /\ t[1] = g
      BY Resumed DEF Below
    <2> HIDE DEF t
    <2> QED
      BY <2>1, <2>2 DEF IsStack
  <1>2. ((<<d>> \o <<c>>) \o <<g>>) \o Tail(s) = <<d>> \o r
    <2>1. PICK S : s \in Seq(S)
      BY DEF Below, IsStack
    <2>2. IsStack(Tail(s))
      BY <2>1 DEF IsStack
    <2> QED
      BY <2>2, Three
  <1> HIDE DEF t
  <1>3. PairOwn(t[1], c, w.def)
    BY <1>1
  <1>4. OwnStack(r, w) /\ r # <<>> /\ r[1] = c
    BY <1>1, <1>3, OwnCalls
  <1> HIDE DEF r
  <1>5. PairOwn(r[1], d, w.def)
    BY <1>4
  <1>6. OwnStack(<<d>> \o r, w) /\ (<<d>> \o r)[1] = d
    BY <1>4, <1>5, OwnCalls
  <1> QED
    BY <1>2, <1>6 DEF OwnCall

(* The call that a caller is left with is a search's own.                  *)
OwnNext(p) ==
    stack'[p] # <<>> => OwnCall(stack'[p], answer'[p], World(p)', browser'[Main])

(* The innermost call goes on.                                             *)
LEMMA OwnGoto ==
    ASSUME CallsInv, NEW p \in Callers, stack[p] # <<>>, NEW w, NEW v,
           w = World(p)', v = browser'[Main], Below(stack[p], w), NEW g, Goto(p, g),
           FrameOwn(g, w), SameOwn(g, Frame(p)), TopOwn(g, NoAnswer, w, v)
    PROVE  OwnNext(p)
  <1>1. stack'[p] = <<g>> \o Tail(stack[p]) /\ answer'[p] = NoAnswer /\ Frame(p) = stack[p][1]
    BY TopOK DEF Goto, Frames, CallsInv
  <1>2. OwnCall(<<g>> \o Tail(stack[p]), NoAnswer, w, v)
    BY <1>1, OwnMoves
  <1> QED
    BY <1>1, <1>2 DEF OwnNext

(* It returns.                                                             *)
LEMMA OwnReturn ==
    ASSUME CallsInv, NEW p \in Callers, stack[p] # <<>>, NEW w, NEW v,
           w = World(p)', v = browser'[Main], Below(stack[p], w), NEW a, Return(p, a),
           GivesOwn(Frame(p), a, w, v)
    PROVE  OwnNext(p)
  <1>1. stack'[p] = Tail(stack[p]) /\ Frame(p) = stack[p][1]
        /\ answer'[p] = IF Len(stack[p]) = 1 THEN NoAnswer ELSE a
    BY TopOK DEF Return, CallsInv
  <1>2. OwnStack(Tail(stack[p]), w) /\ (Tail(stack[p]) # <<>> => TopOwn(Tail(stack[p])[1], a, w, v))
    BY <1>1, OwnBack
  <1>3. Tail(stack[p]) # <<>> => Len(stack[p]) # 1
    <2>1. PICK S : stack[p] \in Seq(S)
      BY DEF Below, IsStack
    <2>2. PICK t : t = Tail(stack[p])
      OBVIOUS
    <2>3. t \in Seq(S) /\ (stack[p] # <<>> => Len(t) = Len(stack[p]) - 1)
      BY <2>1, <2>2
    <2>4. Len(stack[p]) = 1 => Len(t) = 0
      BY <2>3
    <2>5. Len(t) = 0 => t = <<>>
      BY <2>3
    <2> QED
      BY <2>2, <2>4, <2>5
  <1> QED
    BY <1>1, <1>2, <1>3 DEF OwnNext, OwnCall

(* It calls.                                                               *)
LEMMA OwnCallOne ==
    ASSUME CallsInv, NEW p \in Callers, stack[p] # <<>>, NEW w, NEW v,
           w = World(p)', v = browser'[Main], Below(stack[p], w), NEW g, NEW callee, NEW c,
           Call(p, g, callee), callee = <<c>>, FrameOwn(g, w), SameOwn(g, Frame(p)),
           FrameOwn(c, w), PairOwn(g, c, w.def), TopOwn(c, NoAnswer, w, v)
    PROVE  OwnNext(p)
  <1>1. /\ stack'[p] = (<<c>> \o <<g>>) \o Tail(stack[p])
        /\ answer'[p] = NoAnswer /\ Frame(p) = stack[p][1]
    BY TopOK DEF Call, Frames, CallsInv
  <1>2. OwnCall((<<c>> \o <<g>>) \o Tail(stack[p]), NoAnswer, w, v)
    BY <1>1, OwnCallsOne
  <1> QED
    BY <1>1, <1>2 DEF OwnNext

(* It calls one that calls at once.                                        *)
LEMMA OwnCallTwo ==
    ASSUME CallsInv, NEW p \in Callers, stack[p] # <<>>, NEW w, NEW v,
           w = World(p)', v = browser'[Main], Below(stack[p], w),
           NEW g, NEW callee, NEW c, NEW d,
           Call(p, g, callee), callee = <<d>> \o <<c>>, FrameOwn(g, w), SameOwn(g, Frame(p)),
           FrameOwn(c, w), PairOwn(g, c, w.def), FrameOwn(d, w), PairOwn(c, d, w.def),
           TopOwn(d, NoAnswer, w, v)
    PROVE  OwnNext(p)
  <1>1. /\ stack'[p] = ((<<d>> \o <<c>>) \o <<g>>) \o Tail(stack[p])
        /\ answer'[p] = NoAnswer /\ Frame(p) = stack[p][1]
    BY TopOK DEF Call, Frames, CallsInv
  <1>2. OwnCall(((<<d>> \o <<c>>) \o <<g>>) \o Tail(stack[p]), NoAnswer, w, v)
    BY <1>1, OwnCallsTwo
  <1> QED
    BY <1>1, <1>2 DEF OwnNext

(* What the step of an innermost call may start from.                      *)
Own(p) == OwnCall(stack[p], answer[p], World(p), browser[Main])

(* Where the call of a search stands.                                      *)
LEMMA OwnTop ==
    ASSUME CallsInv, NEW p \in Callers, stack[p] # <<>>, Own(p)
    PROVE  /\ Frame(p) = stack[p][1]
           /\ FrameOwn(Frame(p), World(p))
           /\ TopOwn(Frame(p), answer[p], World(p), browser[Main])
           /\ Below(stack[p], World(p))
  <1>1. Frame(p) = stack[p][1]
    BY TopOK
  <1>2. OwnStack(stack[p], World(p)) /\ TopOwn(stack[p][1], answer[p], World(p), browser[Main])
    BY DEF Own, OwnCall
  <1>3. 1 \in 1 .. Len(stack[p])
    <2>1. PICK S : stack[p] \in Seq(S)
      BY <1>2 DEF OwnStack, IsStack
    <2> QED
      BY <2>1
  <1> QED
    BY <1>1, <1>2, <1>3, BelowSame DEF OwnStack

(* A program that panics goes nowhere.                                     *)
LEMMA OwnStays ==
    ASSUME NEW p \in Callers, Own(p), UNCHANGED <<stack, answer, browser>>, World(p)' = World(p)
    PROVE  OwnNext(p)
  BY DEF Own, OwnNext

-------------------------------------------------------------------------------
(* Calls that a search does not depend on. *)

Plain == {"acquire", "login", "health", "ratio"}

(* A frame of a call that begins, and is no request of a search's.         *)
Starts(c) ==
    \/ c.proc \in Plain
    \/ c.proc = "search" /\ c.at = "request" /\ c.links = <<>> /\ c.err = "none"
    \/ c.proc = "resolve" /\ c.at = "look" /\ c.next = 1
    \/ c.proc \in WebProc /\ c.req.jar = Main /\ (c.proc = "open" => c.browser # Main)

(* A call of one such frame, or two.                                       *)
Begins(callee) ==
    \/ \E c : callee = <<c>> /\ Starts(c)
    \/ \E c, d : /\ callee = <<d>> \o <<c>> /\ Starts(c) /\ Starts(d)
                 /\ \A any : PairOwn(c, d, any)

(* What begins depends on nothing yet.                                     *)
LEMMA StartsOwn ==
    ASSUME NEW c, Starts(c), NEW w, NEW v
    PROVE  FrameOwn(c, w) /\ TopOwn(c, NoAnswer, w, v)
  <1>1. CASE c.proc \in Plain
    BY <1>1 DEF FrameOwn, TopOwn, Asks, WebProc, Plain
  <1>2. CASE c.proc = "search" /\ c.at = "request" /\ c.links = <<>> /\ c.err = "none"
    <2>1. IsStack(<<>>)
      <3>1. <<>> \in Seq({})
        OBVIOUS
      <3> QED
        BY <3>1 DEF IsStack
    <2> QED
      BY <1>2, <2>1 DEF FrameOwn, SearchOwn, HasRead, TopOwn, Asks, WebProc
  <1>3. CASE c.proc = "resolve" /\ c.at = "look" /\ c.next = 1
    <2>1. 1 \in Clear(w)
      BY DEF Clear
    <2> QED
      BY <1>3, <2>1 DEF FrameOwn, ResolveOwn, TopOwn, Asks, WebProc
  <1>4. CASE c.proc \in WebProc /\ c.req.jar = Main /\ (c.proc = "open" => c.browser # Main)
    BY <1>4 DEF FrameOwn, TopOwn, Asks, WebProc
  <1> QED
    BY <1>1, <1>2, <1>3, <1>4 DEF Starts

(* A call that begins, on its own.                                         *)
LEMMA BeginsOwn ==
    ASSUME NEW callee, Begins(callee), NEW w, NEW v
    PROVE  OwnCall(callee, NoAnswer, w, v)
  <1>1. ASSUME NEW c, Starts(c) PROVE OwnStack(<<c>>, w) /\ <<c>> # <<>> /\ <<c>>[1] = c
                                      /\ TopOwn(c, NoAnswer, w, v)
    <2>1. <<c>> \in Seq({c}) /\ Len(<<c>>) = 1 /\ <<c>>[1] = c
      OBVIOUS
    <2>2. IsStack(<<c>>) /\ <<c>> # <<>>
      BY <2>1 DEF IsStack
    <2>3. FrameOwn(c, w) /\ TopOwn(c, NoAnswer, w, v)
      BY <1>1, StartsOwn
    <2>4. \A i \in 1 .. Len(<<c>>) : FrameOwn(<<c>>[i], w)
      BY <2>1, <2>3
    <2>5. \A i \in 1 .. Len(<<c>>) - 1 : PairOwn(<<c>>[i + 1], <<c>>[i], w.def)
      BY <2>1
    <2> QED
      BY <2>1, <2>2, <2>3, <2>4, <2>5 DEF OwnStack
  <1>2. CASE \E c : callee = <<c>> /\ Starts(c)
    BY <1>1, <1>2 DEF OwnCall
  <1>3. ASSUME NEW c, NEW d, callee = <<d>> \o <<c>>, Starts(c), Starts(d),
               \A any : PairOwn(c, d, any)
        PROVE  OwnCall(callee, NoAnswer, w, v)
    <2>1. PICK s : s = <<c>>
      OBVIOUS
    <2>2. OwnStack(s, w) /\ s # <<>> /\ s[1] = c
      BY <1>1, <1>3, <2>1
    <2>3. FrameOwn(d, w) /\ TopOwn(d, NoAnswer, w, v)
      BY <1>3, StartsOwn
    <2>4. PairOwn(s[1], d, w.def)
      BY <1>3, <2>2
    <2>5. OwnStack(<<d>> \o s, w) /\ (<<d>> \o s)[1] = d
      BY <2>2, <2>3, <2>4, OwnCalls
    <2> QED
      BY <1>3, <2>1, <2>3, <2>5 DEF OwnCall
  <1> QED
    BY <1>2, <1>3 DEF Begins

(* The steps of such a call, whoever is logged in by them.                 *)
LEMMA PlainDoes ==
    ASSUME CallsInv, NEW p \in Callers, stack[p] # <<>>, Own(p), Frame(p).proc \in Plain, def' = def
    PROVE  /\ \A g : Goto(p, g) /\ g.proc = Frame(p).proc => OwnNext(p)
           /\ \A a : Return(p, a) => OwnNext(p)
           /\ \A g, callee : Call(p, g, callee) /\ g.proc = Frame(p).proc /\ Begins(callee)
                                => OwnNext(p)
           /\ Panic(p) /\ browser' = browser /\ World(p)' = World(p) => OwnNext(p)
  <1> DEFINE f == Frame(p)
  <1>1. PICK w, v : w = World(p)' /\ v = browser'[Main]
    OBVIOUS
  <1>2. f = stack[p][1] /\ OwnStack(stack[p], World(p))
    BY OwnTop DEF Own, OwnCall
  <1>3. w.def = World(p).def
    BY <1>1 DEF World
  <1>4. Below(stack[p], w)
    BY <1>2, <1>3, BelowChanged DEF Plain
  <1>5. \A g : g.proc \in Plain => /\ FrameOwn(g, w) /\ TopOwn(g, NoAnswer, w, v)
                                   /\ (g.proc = f.proc => SameOwn(g, f))
                                   /\ \A c, d : PairOwn(g, c, d)
    BY StartsOwn DEF Starts, SameOwn, PairOwn, WebProc, Plain
  <1> HIDE DEF f
  <1>6. ASSUME NEW g, Goto(p, g), g.proc = f.proc PROVE OwnNext(p)
    BY <1>1, <1>4, <1>5, <1>6, OwnGoto DEF f
  <1>7. ASSUME NEW a, Return(p, a) PROVE OwnNext(p)
    <2>1. GivesOwn(f, a, w, v)
      BY DEF GivesOwn, Asks, WebProc, Plain, f
    <2> QED
      BY <1>1, <1>4, <1>7, <2>1, OwnReturn DEF f
  <1>8. ASSUME NEW g, NEW callee, Call(p, g, callee), g.proc = f.proc, Begins(callee)
        PROVE  OwnNext(p)
    <2>1. /\ FrameOwn(g, w) /\ SameOwn(g, f) /\ \A c, d : PairOwn(g, c, d)
      BY <1>5, <1>8 DEF f
    <2>2. ASSUME NEW c, callee = <<c>>, Starts(c) PROVE OwnNext(p)
      <3>1. FrameOwn(c, w) /\ TopOwn(c, NoAnswer, w, v)
        BY <2>2, StartsOwn
      <3> QED
        BY <1>1, <1>4, <1>8, <2>1, <2>2, <3>1, OwnCallOne DEF f
    <2>3. ASSUME NEW c, NEW d, callee = <<d>> \o <<c>>, Starts(c), Starts(d),
                 \A any : PairOwn(c, d, any)
          PROVE  OwnNext(p)
      <3>1. FrameOwn(c, w) /\ FrameOwn(d, w) /\ TopOwn(d, NoAnswer, w, v)
        BY <2>3, StartsOwn
      <3> QED
        BY <1>1, <1>4, <1>8, <2>1, <2>3, <3>1, OwnCallTwo DEF f
    <2> QED
      BY <1>8, <2>2, <2>3 DEF Begins
  <1>9. Panic(p) /\ browser' = browser /\ World(p)' = World(p) => OwnNext(p)
    BY OwnStays DEF Panic
  <1> QED
    BY <1>6, <1>7, <1>8, <1>9 DEF f

(* What begins when a call is made that is no request of a search's.       *)
LEMMA BeginsCalls ==
    /\ Begins(AcquireCall) /\ Begins(SearchCall)
    /\ Begins(<<HealthCall>>) /\ Begins(<<RatioCall>>)
    /\ \A path : Begins(ResolveCall(path))
    /\ \A s : Begins(LoginCall(s))
    /\ \A b, url : b # Main => Begins(OpenCall(b, url))
    /\ \A b, req : req.jar = Main => Begins(FetchCall(b, req)) /\ Begins(PostCall(b, req))
  <1>1. Starts(AcquireFrame) /\ Starts(HealthCall) /\ Starts(RatioCall) /\ Starts(SearchFrame)
    BY DEF Starts, Plain, AcquireFrame, HealthCall, RatioCall, SearchFrame
  <1>2. \A path : Starts(ResolveFrame(path)) /\ ResolveCall(path) = <<ResolveFrame(path)>>
    BY DEF Starts, ResolveFrame, ResolveCall
  <1>3. \A s : /\ Starts(LoginFrame(s)) /\ LoginFrame(s).proc = "login"
               /\ LoginCall(s) = <<ResolveFrame("login")>> \o <<LoginFrame(s)>>
    BY <1>2 DEF Starts, Plain, LoginFrame, LoginCall
  <1>4. Begins(AcquireCall) /\ Begins(<<HealthCall>>) /\ Begins(<<RatioCall>>)
        /\ \A path : Begins(ResolveCall(path))
    <2>1. AcquireCall = <<AcquireFrame>>
      BY DEF AcquireCall, AcquireFrame
    <2> QED
      BY <1>1, <1>2, <2>1 DEF Begins
  <1>5. Begins(SearchCall)
    <2>1. SearchCall = <<AcquireFrame>> \o <<SearchFrame>>
      BY DEF SearchCall, AcquireCall, AcquireFrame
    <2>2. \A any : PairOwn(SearchFrame, AcquireFrame, any)
      BY DEF PairOwn, SearchFrame, AcquireFrame, WebProc
    <2> QED
      BY <1>1, <2>1, <2>2 DEF Begins
  <1>6. ASSUME NEW s PROVE Begins(LoginCall(s))
    <2>1. \A any : PairOwn(LoginFrame(s), ResolveFrame("login"), any)
      BY <1>3 DEF PairOwn, WebProc
    <2> QED
      BY <1>2, <1>3, <2>1 DEF Begins
  <1>7. ASSUME NEW b, NEW url, b # Main PROVE Begins(OpenCall(b, url))
    <2> DEFINE c == WebFrame("open", "load", b, Request("get", url, Main))
    <2>1. OpenCall(b, url) = <<c>>
      BY DEF OpenCall
    <2>2. c.proc = "open" /\ c.browser = b /\ c.req.jar = Main
      BY DEF WebFrame, Request
    <2> HIDE DEF c
    <2>3. Starts(c)
      BY <1>7, <2>2 DEF Starts, WebProc
    <2> QED
      BY <2>1, <2>3 DEF Begins
  <1>8. ASSUME NEW b, NEW req, req.jar = Main
        PROVE  Begins(FetchCall(b, req)) /\ Begins(PostCall(b, req))
    <2> DEFINE post == WebFrame("post", "apply", b, req)
               posted == WebFrame("fetch", "posted", b, req)
               get == WebFrame("fetch", "apply", b, req)
               got == [get EXCEPT !.hops = 0]
               unknown == WebFrame("fetch", "unknown", b, req)
    <2>1. /\ post.proc = "post" /\ post.req = req
          /\ posted.proc = "fetch" /\ posted.req = req /\ posted.at = "posted"
          /\ got.proc = "fetch" /\ got.req = req
          /\ unknown.proc = "fetch" /\ unknown.req = req
      BY DEF WebFrame
    <2>2. /\ PostCall(b, req) = <<post>>
          /\ FetchCall(b, req) \in {<<got>>, <<post>> \o <<posted>>, <<unknown>>}
      BY DEF PostCall, FetchCall, GetCall
    <2> HIDE DEF post, posted, get, got, unknown
    <2>3. Starts(post) /\ Starts(posted) /\ Starts(got) /\ Starts(unknown)
      BY <1>8, <2>1 DEF Starts, WebProc
    <2>4. \A any : PairOwn(posted, post, any)
      BY <2>1 DEF PairOwn, WebProc
    <2>5. Begins(<<got>>) /\ Begins(<<unknown>>) /\ Begins(<<post>>)
      BY <2>3 DEF Begins
    <2>6. Begins(<<post>> \o <<posted>>)
      BY <2>3, <2>4 DEF Begins
    <2> QED
      BY <2>2, <2>5, <2>6
  <1> QED
    BY <1>4, <1>5, <1>6, <1>7, <1>8

(* The ways such a call goes on.                                           *)
PlainStep(p) ==
    \/ \E g : Goto(p, g) /\ g.proc = Frame(p).proc
    \/ \E a : Return(p, a)
    \/ \E g, callee : Call(p, g, callee) /\ g.proc = Frame(p).proc /\ Begins(callee)
    \/ Panic(p) /\ browser' = browser /\ World(p)' = World(p)

(* A session and its login go on in one of them, but when they submit a    *)
(* form.                                                                   *)
LEMMA SessionGoes ==
    ASSUME RunnerInv, NEW p \in Callers, SessionStep(p), ~LoginForm(p), UNCHANGED settled
    PROVE  PlainStep(p)
  <1> DEFINE f == Frame(p)
  <1>1. CallsInv
    BY DEF RunnerInv
  <1>a. ASSUME NEW l, At(p, "acquire", l), NEW s \in Sessions
        PROVE  Picked(f, s).proc = f.proc /\ SetsUp(f).proc = f.proc
    <2>1. f.proc = "acquire" /\ FrameOK(f, Ready, Known)
      BY <1>1, <1>a, TopAt
    <2> HIDE DEF f
    <2>2. SameCall(Picked(f, s), f) /\ SameCall(SetsUp(f), f)
      BY <2>1, AcquireGoes
    <2> QED
      BY <2>2 DEF SameCall
  <1>b. ASSUME NEW l0, At(p, "login", l0), NEW l, NEW url, NEW page
        PROVE  /\ LoginAt(f, l).proc = f.proc /\ LoginUrl(f, url).proc = f.proc
               /\ LoginPage(f, l, page).proc = f.proc /\ f.session # Main
    BY <1>1, <1>b, TopAt, LoginGoesOn, BrowserNumbers
  <1>c. \A method, url : Request(method, url, Main).jar = Main
    BY DEF Request
  <1>2. CASE PickSession(p)
    <2>1. Goto(p, Picked(f, muxIndex + 1)) /\ At(p, "acquire", "pick")
      BY <1>2 DEF PickSession, Picked
    <2>2. muxIndex + 1 \in Sessions
      BY SessionAssumption DEF RunnerInv, SessionInv, Sessions
    <2> QED
      BY <1>a, <2>1, <2>2 DEF PlainStep
  <1>3. CASE StoreIndex(p)
    <2>1. /\ At(p, "acquire", "store")
          /\ \/ Call(p, SetsUp(f), LoginCall(f.session)) \/ \E a : Return(p, a)
      BY <1>3 DEF StoreIndex, SetsUp
    <2> QED
      BY <1>a, <2>1, BrowserNumbers, BeginsCalls DEF PlainStep
  <1>4. CASE SetUp(p)
    BY <1>4 DEF SetUp, PlainStep
  <1>5. CASE LoginInputs(p)
    <2>1. /\ At(p, "login", "inputs")
          /\ \/ Call(p, LoginUrl(f, answer[p].url), ResolveCall("login")) \/ \E a : Return(p, a)
      BY <1>5 DEF LoginInputs, LoginUrl
    <2> QED
      BY <1>b, <2>1, BeginsCalls DEF PlainStep
  <1>6. CASE LoginInit(p)
    <2>1. /\ At(p, "login", "init")
          /\ \/ Call(p, LoginAt(f, "initFetch"), ResolveCall("init")) \/ \E a : Return(p, a)
             \/ Goto(p, LoginAt(f, "submit"))
      BY <1>6 DEF LoginInit, LoginGoes, LoginAt
    <2> QED
      BY <1>b, <2>1, BeginsCalls DEF PlainStep
  <1>7. CASE LoginInitFetch(p)
    <2>1. /\ At(p, "login", "initFetch")
          /\ \/ Call(p, LoginAt(f, "initFetched"),
                     FetchCall(f.session, Request("get", answer[p].url, Main)))
             \/ \E a : Return(p, a)
      BY <1>7 DEF LoginInitFetch, LoginGoes, LoginAt
    <2> QED
      BY <1>b, <1>c, <2>1, BeginsCalls DEF PlainStep
  <1>8. CASE LoginInitFetched(p)
    <2>1. /\ At(p, "login", "initFetched")
          /\ Goto(p, LoginAt(f, "submit")) \/ \E a : Return(p, a)
      BY <1>8 DEF LoginInitFetched, LoginAt
    <2> QED
      BY <1>b, <2>1 DEF PlainStep
  <1>9. CASE LoginSubmit(p)
    <2>1. /\ At(p, "login", "submit")
          /\ \/ Call(p, LoginAt(f, "form"), FetchCall(f.session, Request("get", f.url, Main)))
             \/ Call(p, LoginAt(f, "check"), PostCall(f.session, Request("post", f.url, Main)))
             \/ Call(p, LoginAt(f, "check"), OpenCall(f.session, f.url))
             \/ \E a : Return(p, a)
      BY <1>9 DEF LoginSubmit, LoginGoes, LoginAt
    <2> QED
      BY <1>b, <1>c, <2>1, BeginsCalls DEF PlainStep
  <1>10. CASE LoginCheck(p)
    <2>1. /\ At(p, "login", "check")
          /\ \/ Call(p, LoginPage(f, "testUrl", answer[p].page), ResolveCall("test"))
             \/ Goto(p, LoginPage(f, "verify", answer[p].page))
             \/ \E a : Return(p, a)
             \/ Panic(p)
      BY <1>10 DEF LoginCheck, LoginPage
    <2>2. browser' = browser /\ World(p)' = World(p)
      BY <1>10, SameWorld DEF LoginCheck, webVars, sessionVars
    <2> QED
      BY <1>b, <2>1, <2>2, BeginsCalls DEF PlainStep
  <1>11. CASE LoginTestUrl(p)
    <2>1. /\ At(p, "login", "testUrl")
          /\ \/ Call(p, LoginAt(f, "testFetched"),
                     FetchCall(f.session, Request("get", answer[p].url, Main)))
             \/ \E a : Return(p, a)
      BY <1>11 DEF LoginTestUrl, LoginGoes, LoginAt
    <2> QED
      BY <1>b, <1>c, <2>1, BeginsCalls DEF PlainStep
  <1>12. CASE LoginTestFetched(p)
    BY <1>12 DEF LoginTestFetched, PlainStep
  <1>13. CASE LoginVerify(p)
    BY <1>13 DEF LoginVerify, PlainStep
  <1> QED
    BY <1>2, <1>3, <1>4, <1>5, <1>6, <1>7, <1>8, <1>9, <1>10, <1>11, <1>12, <1>13
    DEF SessionStep

(* The search that waits for a session is as it was.                       *)
LEMMA SessionOwn ==
    ASSUME RunnerInv, NEW p \in Callers, SessionStep(p), UNCHANGED settled, Own(p)
    PROVE  OwnNext(p)
  <1> DEFINE f == Frame(p)
  <1>1. CallsInv /\ def' = def
    BY DEF RunnerInv, SessionStep, PickSession, StoreIndex, SetUp, LoginInputs, LoginInit,
           LoginInitFetch, LoginInitFetched, LoginSubmit, LoginForm, LoginCheck, LoginTestUrl,
           LoginTestFetched, LoginVerify
  <1>2. \E proc \in {"acquire", "login"} : \E l : At(p, proc, l)
    BY DEF SessionStep, PickSession, StoreIndex, SetUp, LoginInputs, LoginInit,
           LoginInitFetch, LoginInitFetched, LoginSubmit, LoginForm, LoginCheck, LoginTestUrl,
           LoginTestFetched, LoginVerify
  <1>3. stack[p] # <<>> /\ f.proc \in Plain
    BY <1>1, <1>2, TopAt DEF Plain
  <1>4. CASE ~LoginForm(p)
    <2>1. PlainStep(p)
      BY <1>4, SessionGoes
    <2> QED
      BY <1>1, <1>3, <2>1, PlainDoes DEF PlainStep
  <1>5. CASE LoginForm(p)
    <2> DEFINE g == LoginAt(f, "check")
    <2>1. CASE Return(p, Failed)
      BY <1>1, <1>3, <2>1, PlainDoes
    <2>2. CASE /\ stack' = [stack EXCEPT ![p] = <<g>> \o Tail(stack[p])] /\ answer' = answer
      <3>1. g.proc = "login" /\ SameOwn(g, f)
        BY <1>1, <1>5, TopAt, LoginGoesOn DEF LoginForm, SameOwn, WebProc
      <3> HIDE DEF g
      <3>2. PICK w, v : w = World(p)' /\ v = browser'[Main]
        OBVIOUS
      <3>3. f = stack[p][1] /\ OwnStack(stack[p], World(p)) /\ w.def = World(p).def
        BY <1>1, <1>3, <3>2, OwnTop DEF Own, OwnCall, World
      <3>4. Below(stack[p], w)
        BY <1>3, <3>3, BelowChanged DEF Plain
      <3>5. FrameOwn(g, w) /\ TopOwn(g, answer[p], w, v)
        BY <3>1 DEF FrameOwn, TopOwn, Asks, WebProc
      <3>6. OwnCall(<<g>> \o Tail(stack[p]), answer[p], w, v)
        BY <1>3, <3>1, <3>3, <3>4, <3>5, OwnMoves
      <3>7. stack'[p] = <<g>> \o Tail(stack[p])
        BY <1>1, <2>2 DEF CallsInv
      <3> QED
        BY <2>2, <3>2, <3>6, <3>7 DEF OwnNext
    <2> QED
      BY <1>5, <2>1, <2>2 DEF LoginForm, LoginAt
  <1> QED
    BY <1>4, <1>5

(* A health check and a ratio request go on in one of the ways too.        *)
LEMMA OtherOwn ==
    ASSUME RunnerInv, NEW p \in Callers, UNCHANGED settled, Own(p),
           \/ HealthChecks(p) \/ HealthJudges(p)
           \/ RatioText(p) \/ RatioResolve(p) \/ RatioFetch(p) \/ RatioMatch(p)
    PROVE  OwnNext(p)
  <1> DEFINE f == Frame(p)
  <1>1. CallsInv /\ def' = def /\ browser' = browser /\ World(p)' = World(p)
    BY SameWorld DEF RunnerInv, HealthChecks, HealthJudges, RatioText, RatioResolve, RatioFetch,
       RatioMatch, lower, webVars, sessionVars
  <1>2. \E proc \in {"health", "ratio"} : \E l : At(p, proc, l)
    BY DEF HealthChecks, HealthJudges, RatioText, RatioResolve, RatioFetch, RatioMatch
  <1>3. stack[p] # <<>> /\ f.proc \in Plain /\ f.proc \in {"health", "ratio"}
        /\ FrameOK(f, Ready, Known)
    BY <1>1, <1>2, TopAt DEF Plain
  <1>4. \A l : OtherAt(f, l).proc = f.proc
    BY <1>3, OtherGoes
  <1>5. \A url : Request("get", url, Main).jar = Main
    BY DEF Request
  <1>6. \/ \E a : Return(p, a)
        \/ \E l : \/ Call(p, OtherAt(f, l), SearchCall) \/ Call(p, OtherAt(f, l), AcquireCall)
                  \/ Call(p, OtherAt(f, l), ResolveCall("ratio"))
                  \/ Call(p, OtherAt(f, l),
                          FetchCall(Main, Request("get", answer[p].url, Main)))
        \/ Panic(p)
    BY DEF HealthChecks, HealthJudges, RatioText, RatioResolve, RatioFetch, RatioMatch, OtherAt
  <1> HIDE DEF f
  <1>7. \/ \E a : Return(p, a)
        \/ \E g, callee : Call(p, g, callee) /\ g.proc = f.proc /\ Begins(callee)
        \/ Panic(p)
    BY <1>4, <1>5, <1>6, BeginsCalls
  <1> QED
    BY <1>1, <1>3, <1>7, PlainDoes DEF f

-------------------------------------------------------------------------------
(* The steps of a search. *)

(* A search stands somewhere, with these locals.                           *)
Stands(g, l, session, page, links, err) ==
    /\ g.proc = "search" /\ g.at = l /\ g.session = session
    /\ g.page = page /\ g.links = links /\ g.err = err

(* What the frames that a search goes on with hold.                        *)
LEMMA SearchFields ==
    ASSUME NEW R, NEW f, IsSearch(f, R), NEW l, NEW s, NEW page, NEW n, NEW link, NEW id, NEW type
    PROVE  /\ Stands(SearchAt(f, l), l, f.session, f.page, f.links, f.err)
           /\ Stands(SearchWith(f, s), "fetch", s, f.page, f.links, f.err)
           /\ Stands(SearchReads(f, page, n), f.at, f.session, page, f.links, f.err)
           /\ Stands(SearchLinks(f, link), f.at, f.session, f.page, Append(f.links, link), f.err)
           /\ Stands(SearchNotes(f, id), "record", f.session, f.page, f.links, f.err)
           /\ Stands(SearchFails(f, type), "report", f.session, f.page, f.links, "some")
  <1>0. ASSUME NEW e, IsSearch(e, R), NEW m
        PROVE  Stands(SearchAt(e, m), m, e.session, e.page, e.links, e.err)
               /\ SearchAt(e, m) = [proc |-> e.proc, at |-> m, session |-> e.session,
                     page |-> e.page, found |-> e.found, links |-> e.links, type |-> e.type,
                     err |-> e.err, id |-> e.id]
    <2>1. SearchAt(e, m)
          = [proc |-> e.proc, at |-> m, session |-> e.session, page |-> e.page, found |-> e.found,
             links |-> e.links, type |-> e.type, err |-> e.err, id |-> e.id]
      BY <1>0 DEF SearchAt, IsSearch, SearchOK
    <2> QED
      BY <1>0, <2>1 DEF Stands, IsSearch
  <1>1. Stands(SearchWith(f, s), "fetch", s, f.page, f.links, f.err)
    <2>1. PICK g : g = SearchAt(f, "fetch")
      OBVIOUS
    <2>2. PICK h : h = [g EXCEPT !.session = s]
      OBVIOUS
    <2>3. SearchWith(f, s) = h
      BY <2>1, <2>2, Zenon DEF SearchWith, SearchAt
    <2>4. g = [proc |-> f.proc, at |-> "fetch", session |-> f.session, page |-> f.page,
               found |-> f.found, links |-> f.links, type |-> f.type, err |-> f.err, id |-> f.id]
      BY <1>0, <2>1
    <2>5. h = [proc |-> f.proc, at |-> "fetch", session |-> s, page |-> f.page,
               found |-> f.found, links |-> f.links, type |-> f.type, err |-> f.err, id |-> f.id]
      BY ONLY <2>2, <2>4
    <2> QED
      BY <2>3, <2>5 DEF Stands, IsSearch
  <1>2. Stands(SearchReads(f, page, n), f.at, f.session, page, f.links, f.err)
    <2>1. PICK g : g = [f EXCEPT !.page = page]
      OBVIOUS
    <2>2. PICK h : h = [g EXCEPT !.found = n]
      OBVIOUS
    <2>3. SearchReads(f, page, n) = h
      BY <2>1, <2>2, Zenon DEF SearchReads
    <2>4. g = [proc |-> f.proc, at |-> f.at, session |-> f.session, page |-> page,
               found |-> f.found, links |-> f.links, type |-> f.type, err |-> f.err, id |-> f.id]
      BY <2>1 DEF IsSearch, SearchOK
    <2>5. h = [proc |-> f.proc, at |-> f.at, session |-> f.session, page |-> page,
               found |-> n, links |-> f.links, type |-> f.type, err |-> f.err, id |-> f.id]
      BY ONLY <2>2, <2>4
    <2> QED
      BY <2>3, <2>5 DEF Stands, IsSearch
  <1>3. Stands(SearchLinks(f, link), f.at, f.session, f.page, Append(f.links, link), f.err)
    <2>1. PICK links : links = Append(f.links, link)
      OBVIOUS
    <2>2. SearchLinks(f, link) = [f EXCEPT !.links = links]
      BY <2>1 DEF SearchLinks
    <2>3. [f EXCEPT !.links = links]
          = [proc |-> f.proc, at |-> f.at, session |-> f.session, page |-> f.page,
             found |-> f.found, links |-> links, type |-> f.type, err |-> f.err, id |-> f.id]
      BY DEF IsSearch, SearchOK
    <2> QED
      BY <2>1, <2>2, <2>3 DEF Stands, IsSearch
  <1>4. Stands(SearchNotes(f, id), "record", f.session, f.page, f.links, f.err)
    <2>1. PICK g : g = SearchAt(f, "record")
      OBVIOUS
    <2>2. PICK h : h = [g EXCEPT !.id = id]
      OBVIOUS
    <2>3. SearchNotes(f, id) = h
      BY <2>1, <2>2, Zenon DEF SearchNotes, SearchAt
    <2>4. g = [proc |-> f.proc, at |-> "record", session |-> f.session, page |-> f.page,
               found |-> f.found, links |-> f.links, type |-> f.type, err |-> f.err, id |-> f.id]
      BY <1>0, <2>1
    <2>5. h = [proc |-> f.proc, at |-> "record", session |-> f.session, page |-> f.page,
               found |-> f.found, links |-> f.links, type |-> f.type, err |-> f.err, id |-> id]
      BY ONLY <2>2, <2>4
    <2> QED
      BY <2>3, <2>5 DEF Stands, IsSearch
  <1>5. Stands(SearchFails(f, type), "report", f.session, f.page, f.links, "some")
    <2>1. PICK a : a = SearchAt(f, "report")
      OBVIOUS
    <2>2. PICK b : b = [a EXCEPT !.type = type]
      OBVIOUS
    <2>3. PICK c : c = [b EXCEPT !.err = "some"]
      OBVIOUS
    <2>4. PICK d : d = [c EXCEPT !.found = 0]
      OBVIOUS
    <2>5. SearchFails(f, type) = d
      BY <2>1, <2>2, <2>3, <2>4, Zenon DEF SearchFails, SearchAt
    <2>6. a = [proc |-> f.proc, at |-> "report", session |-> f.session, page |-> f.page,
               found |-> f.found, links |-> f.links, type |-> f.type, err |-> f.err, id |-> f.id]
      BY <1>0, <2>1
    <2>7. b = [proc |-> f.proc, at |-> "report", session |-> f.session, page |-> f.page,
               found |-> f.found, links |-> f.links, type |-> type, err |-> f.err, id |-> f.id]
      BY ONLY <2>2, <2>6
    <2>8. c = [proc |-> f.proc, at |-> "report", session |-> f.session, page |-> f.page,
               found |-> f.found, links |-> f.links, type |-> type, err |-> "some", id |-> f.id]
      BY ONLY <2>3, <2>7
    <2>9. d = [proc |-> f.proc, at |-> "report", session |-> f.session, page |-> f.page,
               found |-> 0, links |-> f.links, type |-> type, err |-> "some", id |-> f.id]
      BY ONLY <2>4, <2>8
    <2> QED
      BY <2>5, <2>9 DEF Stands, IsSearch
  <1> QED
    BY <1>0, <1>1, <1>2, <1>3, <1>4, <1>5

(* A search in its own world.                                              *)
OwnSearch(p, l0) ==
    /\ RunnerInv /\ At(p, "search", l0) /\ Own(p)
    /\ UNCHANGED <<def, sessionState, settled, remembered, optimistic, site, browser>>

(* What a search may do next.                                              *)
LEMMA SearchMoves ==
    ASSUME NEW p \in Callers, NEW l0, OwnSearch(p, l0), NEW w, w = World(p)
    PROVE  /\ IsSearch(Frame(p), Ready) /\ stack[p] # <<>>
           /\ Stands(Frame(p), l0, Frame(p).session, Frame(p).page, Frame(p).links, Frame(p).err)
           /\ SearchOwn(Frame(p), w) /\ TopOwn(Frame(p), answer[p], w, browser[Main])
           /\ \A g : /\ Goto(p, g) /\ g.proc = "search" /\ SearchOwn(g, w)
                     /\ g.at \in {"report", "record"}
                     => OwnNext(p)
           /\ \A type : Fails(p, type) /\ l0 \in {"request", "fetch", "extract"} => OwnNext(p)
           /\ \A g, path : /\ Call(p, g, ResolveCall(path)) /\ g.proc = "search" /\ SearchOwn(g, w)
                           /\ \/ g.at = "fetch" /\ path = w.def.searchPath /\ path # "magnet"
                              \/ g.at = "link" /\ path = "item"
                           => OwnNext(p)
           /\ \A a : Return(p, a) => OwnNext(p)
           /\ Panic(p) => OwnNext(p)
  <1> DEFINE f == Frame(p)
  <1>0. RunnerInv /\ CallsInv /\ At(p, "search", l0) /\ Own(p)
        /\ World(p)' = World(p) /\ browser' = browser
    BY SameWorld DEF OwnSearch, RunnerInv
  <1>1. /\ stack[p] # <<>> /\ f.proc = "search" /\ f.at = l0
        /\ IsSearch(f, Ready)
    BY <1>0, TopAt, SearchTop
  <1>2. /\ FrameOwn(f, w) /\ TopOwn(f, answer[p], w, browser[Main]) /\ Below(stack[p], w)
        /\ f = stack[p][1]
    BY <1>0, <1>1, OwnTop
  <1>3. SearchOwn(f, w)
    BY <1>1, <1>2 DEF FrameOwn
  <1>4. PICK v : v = browser'[Main]
    OBVIOUS
  <1>5. w = World(p)'
    BY <1>0
  <1>6. ASSUME NEW g, Goto(p, g), g.proc = "search", SearchOwn(g, w), g.at \in {"report", "record"}
        PROVE  OwnNext(p)
    <2>1. FrameOwn(g, w) /\ SameOwn(g, f) /\ TopOwn(g, NoAnswer, w, v)
      BY <1>1, <1>6 DEF FrameOwn, SameOwn, TopOwn, Asks, WebProc
    <2> QED
      BY <1>0, <1>1, <1>2, <1>4, <1>5, <1>6, <2>1, OwnGoto
  <1>7. ASSUME NEW type, Fails(p, type), l0 \in {"request", "fetch", "extract"} PROVE OwnNext(p)
    <2> DEFINE g == SearchFails(f, type)
    <2>1. Goto(p, g)
      BY <1>7 DEF Fails, SearchFails
    <2>2. Stands(g, "report", f.session, f.page, f.links, "some")
      BY <1>1, SearchFields
    <2> HIDE DEF g
    <2>3. f.links = <<>> /\ IsStack(f.links)
      BY <1>1, <1>3, <1>7 DEF SearchOwn
    <2>4. SearchOwn(g, w) /\ g.proc = "search" /\ g.at = "report"
      BY <2>2, <2>3 DEF SearchOwn, Stands
    <2> QED
      BY <1>6, <2>1, <2>4
  <1>8. ASSUME NEW g, NEW path, Call(p, g, ResolveCall(path)), g.proc = "search", SearchOwn(g, w),
               \/ g.at = "fetch" /\ path = w.def.searchPath /\ path # "magnet"
               \/ g.at = "link" /\ path = "item"
        PROVE  OwnNext(p)
    <2> DEFINE c == ResolveFrame(path)
    <2>1. FrameOwn(g, w) /\ SameOwn(g, f)
      BY <1>1, <1>8 DEF FrameOwn, SameOwn, Asks, WebProc
    <2>2. /\ ResolveCall(path) = <<c>> /\ c.proc = "resolve" /\ c.at = "look" /\ c.next = 1
          /\ c.path = path
      BY DEF ResolveCall, ResolveFrame
    <2> HIDE DEF c
    <2>3. FrameOwn(c, w) /\ TopOwn(c, NoAnswer, w, v)
      BY <2>2, StartsOwn DEF Starts
    <2>4. PairOwn(g, c, w.def)
      BY <1>8, <2>2 DEF PairOwn, WebProc
    <2> QED
      BY <1>0, <1>1, <1>2, <1>4, <1>5, <1>8, <2>1, <2>2, <2>3, <2>4, OwnCallOne
  <1>9. ASSUME NEW a, Return(p, a) PROVE OwnNext(p)
    <2>1. GivesOwn(f, a, w, v)
      BY <1>1 DEF GivesOwn, Asks, WebProc
    <2> QED
      BY <1>0, <1>1, <1>2, <1>4, <1>5, <1>9, <2>1, OwnReturn
  <1>10. Panic(p) => OwnNext(p)
    BY <1>0, OwnStays DEF Panic
  <1> QED
    BY <1>1, <1>2, <1>3, <1>6, <1>7, <1>8, <1>9, <1>10 DEF Stands

(* The items of a search's own page are gone through.                      *)
LEMMA ItemsOwn ==
    ASSUME NEW p \in Callers, NEW l0, OwnSearch(p, l0), NEW w, w = World(p),
           NEW f, IsSearch(f, Ready), Items(p, f), f.err = "none", f.session \in Sessions,
           OwnPage(f.page, f.session, w), IsStack(f.links),
           w.free \/ \A i \in DOMAIN f.links : f.links[i] = f.page.url.link
    PROVE  OwnNext(p)
  <1>1. \A l : Stands(SearchAt(f, l), l, f.session, f.page, f.links, f.err)
    BY SearchFields
  <1>2. \A l \in {"link", "report"} :
           SearchAt(f, l).proc = "search" /\ SearchAt(f, l).at = l /\ SearchOwn(SearchAt(f, l), w)
    BY <1>1 DEF Stands, SearchOwn, HasRead
  <1>3. \/ Call(p, SearchAt(f, "link"), ResolveCall("item")) \/ Goto(p, SearchAt(f, "report"))
    BY DEF Items, SearchAt
  <1> QED
    BY <1>2, <1>3, SearchMoves

(* What lies under the request of a search for its page.                   *)
LEMMA AsksOwn ==
    ASSUME NEW w, NEW v, NEW req, req.jar # Main, req.url.path = w.def.searchPath,
           w.free \/ req.url.link \in Lead(w),
           NEW c, c.proc \in {"fetch", "post"}, c.browser = Main, c.req = req
    PROVE  /\ FrameOwn(c, w)
           /\ c.at \in {"apply", "unknown"} => TopOwn(c, NoAnswer, w, v)
  BY DEF FrameOwn, TopOwn, Asks, WebProc

(* A search fetches its page with the cookies of its session, at the link  *)
(* that its address was resolved with.                                     *)
LEMMA FetchOwn ==
    ASSUME NEW p \in Callers, RunnerInv, SearchFetch(p), UNCHANGED settled, Own(p)
    PROVE  OwnNext(p)
  <1> DEFINE f == Frame(p)
             g == SearchAt(f, "extract")
             req == Request(def.method, answer[p].url, SessionJar(f.session))
  <1>1. OwnSearch(p, "fetch")
    BY DEF OwnSearch, SearchFetch, lower, webVars, sessionVars
  <1>2. PICK w : w = World(p)
    OBVIOUS
  <1>3. PICK v : v = browser'[Main]
    OBVIOUS
  <1>4. /\ IsSearch(f, Ready) /\ stack[p] # <<>> /\ SearchOwn(f, w)
        /\ f.at = "fetch" /\ f.proc = "search"
        /\ TopOwn(f, answer[p], w, browser[Main])
    BY <1>1, <1>2, SearchMoves DEF Stands
  <1>5. /\ RunnerInv /\ CallsInv /\ SiteInv /\ World(p)' = w /\ browser' = browser /\ At(p, "search", "fetch")
    BY <1>1, <1>2, SameWorld DEF OwnSearch, RunnerInv
  <1>6. f.session \in Sessions /\ f.session # Main
    BY <1>4, BrowserNumbers DEF IsSearch, SearchOK, Ready
  <1>7. Fails(p, "bad-target") \/ (answer[p].ok /\ Call(p, g, FetchCall(Main, req)))
    BY DEF SearchFetch, SearchAt
  <1>8. CASE Fails(p, "bad-target")
    BY <1>1, <1>2, <1>8, SearchMoves
  <1>9. CASE answer[p].ok /\ Call(p, g, FetchCall(Main, req))
    <2>1. /\ req.jar = f.session /\ req.url.path = w.def.searchPath
          /\ w.free \/ req.url.link \in Lead(w)
      BY <1>4, <1>5, <1>6, <1>9 DEF TopOwn, Request, SessionJar, SiteInv
    <2>2. Stands(g, "extract", f.session, f.page, f.links, f.err)
      BY <1>4, SearchFields
    <2>3. FrameOwn(g, w) /\ SameOwn(g, f)
      BY <1>4, <2>2 DEF FrameOwn, SearchOwn, Stands, HasRead, SameOwn, Asks, WebProc
    <2>4. ASSUME NEW c, c.proc = "fetch", c.req = req PROVE PairOwn(g, c, w.def)
      BY <1>6, <2>1, <2>2, <2>4 DEF PairOwn, Stands, WebProc
    <2>5. Below(stack[p], w)
      BY <1>2, <1>4, <1>5, OwnTop DEF OwnSearch
    <2> DEFINE post == WebFrame("post", "apply", Main, req)
               posted == WebFrame("fetch", "posted", Main, req)
               get == WebFrame("fetch", "apply", Main, req)
               got == [get EXCEPT !.hops = 0]
               unknown == WebFrame("fetch", "unknown", Main, req)
    <2>6. /\ post.proc = "post" /\ post.req = req /\ post.at = "apply" /\ post.browser = Main
          /\ posted.proc = "fetch" /\ posted.req = req /\ posted.at = "posted" /\ posted.browser = Main
          /\ got.proc = "fetch" /\ got.req = req /\ got.at = "apply" /\ got.browser = Main
          /\ unknown.proc = "fetch" /\ unknown.req = req /\ unknown.at = "unknown"
          /\ unknown.browser = Main
      BY DEF WebFrame
    <2>7. FetchCall(Main, req) \in {<<got>>, <<post>> \o <<posted>>, <<unknown>>}
      BY DEF PostCall, FetchCall, GetCall
    <2> HIDE DEF post, posted, get, got, unknown, req, g
    <2>8. /\ FrameOwn(got, w) /\ FrameOwn(unknown, w) /\ FrameOwn(post, w) /\ FrameOwn(posted, w)
          /\ TopOwn(got, NoAnswer, w, v) /\ TopOwn(unknown, NoAnswer, w, v)
          /\ TopOwn(post, NoAnswer, w, v)
      BY <1>6, <2>1, <2>6, AsksOwn
    <2>9. PairOwn(posted, post, w.def)
      BY <2>6 DEF PairOwn, WebProc
    <2>10. ASSUME NEW c, c \in {got, unknown}, FetchCall(Main, req) = <<c>> PROVE OwnNext(p)
      <3>1. FrameOwn(c, w) /\ TopOwn(c, NoAnswer, w, v) /\ PairOwn(g, c, w.def)
        BY <2>4, <2>6, <2>8, <2>10
      <3> QED
        BY <1>3, <1>4, <1>5, <1>9, <2>3, <2>5, <2>10, <3>1, OwnCallOne
    <2>11. CASE FetchCall(Main, req) = <<post>> \o <<posted>>
      <3>1. PairOwn(g, posted, w.def)
        BY <2>4, <2>6
      <3> QED
        BY <1>3, <1>4, <1>5, <1>9, <2>3, <2>5, <2>8, <2>9, <2>11, <3>1, OwnCallTwo
    <2> QED
      BY <2>7, <2>10, <2>11
  <1> QED
    BY <1>7, <1>8, <1>9

(* The steps of a search keep to its own page.                             *)
LEMMA SearchOwns ==
    ASSUME NEW p \in Callers, RunnerInv, UNCHANGED settled, Own(p), def.searchPath # "magnet",
           \/ CreateRequest(p) \/ SearchFetch(p) \/ Extract(p)
           \/ LinkItem(p) \/ NoteError(p) \/ SearchReturns(p)
    PROVE  OwnNext(p)
  <1> DEFINE f == Frame(p)
  <1>0. PICK w : w = World(p)
    OBVIOUS
  <1>1. ASSUME NEW l, At(p, "search", l),
               \/ CreateRequest(p) \/ Extract(p) \/ LinkItem(p) \/ NoteError(p) \/ SearchReturns(p)
        PROVE  /\ OwnSearch(p, l)
               /\ IsSearch(f, Ready) /\ Stands(f, l, f.session, f.page, f.links, f.err)
               /\ SearchOwn(f, w) /\ TopOwn(f, answer[p], w, browser[Main])
    <2>1. OwnSearch(p, l)
      BY <1>1 DEF OwnSearch, CreateRequest, Extract, LinkItem, NoteError, SearchReturns,
         lower, webVars, sessionVars
    <2> QED
      BY <1>0, <2>1, SearchMoves
  <1>2. CASE CreateRequest(p)
    <2> DEFINE g == SearchWith(f, answer[p].items)
    <2>1. At(p, "search", "request")
      BY <1>2 DEF CreateRequest
    <2>2. \/ Fails(p, "login") \/ Fails(p, "bad-target") \/ Call(p, g, ResolveCall(def.searchPath))
      BY <1>2 DEF CreateRequest, SearchWith
    <2>3. Stands(g, "fetch", answer[p].items, f.page, f.links, f.err)
      BY <1>1, <1>2, <2>1, SearchFields
    <2> HIDE DEF g
    <2>4. g.proc = "search" /\ g.at = "fetch" /\ SearchOwn(g, w)
      BY <1>1, <1>2, <2>1, <2>3 DEF Stands, SearchOwn, HasRead
    <2>5. w.def.searchPath = def.searchPath
      BY <1>0 DEF World
    <2> QED
      BY <1>0, <1>1, <1>2, <2>1, <2>2, <2>4, <2>5, SearchMoves
  <1>3. CASE Extract(p)
    <2>1. At(p, "search", "extract")
      BY <1>3 DEF Extract
    <2>2. \/ Fails(p, "cant-fetch-content") \/ Panic(p)
          \/ answer[p].ok /\ \E n : Items(p, SearchReads(f, answer[p].page, n))
      BY <1>3 DEF Extract, SearchReads
    <2>3. ASSUME NEW n, Items(p, SearchReads(f, answer[p].page, n)), answer[p].ok PROVE OwnNext(p)
      <3> DEFINE g == SearchReads(f, answer[p].page, n)
      <3>1. IsSearch(g, Ready) /\ Stands(g, "extract", f.session, answer[p].page, f.links, f.err)
        BY <1>1, <1>3, <2>1, SearchReadsOn, SearchFields DEF Stands
      <3>2. f.session \in Sessions /\ f.err = "none" /\ f.links = <<>> /\ IsStack(f.links)
            /\ OwnPage(answer[p].page, f.session, w)
        BY <1>1, <1>3, <2>1, <2>3
        DEF IsSearch, SearchOK, Ready, Stands, SearchOwn, TopOwn
      <3> HIDE DEF g
      <3>3. OwnPage(g.page, g.session, w) /\ g.session \in Sessions /\ g.err = "none"
            /\ IsStack(g.links) /\ g.links = <<>>
        BY <3>1, <3>2 DEF Stands
      <3>4. DOMAIN g.links = {}
        BY <3>3
      <3> QED
        BY <1>0, <1>1, <1>3, <2>1, <2>3, <3>1, <3>3, <3>4, ItemsOwn DEF g
    <2> QED
      BY <1>0, <1>1, <1>3, <2>1, <2>2, <2>3, SearchMoves
  <1>4. CASE LinkItem(p)
    <2> DEFINE link == answer[p].url.link
               g == SearchLinks(f, link)
    <2>1. At(p, "search", "link") /\ Items(p, g)
      BY <1>4 DEF LinkItem, SearchLinks
    <2>2. IsSearch(g, Ready) /\ Stands(g, "link", f.session, f.page, Append(f.links, link), f.err)
      BY <1>1, <1>4, <2>1, SearchLinksOn, SearchFields DEF Stands
    <2>3. /\ f.session \in Sessions /\ f.err = "none" /\ IsStack(f.links)
          /\ OwnPage(f.page, f.session, w)
          /\ w.free \/ \A i \in DOMAIN f.links : f.links[i] = f.page.url.link
          /\ w.free \/ link = f.page.url.link
      BY <1>1, <1>4, <2>1 DEF Stands, SearchOwn, HasRead, TopOwn
    <2> HIDE DEF g, link
    <2>4. PICK s, t : s = f.links /\ t = Append(f.links, link)
      OBVIOUS
    <2>5. PICK S : s \in Seq(S)
      BY <2>3, <2>4 DEF IsStack
    <2>6. /\ t \in Seq(S \cup {link}) /\ Len(t) = Len(s) + 1 /\ Len(s) \in Nat
          /\ \A i \in 1 .. Len(s) : t[i] = s[i]
          /\ t[Len(s) + 1] = link
      BY <2>4, <2>5
    <2>7. DOMAIN s = 1 .. Len(s) /\ DOMAIN t = 1 .. Len(t)
      BY <2>5, <2>6
    <2>8. w.free \/ \A i \in DOMAIN t : t[i] = f.page.url.link
      BY <2>3, <2>4, <2>6, <2>7
    <2>9. IsStack(t) /\ g.links = t /\ g.page = f.page /\ g.session = f.session /\ g.err = f.err
      BY <2>2, <2>4, <2>6 DEF IsStack, Stands
    <2> QED
      BY <1>0, <1>1, <1>4, <2>1, <2>2, <2>3, <2>8, <2>9, ItemsOwn
  <1>5. CASE NoteError(p)
    <2> DEFINE g == SearchNotes(f, ErrorId)
    <2>1. At(p, "search", "report") /\ Goto(p, g)
      BY <1>5 DEF NoteError, SearchNotes
    <2>2. Stands(g, "record", f.session, f.page, f.links, f.err)
      BY <1>1, <1>5, <2>1, SearchFields
    <2> HIDE DEF g
    <2>3. g.proc = "search" /\ g.at = "record" /\ SearchOwn(g, w)
      BY <1>1, <1>5, <2>1, <2>2 DEF Stands, SearchOwn, HasRead
    <2> QED
      BY <1>0, <1>1, <1>5, <2>1, <2>3, SearchMoves
  <1>6. CASE SearchReturns(p)
    <2>1. At(p, "search", "record") /\ \E a : Return(p, a)
      BY <1>6 DEF SearchReturns
    <2> QED
      BY <1>0, <1>1, <1>6, <2>1, SearchMoves
  <1> QED
    BY <1>2, <1>3, <1>4, <1>5, <1>6, FetchOwn

-------------------------------------------------------------------------------
(* The urls of the resolver. *)

(* What the frames hold that a resolution goes on with.                    *)
LEMMA ResolveFields ==
    ASSUME NEW R, NEW K, NEW f, f.proc = "resolve", FrameOK(f, R, K)
    PROVE  /\ Tested(f).proc = "resolve" /\ Tested(f).at = "tested"
           /\ Tested(f).next = f.next /\ Tested(f).path = f.path
           /\ LooksOn(f).proc = "resolve" /\ LooksOn(f).at = "look"
           /\ LooksOn(f).next = f.next + 1 /\ LooksOn(f).path = f.path
  <1>1. f = [proc |-> f.proc, at |-> f.at, next |-> f.next, path |-> f.path]
    BY DEF FrameOK, WebProc
  <1>2. Tested(f) = [proc |-> f.proc, at |-> "tested", next |-> f.next, path |-> f.path]
    BY <1>1 DEF Tested
  <1>3. PICK e : e = [f EXCEPT !.at = "look"]
    OBVIOUS
  <1>4. PICK n : n = f.next + 1
    OBVIOUS
  <1>5. PICK g : g = [e EXCEPT !.next = n]
    OBVIOUS
  <1>6. LooksOn(f) = g
    BY <1>3, <1>4, <1>5, Zenon DEF LooksOn
  <1>7. e = [proc |-> f.proc, at |-> "look", next |-> f.next, path |-> f.path]
    BY <1>1, <1>3
  <1>8. g = [proc |-> f.proc, at |-> "look", next |-> n, path |-> f.path]
    BY ONLY <1>5, <1>7
  <1> QED
    BY <1>2, <1>4, <1>6, <1>8

(* Once every url was given up there was none to resolve an address with.  *)
LEMMA NoneLeads ==
    ASSUME NEW w, w.ok \subseteq Places(w.def), NEW n \in Clear(w), n \notin Places(w.def)
    PROVE  Lead(w) = {}
  <1> SUFFICES ASSUME NEW m \in w.ok \cap Clear(w) PROVE FALSE
    BY DEF Lead
  <1>1. m \in Places(w.def) /\ m \in Nat \ {0} /\ n \in Nat \ {0}
    BY DEF Clear
  <1>2. CASE m < n
    BY <1>1, <1>2 DEF Clear
  <1>3. CASE n < m
    BY <1>1, <1>3 DEF Clear
  <1> QED
    BY <1>1, <1>2, <1>3

(* Nor is there one before an url is found to work that was not known to.  *)
LEMMA NoneLed ==
    ASSUME NEW w, NEW n \in Clear(w), n \notin w.ok, n \in w.up
    PROVE  Lead(w) = {}
  <1> SUFFICES ASSUME NEW m \in w.ok \cap Clear(w) PROVE FALSE
    BY DEF Lead
  <1>1. m \in Nat \ {0} /\ n \in Nat \ {0}
    BY DEF Clear
  <1>2. CASE m < n
    BY <1>1, <1>2 DEF Clear
  <1>3. CASE n < m
    BY <1>1, <1>3 DEF Clear
  <1> QED
    BY <1>1, <1>2, <1>3

(* After one more url was given up the next one is looked at.              *)
LEMMA ClearOn ==
    ASSUME NEW w, NEW n \in Clear(w), n \in Places(w.def), n \notin w.ok, n \notin w.up
    PROVE  n + 1 \in Clear(w)
  <1>1. n \in Nat \ {0}
    BY DEF Clear
  <1>2. ASSUME NEW j \in 1 .. (n + 1) - 1 PROVE j \in Places(w.def) \ (w.ok \cup w.up)
    <2>1. j = n \/ j \in 1 .. n - 1
      BY <1>1
    <2> QED
      BY <2>1 DEF Clear
  <1> QED
    BY <1>1, <1>2 DEF Clear

(* An url that is found to work is the one that addresses are resolved     *)
(* with from now on.                                                       *)
LEMMA LeadsOn ==
    ASSUME NEW u, NEW w, w.def = u.def, w.up = u.up, NEW n \in Clear(u), n \in u.up, n \in w.ok,
           \A j \in Places(u.def) :
              j \in w.ok => j \in u.ok \/ ResolverUrls(u.def)[j] = ResolverUrls(u.def)[n],
           \A j \in Places(u.def) :
              ResolverUrls(u.def)[j] = ResolverUrls(u.def)[n] => j \in u.up
    PROVE  ResolverUrls(u.def)[n] \in Lead(w)
  <1>1. n \in Clear(w)
    BY DEF Clear
  <1> QED
    BY <1>1 DEF Lead

(* The url is looked up.                                                   *)
LEMMA LookOwn ==
    ASSUME NEW p \in Callers, RunnerInv, ResolveLook(p), UNCHANGED <<sessionVars, settled>>, Own(p)
    PROVE  OwnNext(p)
  <1> DEFINE f == Frame(p)
             urls == ResolverUrls(def)
  <1>1. RunnerInv /\ CallsInv /\ At(p, "resolve", "look") /\ World(p)' = World(p)
        /\ browser' = browser
    BY SameWorld DEF RunnerInv, ResolveLook, webVars, sessionVars
  <1>2. stack[p] # <<>> /\ f.proc = "resolve" /\ f.at = "look" /\ FrameOK(f, Ready, Known)
    BY <1>1, TopAt
  <1>3. PICK w, v : w = World(p)' /\ v = browser'[Main]
    OBVIOUS
  <1>4. w = World(p)
    BY <1>1, <1>3
  <1>5. FrameOwn(f, w) /\ Below(stack[p], w)
    BY <1>1, <1>2, <1>4, OwnTop
  <1>6. f.next \in Nat \ {0} /\ (w.free \/ f.next \in Clear(w))
    BY <1>2, <1>5 DEF FrameOwn, ResolveOwn
  <1>7. w.def = def /\ w.ok = {n \in Places(def) : IsOk(Root(urls[n]))}
    BY <1>4, WorldIs
  <1>8. ASSUME NEW a, Return(p, a), GivesOwn(f, a, w, v) PROVE OwnNext(p)
    BY <1>1, <1>2, <1>3, <1>5, <1>8, OwnReturn
  <1>9. CASE f.path = "magnet"
    <2>1. Return(p, Resolved("none", "magnet"))
      BY <1>9 DEF ResolveLook
    <2>2. GivesOwn(f, Resolved("none", "magnet"), w, v)
      BY <1>2, <1>9 DEF GivesOwn, Asks, WebProc
    <2> QED
      BY <1>8, <2>1, <2>2
  <1>10. CASE f.path # "magnet" /\ f.next > Len(urls)
    <2>1. Return(p, Failed)
      BY <1>10 DEF ResolveLook
    <2>2. f.next \notin Places(w.def) /\ w.ok \subseteq Places(w.def)
      BY <1>7, <1>10 DEF Places
    <2>3. w.free \/ Lead(w) = {}
      BY <1>6, <2>2, NoneLeads
    <2>4. ~Failed.ok
      BY DEF Failed
    <2>5. GivesOwn(f, Failed, w, v)
      BY <1>2, <2>3, <2>4 DEF GivesOwn, Asks, WebProc
    <2> QED
      BY <1>8, <2>1, <2>5
  <1>11. CASE f.path # "magnet" /\ ~(f.next > Len(urls)) /\ urls[f.next] = Unparsable
    <2>1. Panic(p)
      BY <1>11 DEF ResolveLook
    <2> QED
      BY <1>1, <2>1, OwnStays DEF Panic
  <1>12. CASE /\ f.path # "magnet" /\ ~(f.next > Len(urls)) /\ urls[f.next] # Unparsable
              /\ IsOk(Root(urls[f.next]))
    <2> DEFINE a == Resolved(urls[f.next], f.path)
    <2>1. Return(p, a)
      BY <1>12 DEF ResolveLook
    <2>2. f.next \in w.ok
      BY <1>6, <1>7, <1>12 DEF Places
    <2>3. w.free \/ urls[f.next] \in Lead(w)
      BY <1>6, <1>7, <2>2 DEF Lead
    <2>4. a.ok /\ a.url.path = f.path /\ a.url.link = urls[f.next]
      BY DEF Resolved, Failed, Url
    <2> HIDE DEF a
    <2>5. GivesOwn(f, a, w, v)
      BY <1>2, <2>3, <2>4 DEF GivesOwn, Asks, WebProc
    <2> QED
      BY <1>8, <2>1, <2>5
  <1>13. CASE /\ f.path # "magnet" /\ ~(f.next > Len(urls)) /\ urls[f.next] # Unparsable
              /\ ~IsOk(Root(urls[f.next]))
    <2> DEFINE g == Tested(f)
               url == Root(urls[f.next])
               c == WebFrame("open", "load", Main, Request("get", url, Main))
    <2>1. Call(p, g, OpenCall(Main, url))
      BY <1>13 DEF ResolveLook, Tested
    <2>2. g.proc = "resolve" /\ g.at = "tested" /\ g.next = f.next /\ g.path = f.path
      BY <1>2, ResolveFields
    <2>3. OpenCall(Main, url) = <<c>>
      BY DEF OpenCall
    <2>4. c.proc = "open" /\ c.at = "load" /\ c.browser = Main /\ c.req.jar = Main /\ c.req.url = url
      BY DEF WebFrame, Request
    <2> HIDE DEF c, g
    <2>5. f.next \in Places(w.def) /\ f.next \notin w.ok
      BY <1>6, <1>7, <1>13 DEF Places
    <2>6. FrameOwn(g, w) /\ SameOwn(g, f)
      BY <1>2, <1>6, <2>2, <2>5 DEF FrameOwn, ResolveOwn, SameOwn, Asks, WebProc
    <2>7. FrameOwn(c, w) /\ TopOwn(c, NoAnswer, w, v)
      BY <2>4 DEF FrameOwn, TopOwn, Asks, WebProc
    <2>8. PairOwn(g, c, w.def)
      BY <1>7, <2>2, <2>4 DEF PairOwn, WebProc
    <2> QED
      BY <1>1, <1>2, <1>3, <1>5, <2>1, <2>3, <2>6, <2>7, <2>8, OwnCallOne
  <1> QED
    BY <1>9, <1>10, <1>11, <1>12, <1>13

(* The url was tested.                                                     *)
LEMMA TestedOwn ==
    ASSUME NEW p \in Callers, RunnerInv, ResolveTested(p), UNCHANGED <<sessionVars, settled>>, Own(p)
    PROVE  OwnNext(p)
  <1> DEFINE f == Frame(p)
             link == ResolverUrls(def)[f.next]
  <1>1. RunnerInv /\ CallsInv /\ At(p, "resolve", "tested") /\ browser' = browser
        /\ UNCHANGED <<def, site, optimistic, sessionState, settled>>
    BY DEF RunnerInv, ResolveTested, webVars, sessionVars
  <1>2. stack[p] # <<>> /\ f.proc = "resolve" /\ f.at = "tested" /\ FrameOK(f, Ready, Known)
    BY <1>1, TopAt
  <1>3. PICK w, v : w = World(p)' /\ v = browser'[Main]
    OBVIOUS
  <1>4. PICK u : u = World(p)
    OBVIOUS
  <1>5. /\ FrameOwn(f, u) /\ TopOwn(f, answer[p], u, browser[Main])
        /\ Below(stack[p], u) /\ f = stack[p][1] /\ OwnStack(stack[p], u)
    BY <1>1, <1>2, <1>4, OwnTop DEF Own, OwnCall
  <1>6. /\ f.next \in Nat \ {0} /\ (u.free \/ f.next \in Clear(u))
        /\ f.next \in Places(u.def) /\ (u.free \/ f.next \notin u.ok)
        /\ Judges(answer[p], f.next, u)
    BY <1>2, <1>5 DEF FrameOwn, ResolveOwn, TopOwn
  <1>7. CASE ValidBrowserCall(answer[p])
    <2> DEFINE a == Resolved(link, f.path)
    <2>1. Return(p, a) /\ remembered' = KnownGood(Root(link))
      BY <1>7 DEF ResolveTested, Test
    <2>2. /\ w.def = u.def /\ w.up = u.up /\ w.must = u.must /\ w.free = u.free
          /\ u.def = def
      BY <1>1, <1>3, <1>4 DEF World, Places
    <2>3. \A l : (IF optimistic THEN Root(l) \notin remembered' ELSE Root(l) \in remembered')
                 <=> IsOk(Root(l)) \/ l = link
      BY <2>1 DEF IsOk, KnownGood, Root, Url
    <2>4. /\ u.ok = {n \in Places(def) : IsOk(Root(ResolverUrls(def)[n]))}
          /\ u.up = {n \in Places(def) : site[ResolverUrls(def)[n]] = "up"}
      BY <1>4, WorldIs
    <2>5. w.ok = {n \in Places(def) : IsOk(Root(ResolverUrls(def)[n])) \/ ResolverUrls(def)[n] = link}
      <3>1. w.ok = {n \in Places(def) :
                      IF optimistic THEN Root(ResolverUrls(def)[n]) \notin remembered'
                      ELSE Root(ResolverUrls(def)[n]) \in remembered'}
        BY <1>1, <1>3 DEF World, IsOk, Root, Places
      <3> QED
        BY <2>3, <3>1
    <2>6. u.free \/ f.next \in u.up
      BY <1>6, <1>7 DEF Judges
    <2>7. w.free \/ (Lead(u) = {} /\ link \in Lead(w))
      <3> SUFFICES ASSUME ~w.free PROVE Lead(u) = {} /\ link \in Lead(w)
        OBVIOUS
      <3>1. f.next \in Clear(u) /\ f.next \notin u.ok /\ f.next \in u.up
        BY <1>6, <2>2, <2>6
      <3>2. Lead(u) = {}
        BY <3>1, NoneLed
      <3>3. f.next \in w.ok
        BY <1>6, <2>2, <2>5
      <3>4. \A j \in Places(u.def) : /\ j \in w.ok => j \in u.ok \/ ResolverUrls(u.def)[j] = link
                                     /\ ResolverUrls(u.def)[j] = link => j \in u.up
        BY <2>2, <2>4, <2>5, <3>1
      <3>5. link \in Lead(w)
        BY <2>2, <3>1, <3>3, <3>4, LeadsOn
      <3> QED
        BY <3>2, <3>5
    <2>8. Below(stack[p], w)
      BY <1>2, <1>5, <2>2, <2>7, BelowChanged
    <2>9. a.ok /\ a.url.path = f.path /\ a.url.link = link
      BY DEF Resolved, Failed, Url
    <2> HIDE DEF a
    <2>10. GivesOwn(f, a, w, v)
      BY <1>2, <2>7, <2>9 DEF GivesOwn, Asks, WebProc
    <2> QED
      BY <1>1, <1>2, <1>3, <2>1, <2>8, <2>10, OwnReturn
  <1>8. CASE ~ValidBrowserCall(answer[p])
    <2> DEFINE g == LooksOn(f)
    <2>1. Goto(p, g) /\ remembered' = remembered
      BY <1>8 DEF ResolveTested, Test, LooksOn
    <2>2. w = u
      BY <1>1, <1>3, <1>4, <2>1, SameWorld
    <2>3. g.proc = "resolve" /\ g.at = "look" /\ g.next = f.next + 1 /\ g.path = f.path
      BY <1>2, ResolveFields
    <2> HIDE DEF g
    <2>4. w.free \/ f.next + 1 \in Clear(w)
      BY <1>6, <1>8, <2>2, ClearOn DEF Judges
    <2>5. FrameOwn(g, w) /\ SameOwn(g, f) /\ TopOwn(g, NoAnswer, w, v)
      BY <1>2, <1>6, <2>3, <2>4 DEF FrameOwn, ResolveOwn, SameOwn, TopOwn, Asks, WebProc
    <2> QED
      BY <1>1, <1>2, <1>3, <1>5, <2>1, <2>2, <2>5, OwnGoto
  <1> QED
    BY <1>7, <1>8

-------------------------------------------------------------------------------
(* The requests of a search for its page. *)

(* A request goes on, at another place.                                    *)
WebGoes(g, f, l, req) ==
    g.proc = f.proc /\ g.browser = f.browser /\ g.at = l /\ g.req = req

(* What the frames of the client hold that go on.                          *)
LEMMA WebFields ==
    ASSUME NEW f, WebOK(f), NEW l, NEW next
    PROVE  /\ WebGoes([f EXCEPT !.at = l], f, l, f.req)
           /\ WebGoes(Follows(f, l, next), f, l, next)
           /\ \A n : WebGoes([Follows(f, l, next) EXCEPT !.hops = n], f, l, next)
  <1>1. WebGoes([f EXCEPT !.at = l], f, l, f.req)
    <2>1. [f EXCEPT !.at = l]
          = [proc |-> f.proc, at |-> l, browser |-> f.browser, req |-> f.req, hops |-> f.hops]
      BY DEF WebOK
    <2> QED
      BY <2>1 DEF WebGoes
  <1>2. PICK e : e = [f EXCEPT !.at = l]
    OBVIOUS
  <1>3. PICK g : g = [e EXCEPT !.req = next]
    OBVIOUS
  <1>4. Follows(f, l, next) = g
    BY <1>2, <1>3 DEF Follows
  <1>5. e = [proc |-> f.proc, at |-> l, browser |-> f.browser, req |-> f.req, hops |-> f.hops]
    BY <1>2 DEF WebOK
  <1>6. g = [proc |-> f.proc, at |-> l, browser |-> f.browser, req |-> next, hops |-> f.hops]
    BY ONLY <1>3, <1>5
  <1>7. ASSUME NEW n PROVE WebGoes([g EXCEPT !.hops = n], f, l, next)
    <2>1. [g EXCEPT !.hops = n]
          = [proc |-> f.proc, at |-> l, browser |-> f.browser, req |-> next, hops |-> n]
      BY <1>6
    <2> QED
      BY <2>1 DEF WebGoes
  <1> QED
    BY <1>1, <1>4, <1>6, <1>7 DEF WebGoes

(* A request of somebody's that is under way.                              *)
OwnWeb(p, proc, l) ==
    /\ RunnerInv /\ proc \in WebProc /\ At(p, proc, l) /\ WebStep(p) /\ Own(p)
    /\ UNCHANGED <<def, sessionVars, settled>>

(* What it may do next.                                                    *)
LEMMA WebMoves ==
    ASSUME NEW p \in Callers, NEW proc, NEW l, OwnWeb(p, proc, l),
           NEW u, u = World(p), NEW w, w = World(p)', NEW v, v = browser'[Main]
    PROVE  /\ stack[p] # <<>> /\ Frame(p).proc = proc /\ Frame(p).at = l /\ WebOK(Frame(p))
           /\ proc \in WebProc /\ Frame(p).browser \in Browsers
           /\ w.def = u.def /\ w.must = u.must /\ w.free = u.free /\ w.up = u.up
           /\ remembered' = remembered => w = u
           /\ Asks(Frame(p)) => /\ Frame(p).proc # "open" /\ Frame(p).browser = Main
                                /\ Frame(p).req.url.path \in {w.def.searchPath, "browse"}
           /\ TopOwn(Frame(p), answer[p], u, browser[Main])
           /\ Below(stack[p], w)
           /\ \A g, m, req :
                 /\ Goto(p, g) /\ WebGoes(g, Frame(p), m, req) /\ req.jar = Frame(p).req.jar
                 /\ proc = "open" => req = Frame(p).req
                 /\ Asks(g) => req.url.path \in {w.def.searchPath, "browse"}
                 /\ TopOwn(g, NoAnswer, w, v)
                 => OwnNext(p)
           /\ \A a : Return(p, a) /\ GivesOwn(Frame(p), a, w, v) => OwnNext(p)
  <1> DEFINE f == Frame(p)
  <1>1. RunnerInv /\ CallsInv /\ proc \in WebProc /\ At(p, proc, l) /\ Own(p) /\ WebStep(p)
        /\ UNCHANGED <<def, sessionState, settled, site, optimistic>>
    BY DEF OwnWeb, RunnerInv, WebStep, UnknownMethod, FetchPosted, Apply, Load, PostForm,
       MetaRefresh, PostRefreshed, ReadPage, webVars, sessionVars
  <1>2. stack[p] # <<>> /\ f.proc = proc /\ f.at = l /\ FrameOK(f, Ready, Known)
    BY <1>1, TopAt
  <1>3. WebOK(f) /\ f.browser \in Browsers
    BY <1>1, <1>2 DEF FrameOK, WebOK, WebProc
  <1>4. w.def = u.def /\ w.must = u.must /\ w.free = u.free /\ w.up = u.up
    BY <1>1 DEF World, Places
  <1>5. remembered' = remembered => w = u
    BY <1>1, SameWorld
  <1>6. proc = "open" => remembered' = remembered
    BY <1>1, <1>2 DEF WebStep, UnknownMethod, FetchPosted, Apply, Load, PostForm,
       MetaRefresh, PostRefreshed, ReadPage, At
  <1>7. /\ FrameOwn(f, u) /\ TopOwn(f, answer[p], u, browser[Main])
        /\ Below(stack[p], u) /\ f = stack[p][1] /\ OwnStack(stack[p], u)
    BY <1>1, <1>2, OwnTop DEF Own, OwnCall
  <1>8. Below(stack[p], w)
    <2>1. CASE proc = "open"
      BY <1>5, <1>6, <1>7, <2>1
    <2>2. CASE proc # "open"
      BY <1>1, <1>2, <1>4, <1>7, <2>2, BelowChanged DEF WebProc
    <2> QED
      BY <2>1, <2>2
  <1>9. Asks(f) => /\ f.proc # "open" /\ f.browser = Main
                   /\ f.req.url.path \in {w.def.searchPath, "browse"}
    BY <1>4, <1>7 DEF FrameOwn
  <1>10. ASSUME NEW g, NEW m, NEW req, Goto(p, g), WebGoes(g, f, m, req), req.jar = f.req.jar,
                proc = "open" => req = f.req,
                Asks(g) => req.url.path \in {w.def.searchPath, "browse"},
                TopOwn(g, NoAnswer, w, v)
         PROVE  OwnNext(p)
    <2>1. SameOwn(g, f) /\ (Asks(g) => Asks(f))
      BY <1>1, <1>2, <1>10 DEF SameOwn, WebGoes, Asks, WebProc
    <2>2. FrameOwn(g, w)
      BY <1>1, <1>2, <1>9, <1>10, <2>1 DEF FrameOwn, WebGoes, WebProc
    <2> QED
      BY <1>1, <1>2, <1>8, <1>10, <2>1, <2>2, OwnGoto
  <1>11. ASSUME NEW a, Return(p, a), GivesOwn(f, a, w, v) PROVE OwnNext(p)
    BY <1>1, <1>2, <1>8, <1>11, OwnReturn
  <1> HIDE DEF f
  <1> QED
    BY <1>1, <1>2, <1>3, <1>4, <1>5, <1>7, <1>8, <1>9, <1>10, <1>11 DEF f

(* A request that failed tells nobody anything but of the page it was to   *)
(* open.                                                                   *)
LEMMA FailsOwn ==
    ASSUME NEW f, NEW w, NEW v, f.proc \in WebProc,
           f.proc = "open" /\ f.browser = Main =>
              \A n \in Places(w.def) : f.req.url = Root(ResolverUrls(w.def)[n]) => n \notin w.up
    PROVE  GivesOwn(f, Failed, w, v)
  <1>1. ~Failed.ok
    BY DEF Failed
  <1> QED
    BY <1>1 DEF GivesOwn, Judges, ValidBrowserCall, WebProc

(* A page that is shown to who is logged in shows his name.                *)
LEMMA ShownOwn ==
    ASSUME RunnerInv, NEW p, NEW w, w.must = World(p).must, NEW url, NEW jar, NEW page,
           \/ \E hops : page \in PagesAt(url, jar, hops)
           \/ page = LoginAnswer(url, jar),
           url.path \in {w.def.searchPath, "browse"}, w.free \/ url.link \in Lead(w)
    PROVE  OwnPage(page, jar, w)
  <1>1. /\ page.url = url /\ page.refresh \in {"none", "browse"}
        /\ jar \in Known => page.user = jar
    <2>1. ASSUME NEW hops, page \in PagesAt(url, jar, hops)
          PROVE  /\ page.url = url /\ page.refresh \in {"none", "browse"}
                 /\ page.user = IF jar \in siteUsers THEN jar ELSE 0
      <3>1. /\ page.url \in {url} /\ page.user \in {IF jar \in siteUsers THEN jar ELSE 0}
            /\ page.refresh \in IF url.path = "search" /\ hops < RefreshBound
                                THEN {"none", "browse"} ELSE {"none"}
        BY <2>1 DEF PagesAt
      <3> QED
        BY <3>1
    <2>2. CASE page = LoginAnswer(url, jar)
      <3>1. page.url = url /\ page.refresh = "none" /\ page.user = IF accepts THEN jar ELSE 0
        BY <2>2 DEF LoginAnswer
      <3> QED
        BY <3>1 DEF Known
    <2> QED
      BY <2>1, <2>2 DEF Known
  <1>2. jar \in w.must => jar \in Known
    BY DEF World, RunnerInv, SessionInv, LoggedIn
  <1> QED
    BY <1>1, <1>2 DEF OwnPage

(* A browser gets a page.                                                  *)
LEMMA PutPage ==
    ASSUME SiteInv, NEW b \in Browsers, NEW page, browser' = [browser EXCEPT ![b].page = page]
    PROVE  browser'[b].page = page /\ browser'[b].jar = browser[b].jar
  <1>1. browser[b] = [jar |-> browser[b].jar, page |-> browser[b].page]
    BY DEF SiteInv
  <1>2. PICK c : c = [browser[b] EXCEPT !.page = page]
    OBVIOUS
  <1>3. c.page = page /\ c.jar = browser[b].jar
    BY <1>1, <1>2
  <1>4. browser' = [browser EXCEPT ![b] = c]
    BY <1>2
  <1>5. browser'[b] = c
    BY <1>4 DEF SiteInv
  <1> QED
    BY <1>3, <1>5

(* A browser gets cookies.                                                 *)
LEMMA PutJar ==
    ASSUME SiteInv, NEW b \in Browsers, NEW jar, browser' = [browser EXCEPT ![b].jar = jar]
    PROVE  browser'[b].jar = jar
  <1>1. browser[b] = [jar |-> browser[b].jar, page |-> browser[b].page]
    BY DEF SiteInv
  <1>2. PICK c : c = [browser[b] EXCEPT !.jar = jar]
    OBVIOUS
  <1>3. c.jar = jar
    BY <1>1, <1>2
  <1>4. browser' = [browser EXCEPT ![b] = c]
    BY <1>2
  <1>5. browser'[b] = c
    BY <1>4 DEF SiteInv
  <1> QED
    BY <1>3, <1>5

(* The request is made with the cookies of the session.                    *)
LEMMA ApplyOwn ==
    ASSUME NEW p \in Callers, NEW proc, OwnWeb(p, proc, "apply"), Apply(p)
    PROVE  OwnNext(p)
  <1> DEFINE f == Frame(p)
             g == [f EXCEPT !.at = "load"]
  <1>1. PICK u, w, v : u = World(p) /\ w = World(p)' /\ v = browser'[Main]
    OBVIOUS
  <1>2. /\ WebOK(f) /\ proc \in WebProc /\ f.proc = proc /\ f.at = "apply"
        /\ f.browser \in Browsers /\ (remembered' = remembered => w = u)
        /\ Asks(f) => /\ f.proc # "open" /\ f.browser = Main
                      /\ f.req.url.path \in {w.def.searchPath, "browse"}
        /\ TopOwn(f, answer[p], u, browser[Main])
    BY <1>1, WebMoves
  <1>3. Goto(p, g) /\ remembered' = remembered /\ applyOptions(f.browser, f.req)
    BY DEF Apply
  <1>4. WebGoes(g, f, "load", f.req)
    BY <1>2, WebFields
  <1>5. At(p, "fetch", "apply") \/ At(p, "post", "apply")
    BY DEF Apply
  <1>6. f.proc \in {"fetch", "post"}
    BY <1>5 DEF At
  <1>7. Asks(f) => v.jar = f.req.jar
    <2> SUFFICES ASSUME Asks(f) PROVE v.jar = f.req.jar
      OBVIOUS
    <2>1. browser' = [browser EXCEPT ![Main].jar = f.req.jar] /\ SiteInv
      BY <1>2, <1>3 DEF applyOptions, Asks, OwnWeb, RunnerInv
    <2> QED
      BY <1>1, <2>1, PutJar, BrowserNumbers
  <1> HIDE DEF f, g
  <1>8. TopOwn(g, NoAnswer, w, v)
    BY <1>2, <1>3, <1>4, <1>6, <1>7 DEF TopOwn, WebGoes, Asks, WebProc
  <1>9. Asks(g) => Asks(f)
    BY <1>4 DEF Asks, WebGoes
  <1> QED
    BY <1>1, <1>2, <1>3, <1>4, <1>6, <1>8, <1>9, WebMoves DEF f

(* The page is loaded.                                                     *)
LEMMA LoadOwn ==
    ASSUME NEW p \in Callers, NEW proc, OwnWeb(p, proc, "load"), Load(p)
    PROVE  OwnNext(p)
  <1> DEFINE f == Frame(p)
             l == IF f.proc = "fetch" THEN "refresh" ELSE "read"
             g == [f EXCEPT !.at = l]
  <1>1. PICK u, w, v : u = World(p) /\ w = World(p)' /\ v = browser'[Main]
    OBVIOUS
  <1>2. /\ WebOK(f) /\ proc \in WebProc /\ f.proc = proc /\ f.at = "load"
        /\ f.browser \in Browsers /\ (remembered' = remembered => w = u)
        /\ w.def = u.def /\ w.must = u.must /\ w.free = u.free /\ w.up = u.up
        /\ Asks(f) => /\ f.proc # "open" /\ f.browser = Main
                      /\ f.req.url.path \in {w.def.searchPath, "browse"}
        /\ TopOwn(f, answer[p], u, browser[Main])
    BY <1>1, WebMoves
  <1>3. w.up = {n \in Places(w.def) : site[ResolverUrls(w.def)[n]] = "up"}
    BY <1>1, <1>2, WorldIs
  <1>4. \A k : Root(k).link = k /\ Root(k).path = ""
    BY DEF Root, Url
  <1>5. f.proc \in {"fetch", "open"}
    <2>1. At(p, "fetch", "load") \/ At(p, "open", "load")
      BY DEF Load
    <2> QED
      BY <2>1 DEF At
  <1>6. RunnerInv /\ SiteInv
    BY DEF OwnWeb, RunnerInv
  <1>7. CASE site[f.req.url.link] = "down"
    <2>1. Return(p, Failed)
      BY <1>7 DEF Load
    <2>2. \A n \in Places(w.def) : f.req.url = Root(ResolverUrls(w.def)[n]) => n \notin w.up
      <3> SUFFICES ASSUME NEW n \in Places(w.def), f.req.url = Root(ResolverUrls(w.def)[n])
                   PROVE  n \notin w.up
        OBVIOUS
      <3>1. f.req.url.link = ResolverUrls(w.def)[n]
        BY <1>4
      <3> QED
        BY <1>3, <1>7, <3>1
    <2>3. GivesOwn(f, Failed, w, v)
      BY <1>2, <2>2, FailsOwn
    <2> QED
      BY <1>1, <2>1, <2>3, WebMoves
  <1>8. CASE site[f.req.url.link] # "down"
    <2>1. PICK page \in PagesAt(f.req.url, browser[f.browser].jar, f.hops) :
              browser' = [browser EXCEPT ![f.browser].page = page]
      BY <1>8 DEF Load
    <2>2. Goto(p, g) /\ w = u
      BY <1>2, <1>8 DEF Load
    <2>3. WebGoes(g, f, l, f.req)
      BY <1>2, WebFields
    <2>4. f.browser = Main => v.page = page
      BY <1>1, <1>2, <1>6, <2>1, PutPage
    <2>5. Asks(f) => OwnPage(v.page, f.req.jar, w)
      <3> SUFFICES ASSUME Asks(f) PROVE OwnPage(v.page, f.req.jar, w)
        OBVIOUS
      <3>1. /\ f.browser = Main /\ f.req.url.path \in {w.def.searchPath, "browse"}
            /\ w.free \/ f.req.url.link \in Lead(w)
            /\ browser[f.browser].jar = f.req.jar
        BY <1>2, <2>2 DEF TopOwn
      <3> QED
        BY <1>1, <1>2, <1>6, <2>1, <2>4, <3>1, ShownOwn
    <2>6. ASSUME f.proc = "open", f.browser = Main, NEW n \in Places(w.def),
                 f.req.url = Root(ResolverUrls(w.def)[n])
          PROVE  Judges(Loaded(v.page), n, w)
      <3>1. f.req.url.path = "" /\ f.req.url.link = ResolverUrls(w.def)[n]
        BY <1>4, <2>6
      <3>2. /\ page.status \in {IF site[f.req.url.link] = "up" THEN 200 ELSE 503}
            /\ page.html \in {~(json /\ f.req.url.path = "search")}
        BY <2>1 DEF PagesAt
      <3>3. page.status = 200 <=> n \in w.up
        <4>1. n \in w.up <=> site[f.req.url.link] = "up"
          BY <1>3, <3>1
        <4>2. page.status = 200 <=> site[f.req.url.link] = "up"
          BY <3>2
        <4> QED
          BY <4>1, <4>2
      <3>4. page.html = TRUE
        BY <3>1, <3>2
      <3>5. Loaded(page).ok /\ Loaded(page).page = page
        BY DEF Loaded, Failed
      <3>6. ValidBrowserCall(Loaded(page)) <=> n \in w.up
        BY <3>3, <3>4, <3>5 DEF ValidBrowserCall
      <3> QED
        BY <2>4, <2>6, <3>6 DEF Judges
    <2>7. (l = "refresh" \/ f.proc = "open") /\ (f.proc = "open" => l = "read") /\ l \in {"refresh", "read"}
      BY <1>5
    <2> HIDE DEF g, f, l
    <2>8. TopOwn(g, NoAnswer, w, v)
      <3>1. Asks(g) => Asks(f) /\ l = "refresh"
        BY <1>2, <2>3, <2>7 DEF Asks, WebGoes
      <3>2. g.proc \in {"fetch", "open"} /\ g.at = l /\ g.req = f.req /\ g.browser = f.browser
            /\ g.proc = f.proc
        BY <1>5, <2>3 DEF WebGoes
      <3>3. g.proc # "resolve" /\ g.proc # "search"
        BY <3>2
      <3>4. Asks(g) => OwnPage(v.page, g.req.jar, w)
        BY <2>5, <3>1, <3>2
      <3>5. g.proc = "open" /\ g.browser = Main =>
              \A n \in Places(w.def) :
                 g.req.url = Root(ResolverUrls(w.def)[n]) => Judges(Loaded(v.page), n, w)
        BY <2>6, <3>2
      <3> QED
        BY <3>1, <3>2, <3>3, <3>4, <3>5 DEF TopOwn
    <2>9. Asks(g) => Asks(f)
      BY <2>3 DEF Asks, WebGoes
    <2> QED
      BY <1>1, <1>2, <2>2, <2>3, <2>8, <2>9, WebMoves DEF f
  <1> QED
    BY <1>7, <1>8

(* A form is posted, maybe that of the login.                              *)
LEMMA PostOwn ==
    ASSUME NEW p \in Callers, NEW proc, OwnWeb(p, proc, "load"), PostForm(p)
    PROVE  OwnNext(p)
  <1> DEFINE f == Frame(p)
             g == [f EXCEPT !.at = "refresh"]
  <1>1. PICK u, w, v : u = World(p) /\ w = World(p)' /\ v = browser'[Main]
    OBVIOUS
  <1>2. /\ WebOK(f) /\ proc \in WebProc /\ f.proc = proc /\ f.at = "load"
        /\ f.browser \in Browsers /\ (remembered' = remembered => w = u)
        /\ w.def = u.def /\ w.must = u.must
        /\ Asks(f) => /\ f.proc # "open" /\ f.browser = Main
                      /\ f.req.url.path \in {w.def.searchPath, "browse"}
        /\ TopOwn(f, answer[p], u, browser[Main])
    BY <1>1, WebMoves
  <1>3. f.proc = "post" /\ w = u /\ RunnerInv /\ SiteInv
    BY <1>2 DEF PostForm, At, OwnWeb, RunnerInv
  <1>4. CASE site[f.req.url.link] = "down"
    <2>1. Return(p, Failed)
      BY <1>4 DEF PostForm
    <2>2. GivesOwn(f, Failed, w, v)
      BY <1>2, <1>3, FailsOwn
    <2> QED
      BY <1>1, <2>1, <2>2, WebMoves
  <1>5. CASE site[f.req.url.link] # "down"
    <2>1. PICK page : /\ browser' = [browser EXCEPT ![f.browser].page = page]
                      /\ \/ \E hops : page \in PagesAt(f.req.url, browser[f.browser].jar, hops)
                         \/ page = LoginAnswer(f.req.url, browser[f.browser].jar)
      BY <1>5 DEF PostForm, Submit
    <2>2. Goto(p, g)
      BY <1>5 DEF PostForm
    <2>3. WebGoes(g, f, "refresh", f.req)
      BY <1>2, WebFields
    <2>4. Asks(f) => OwnPage(v.page, f.req.jar, w)
      <3> SUFFICES ASSUME Asks(f) PROVE OwnPage(v.page, f.req.jar, w)
        OBVIOUS
      <3>1. /\ f.browser = Main /\ f.req.url.path \in {w.def.searchPath, "browse"}
            /\ w.free \/ f.req.url.link \in Lead(w)
            /\ browser[f.browser].jar = f.req.jar
        BY <1>2, <1>3 DEF TopOwn
      <3>2. browser' = [browser EXCEPT ![Main].page = page] /\ v = browser'[Main]
        BY <1>1, <2>1, <3>1
      <3>3. v.page = page
        BY <1>3, <3>2, BrowserNumbers, PutPage
      <3> QED
        BY <1>1, <1>2, <1>3, <2>1, <3>1, <3>3, ShownOwn
    <2> HIDE DEF g, f
    <2>5. TopOwn(g, NoAnswer, w, v)
      BY <1>3, <2>3, <2>4 DEF TopOwn, Asks, WebGoes, WebProc
    <2>6. Asks(g) => Asks(f)
      BY <2>3 DEF Asks, WebGoes
    <2> QED
      BY <1>1, <1>2, <1>3, <2>2, <2>3, <2>5, <2>6, WebMoves DEF f
  <1> QED
    BY <1>4, <1>5

(* The page sends the browser on, from where it is.                        *)
LEMMA RefreshOwn ==
    ASSUME NEW p \in Callers, NEW proc, OwnWeb(p, proc, "refresh"), MetaRefresh(p)
    PROVE  OwnNext(p)
  <1> DEFINE f == Frame(p)
             here == browser[f.browser].page
             next == [f.req EXCEPT !.url = Url(here.url.link, here.refresh)]
  <1>1. PICK u, w, v : u = World(p) /\ w = World(p)' /\ v = browser'[Main]
    OBVIOUS
  <1>2. /\ WebOK(f) /\ proc \in WebProc /\ f.proc = proc /\ f.at = "refresh" /\ stack[p] # <<>>
        /\ f.browser \in Browsers /\ (remembered' = remembered => w = u)
        /\ Asks(f) => /\ f.proc # "open" /\ f.browser = Main
                      /\ f.req.url.path \in {w.def.searchPath, "browse"}
        /\ TopOwn(f, answer[p], u, browser[Main])
        /\ Below(stack[p], w)
    BY <1>1, WebMoves
  <1>3. f.proc \in {"fetch", "post"} /\ w = u /\ browser' = browser
    BY <1>2 DEF MetaRefresh, At, webVars
  <1>4. Asks(f) => OwnPage(v.page, f.req.jar, w) /\ here = v.page
    BY <1>1, <1>2, <1>3 DEF TopOwn
  <1>5. CASE here.refresh = "none"
    <2> DEFINE g == [f EXCEPT !.at = "read"]
    <2>1. Goto(p, g)
      BY <1>5 DEF MetaRefresh
    <2>2. WebGoes(g, f, "read", f.req)
      BY <1>2, WebFields
    <2> HIDE DEF g, f, here
    <2>3. TopOwn(g, NoAnswer, w, v)
      BY <1>3, <1>4, <2>2 DEF TopOwn, Asks, WebGoes, WebProc
    <2>4. Asks(g) => Asks(f)
      BY <2>2 DEF Asks, WebGoes
    <2> QED
      BY <1>1, <1>2, <1>3, <2>1, <2>2, <2>3, <2>4, WebMoves DEF f
  <1>6. CASE here.refresh # "none"
    <2>1. next.jar = f.req.jar /\ next.url = Url(here.url.link, here.refresh)
      BY <1>2 DEF WebOK
    <2>2. Asks(f) => /\ next.url.path = "browse" /\ (w.free \/ next.url.link \in Lead(w))
      <3>1. Asks(f) => here.refresh = "browse" /\ (w.free \/ here.url.link \in Lead(w))
        BY <1>4, <1>6 DEF OwnPage
      <3>2. next.url.link = here.url.link /\ next.url.path = here.refresh
        BY <2>1 DEF Url
      <3> QED
        BY <3>1, <3>2
    <2>3. CASE f.proc = "fetch"
      <3> DEFINE n == f.hops + 1
                 g == [f EXCEPT !.at = "apply", !.req = next, !.hops = @ + 1]
      <3>1. Goto(p, g)
        BY <1>6, <2>3 DEF MetaRefresh
      <3>2. PICK e : e = Follows(f, "apply", next)
        OBVIOUS
      <3>3. PICK m : m = n
        OBVIOUS
      <3>4. g = [e EXCEPT !.hops = m]
        BY <3>2, <3>3 DEF Follows
      <3> HIDE DEF g, f, here, next
      <3>5. WebGoes(g, f, "apply", next)
        <4>1. \A k : WebGoes([e EXCEPT !.hops = k], f, "apply", next)
          BY <1>2, <3>2, WebFields
        <4> QED
          BY <3>4, <4>1
      <3>6. TopOwn(g, NoAnswer, w, v)
        BY <1>3, <2>1, <2>2, <3>5 DEF TopOwn, Asks, WebGoes, WebProc
      <3>7. Asks(g) => next.url.path \in {w.def.searchPath, "browse"}
        BY <2>1, <2>2, <3>5 DEF Asks, WebGoes
      <3> QED
        BY <1>1, <1>2, <1>3, <2>1, <3>1, <3>5, <3>6, <3>7, WebMoves DEF f
    <2>4. CASE f.proc # "fetch"
      <3> DEFINE g == Follows(f, "refreshed", next)
                 n == f.hops + 1
                 e == WebFrame("fetch", "apply", f.browser, next)
                 c == [e EXCEPT !.hops = n]
      <3>1. Call(p, g, GetCall(f.browser, next, n))
        BY <1>6, <2>4 DEF MetaRefresh, Follows
      <3>2. WebGoes(g, f, "refreshed", next)
        BY <1>2, WebFields
      <3>3. GetCall(f.browser, next, n) = <<c>>
        BY DEF GetCall
      <3>4. c.proc = "fetch" /\ c.at = "apply" /\ c.browser = f.browser /\ c.req = next
        <4> HIDE DEF n, next
        <4> QED
          BY DEF WebFrame
      <3> HIDE DEF g, f, here, next, c, n
      <3>5. FrameOwn(g, w) /\ SameOwn(g, f)
        BY <1>2, <1>3, <2>1, <2>2, <3>2 DEF FrameOwn, SameOwn, WebGoes, Asks, WebProc
      <3>6. FrameOwn(c, w) /\ TopOwn(c, NoAnswer, w, v)
        BY <1>2, <1>3, <2>1, <2>2, <3>4 DEF FrameOwn, TopOwn, Asks, WebProc
      <3>7. PairOwn(g, c, w.def)
        BY <1>3, <2>1, <3>2, <3>4 DEF PairOwn, WebGoes, WebProc
      <3> QED
        BY <1>1, <1>2, <3>1, <3>3, <3>5, <3>6, <3>7, OwnCallOne DEF OwnWeb, RunnerInv, f
    <2> QED
      BY <2>3, <2>4
  <1> QED
    BY <1>5, <1>6

(* The page is read, or the post's.                                        *)
LEMMA ReadOwn ==
    ASSUME NEW p \in Callers, NEW proc, NEW l, OwnWeb(p, proc, l),
           UnknownMethod(p) \/ FetchPosted(p) \/ PostRefreshed(p) \/ ReadPage(p)
    PROVE  OwnNext(p)
  <1> DEFINE f == Frame(p)
  <1>1. PICK u, w, v : u = World(p) /\ w = World(p)' /\ v = browser'[Main]
    OBVIOUS
  <1>2. /\ WebOK(f) /\ proc \in WebProc /\ f.proc = proc /\ f.at = l
        /\ (remembered' = remembered => w = u)
        /\ Asks(f) => /\ f.proc # "open" /\ f.browser = Main
                      /\ f.req.url.path \in {w.def.searchPath, "browse"}
        /\ TopOwn(f, answer[p], u, browser[Main])
    BY <1>1, WebMoves
  <1>3. v = browser[Main]
    BY <1>1 DEF UnknownMethod, FetchPosted, PostRefreshed, ReadPage, webVars
  <1>4. ASSUME Return(p, Failed), f.proc # "open" PROVE OwnNext(p)
    BY <1>1, <1>2, <1>4, FailsOwn, WebMoves
  <1>5. CASE UnknownMethod(p)
    BY <1>4, <1>5 DEF UnknownMethod, At
  <1>6. CASE FetchPosted(p)
    <2>1. f.proc = "fetch" /\ f.at = "posted" /\ Return(p, answer[p])
          /\ (answer[p].ok => w = u)
      BY <1>2, <1>6 DEF FetchPosted, At
    <2>2. GivesOwn(f, answer[p], w, v)
      BY <1>2, <1>3, <2>1 DEF GivesOwn, TopOwn
    <2> QED
      BY <1>1, <2>1, <2>2, WebMoves
  <1>7. CASE PostRefreshed(p)
    <2> DEFINE g == [f EXCEPT !.at = "read"]
    <2>1. f.proc = "post" /\ f.at = "refreshed" /\ w = u
          /\ \/ answer[p].ok /\ Goto(p, g)
             \/ Return(p, Failed)
      BY <1>2, <1>7 DEF PostRefreshed, At
    <2>2. WebGoes(g, f, "read", f.req)
      BY <1>2, WebFields
    <2> HIDE DEF g, f
    <2>3. answer[p].ok => TopOwn(g, NoAnswer, w, v)
      BY <1>2, <1>3, <2>1, <2>2 DEF TopOwn, Asks, WebGoes, WebProc
    <2>4. Asks(g) => Asks(f)
      BY <2>2 DEF Asks, WebGoes
    <2>5. answer[p].ok /\ Goto(p, g) => OwnNext(p)
      BY <1>1, <1>2, <2>1, <2>2, <2>3, <2>4, WebMoves DEF f
    <2> QED
      BY <1>4, <2>1, <2>5
  <1>8. CASE ReadPage(p)
    <2> DEFINE a == Loaded(browser[f.browser].page)
    <2>1. f.at = "read" /\ w = u /\ Return(p, a)
      BY <1>2, <1>8 DEF ReadPage, At
    <2>2. a.ok /\ a.page = browser[f.browser].page
      BY DEF Loaded, Failed
    <2>3. f.browser = Main => a = Loaded(v.page) /\ a.page = v.page
      BY <1>3, <2>2
    <2> HIDE DEF a, f
    <2>4. GivesOwn(f, a, w, v)
      BY <1>2, <1>3, <2>1, <2>3 DEF GivesOwn, TopOwn, WebProc
    <2> QED
      BY <1>1, <2>1, <2>4, WebMoves DEF f
  <1> QED
    BY <1>5, <1>6, <1>7, <1>8

(* The client reads to a search the search's own page.                     *)
LEMMA WebOwns ==
    ASSUME RunnerInv, NEW p \in Callers, WebStep(p), UNCHANGED <<def, sessionVars, settled>>, Own(p)
    PROVE  OwnNext(p)
  <1>1. PICK proc, l : proc \in WebProc /\ At(p, proc, l)
    BY DEF WebStep, UnknownMethod, FetchPosted, Apply, Load, PostForm, MetaRefresh,
       PostRefreshed, ReadPage, WebProc
  <1>2. OwnWeb(p, proc, l)
    BY <1>1 DEF OwnWeb
  <1>3. \A k, m : At(p, k, m) => m = l
    BY <1>1 DEF At
  <1>4. Apply(p) => l = "apply"
    BY <1>3 DEF Apply
  <1>5. Load(p) => l = "load"
    BY <1>3 DEF Load
  <1>6. PostForm(p) => l = "load"
    BY <1>3 DEF PostForm
  <1>7. MetaRefresh(p) => l = "refresh"
    BY <1>3 DEF MetaRefresh
  <1> QED
    BY <1>2, <1>4, <1>5, <1>6, <1>7, ApplyOwn, LoadOwn, PostOwn, RefreshOwn, ReadOwn DEF WebStep

-------------------------------------------------------------------------------
(* A step of a caller is no other caller's.                                *)
StepsOn(p) ==
    /\ stack[p] # <<>> /\ \E s : stack' = [stack EXCEPT ![p] = s]
    /\ UNCHANGED <<def, alone, settled>>

(* The ways a call goes on.                                                *)
CallMoves(p) ==
    \/ \E g : Goto(p, g)
    \/ \E a : Return(p, a)
    \/ \E g, callee : Call(p, g, callee)
    \/ Panic(p)

(* Whatever a caller does, it does to its own calls.                       *)
LEMMA MovesOn ==
    ASSUME CallsInv, NEW p \in Callers, CallMoves(p)
    PROVE  \E s : stack' = [stack EXCEPT ![p] = s]
  <1>1. ASSUME NEW frames, Frames(p, frames) PROVE \E s : stack' = [stack EXCEPT ![p] = s]
    BY <1>1 DEF Frames
  <1>2. ASSUME NEW a, Return(p, a) PROVE \E s : stack' = [stack EXCEPT ![p] = s]
    BY <1>2 DEF Return
  <1>3. Panic(p) => stack' = [stack EXCEPT ![p] = stack[p]]
    BY DEF Panic, CallsInv
  <1> QED
    BY <1>1, <1>2, <1>3 DEF CallMoves, Goto, Call

(* Every step of a caller is one.                                          *)
LEMMA StepMoves ==
    ASSUME RunnerInv, NEW p \in Callers, Step(p)
    PROVE  StepsOn(p)
  <1>0. CallsInv
    BY DEF RunnerInv
  <1>1. CASE WebStep(p) /\ UNCHANGED <<def, sessionVars, runnerVars, history>>
    <2>1. stack[p] # <<>>
      BY <1>1 DEF WebStep, UnknownMethod, FetchPosted, Apply, Load, PostForm, MetaRefresh,
         PostRefreshed, ReadPage, At
    <2>2. CallMoves(p)
      BY <1>1 DEF CallMoves, WebStep, UnknownMethod, FetchPosted, Apply, Load, PostForm, MetaRefresh,
         PostRefreshed, ReadPage
    <2> QED
      BY <1>0, <1>1, <2>1, <2>2, MovesOn DEF StepsOn, history
  <1>2. CASE ResolveStep(p) /\ UNCHANGED <<sessionVars, runnerVars, history>>
    <2>1. stack[p] # <<>> /\ def' = def
      BY <1>2 DEF ResolveStep, ResolveLook, ResolveTested, At
    <2>2. CallMoves(p)
      BY <1>2 DEF CallMoves, ResolveStep, ResolveLook, ResolveTested
    <2> QED
      BY <1>0, <1>2, <2>1, <2>2, MovesOn DEF StepsOn, history
  <1>3. CASE SessionStep(p) /\ UNCHANGED <<runnerVars, history>>
    <2>1. stack[p] # <<>> /\ def' = def
      BY <1>3 DEF SessionStep, PickSession, StoreIndex, SetUp, LoginInputs, LoginInit,
         LoginInitFetch, LoginInitFetched, LoginSubmit, LoginForm, LoginCheck, LoginTestUrl,
         LoginTestFetched, LoginVerify, At
    <2>2. \E s : stack' = [stack EXCEPT ![p] = s]
      <3>1. CASE LoginForm(p)
        BY <3>1 DEF LoginForm, Return
      <3>2. CASE ~LoginForm(p)
        <4>1. CallMoves(p)
          BY <1>3, <3>2, SessionGoes DEF CallMoves, PlainStep, history
        <4> QED
          BY <1>0, <4>1, MovesOn
      <3> QED
        BY <3>1, <3>2
    <2> QED
      BY <1>3, <2>1, <2>2 DEF StepsOn, history
  <1>4. CASE \/ CreateRequest(p) \/ SearchFetch(p) \/ Extract(p)
             \/ LinkItem(p) \/ NoteError(p) \/ SearchReturns(p)
    <2>1. stack[p] # <<>> /\ UNCHANGED <<def, alone, settled>>
      BY <1>4 DEF CreateRequest, SearchFetch, Extract, LinkItem, NoteError, SearchReturns, At,
         lower, history
    <2>2. CallMoves(p)
      BY <1>4 DEF CallMoves, CreateRequest, SearchFetch, Extract, LinkItem, NoteError, SearchReturns,
         Fails, Items
    <2> QED
      BY <1>0, <2>1, <2>2, MovesOn DEF StepsOn
  <1>5. CASE \/ HealthChecks(p) \/ HealthJudges(p)
             \/ RatioText(p) \/ RatioResolve(p) \/ RatioFetch(p) \/ RatioMatch(p)
    <2>1. stack[p] # <<>> /\ UNCHANGED <<def, alone, settled>>
      BY <1>5 DEF HealthChecks, HealthJudges, RatioText, RatioResolve, RatioFetch, RatioMatch, At,
         lower, history
    <2>2. CallMoves(p)
      BY <1>5 DEF CallMoves, HealthChecks, HealthJudges, RatioText, RatioResolve, RatioFetch, RatioMatch
    <2> QED
      BY <1>0, <2>1, <2>2, MovesOn DEF StepsOn
  <1> QED
    BY <1>1, <1>2, <1>3, <1>4, <1>5 DEF Step

(* The definition is one of those considered.                              *)
OwnState == def \in Definitions /\ OwnInv

(* Nobody has called anything at first.                                    *)
LEMMA OwnStateInit == Init => OwnState
  BY DEF Init, OwnState, OwnInv

(* A step of a caller that no other overlaps is a step of its own search.  *)
LEMMA OwnStep ==
    ASSUME RunnerInv, OwnState, NEW p \in Callers, Step(p)
    PROVE  OwnState'
  <1>1. CallsInv /\ StepsOn(p)
    BY StepMoves DEF RunnerInv
  <1>2. def.searchPath # "magnet" /\ def \in Definitions
    BY RunnerAssumption DEF OwnState
  <1>3. UNCHANGED settled /\ (Own(p) => OwnNext(p))
    <2>1. UNCHANGED settled
      BY <1>1 DEF StepsOn
    <2>2. CASE WebStep(p) /\ UNCHANGED <<def, sessionVars, runnerVars, history>>
      BY <2>1, <2>2, WebOwns
    <2>3. CASE ResolveStep(p) /\ UNCHANGED <<sessionVars, runnerVars, history>>
      BY <2>1, <2>3, LookOwn, TestedOwn DEF ResolveStep
    <2>4. CASE SessionStep(p)
      BY <2>1, <2>4, SessionOwn
    <2>5. CASE \/ CreateRequest(p) \/ SearchFetch(p) \/ Extract(p)
               \/ LinkItem(p) \/ NoteError(p) \/ SearchReturns(p)
      BY <1>2, <2>1, <2>5, SearchOwns
    <2>6. CASE \/ HealthChecks(p) \/ HealthJudges(p)
               \/ RatioText(p) \/ RatioResolve(p) \/ RatioFetch(p) \/ RatioMatch(p)
      BY <2>1, <2>6, OtherOwn
    <2> QED
      BY <2>1, <2>2, <2>3, <2>4, <2>5, <2>6 DEF Step
  <1>4. /\ stack[p] # <<>> /\ alone' = alone /\ def' = def
        /\ \A q \in Callers \ {p} : stack'[q] = stack[q]
    BY <1>1 DEF StepsOn, CallsInv
  <1>5. ASSUME NEW r \in Callers, alone'[r], stack'[r] # <<>>
        PROVE  /\ \A q \in Callers \ {r} : stack'[q] = <<>>
               /\ OwnCall(stack'[r], answer'[r], World(r)', browser'[Main])
    <2>1. CASE r = p
      <3>1. alone[p] /\ \A q \in Callers \ {p} : stack[q] = <<>>
        BY <1>4, <1>5, <2>1 DEF OwnState, OwnInv
      <3>2. Own(p)
        BY <1>4, <3>1 DEF OwnState, OwnInv, Own
      <3> QED
        BY <1>3, <1>4, <1>5, <2>1, <3>1, <3>2 DEF OwnNext
    <2>2. CASE r # p
      <3>1. alone[r] /\ stack[r] # <<>>
        BY <1>4, <1>5, <2>2
      <3>2. stack[p] = <<>>
        BY <2>2, <3>1 DEF OwnState, OwnInv
      <3> QED
        BY <1>4, <3>2
    <2> QED
      BY <2>1, <2>2
  <1> QED
    BY <1>2, <1>4, <1>5 DEF OwnState, OwnInv

(* A call that begins has read nothing yet; one that it overlaps is not    *)
(* alone any more.                                                         *)
LEMMA OwnStarts ==
    ASSUME RunnerInv, OwnState, NEW p \in Callers, SearchStarts(p) \/ HealthStarts(p) \/ RatioStarts(p)
    PROVE  OwnState'
  <1>1. PICK call : Start(p, call) /\ Begins(call)
    BY BeginsCalls DEF SearchStarts, HealthStarts, RatioStarts
  <1>2. /\ stack'[p] = call /\ answer'[p] = NoAnswer /\ def' = def
        /\ alone'[p] <=> \A r \in Callers \ {p} : Idle(r)
        /\ \A q \in Callers \ {p} : stack'[q] = stack[q] /\ (alone'[q] <=> Idle(q))
    BY <1>1 DEF Start, lower, RunnerInv, CallsInv
  <1>3. \A w, v : OwnCall(call, NoAnswer, w, v)
    BY <1>1, BeginsOwn
  <1>4. ASSUME NEW r \in Callers, alone'[r], stack'[r] # <<>>
        PROVE  /\ \A q \in Callers \ {r} : stack'[q] = <<>>
               /\ OwnCall(stack'[r], answer'[r], World(r)', browser'[Main])
    <2>1. r = p
      BY <1>2, <1>4 DEF Idle
    <2>2. PICK w, v : w = World(r)' /\ v = browser'[Main]
      OBVIOUS
    <2>3. OwnCall(stack'[r], answer'[r], w, v)
      BY <1>2, <1>3, <2>1
    <2> QED
      BY <1>2, <1>4, <2>1, <2>2, <2>3 DEF Idle
  <1> QED
    BY <1>2, <1>4 DEF OwnState, OwnInv

(* Whatever else changes, the pages that were read are as they were.       *)
LEMMA OwnChanges ==
    ASSUME OwnState, UNCHANGED <<stack, answer, browser, alone, def, sessionState>>,
           \/ UNCHANGED <<settled, remembered, optimistic, site>>
           \/ settled' = [p \in Callers |-> Idle(p)]
    PROVE  OwnState'
  <1>1. ASSUME NEW r \in Callers, alone'[r], stack'[r] # <<>>
        PROVE  /\ \A q \in Callers \ {r} : stack'[q] = <<>>
               /\ OwnCall(stack'[r], answer'[r], World(r)', browser'[Main])
    <2>1. /\ \A q \in Callers \ {r} : stack[q] = <<>>
          /\ OwnCall(stack[r], answer[r], World(r), browser[Main])
      BY <1>1 DEF OwnState, OwnInv
    <2>2. CASE UNCHANGED <<settled, remembered, optimistic, site>>
      <3>1. World(r)' = World(r)
        BY <2>2, SameWorld
      <3> QED
        BY <2>1, <3>1
    <2>3. CASE settled' = [p \in Callers |-> Idle(p)]
      <3>1. PICK u, w, v : u = World(r) /\ w = World(r)' /\ v = browser[Main]
        OBVIOUS
      <3>2. w.def = u.def /\ w.must = u.must
        BY <3>1 DEF World
      <3>3. w.free = TRUE
        BY <1>1, <2>3, <3>1 DEF World, Idle
      <3>4. OwnCall(stack[r], answer[r], u, v)
        BY <2>1, <3>1
      <3>5. OwnCall(stack[r], answer[r], w, v)
        BY <3>2, <3>3, <3>4, CallFreed
      <3> QED
        BY <2>1, <3>1, <3>5
    <2> QED
      BY <2>2, <2>3
  <1> QED
    BY <1>1 DEF OwnState, OwnInv

(* No step takes from a search that no other call overlaps what is its own. *)
LEMMA OwnStateStep == RunnerInv /\ OwnState /\ [Next]_vars => OwnState'
  <1> SUFFICES ASSUME RunnerInv, OwnState, [Next]_vars PROVE OwnState'
    OBVIOUS
  <1>1. CASE UNCHANGED vars
    BY <1>1, OwnChanges DEF vars, callVars, lower, webVars, sessionVars, history
  <1>2. CASE LinkChanges \/ AnswerExpires
    <2>1. /\ UNCHANGED <<stack, answer, browser, alone, def, sessionState>>
          /\ settled' = [p \in Callers |-> Idle(p)]
      BY <1>2 DEF LinkChanges, AnswerExpires, Change, DisturbCalls, SiteChanges, callVars, webVars,
         sessionVars
    <2> QED
      BY <2>1, OwnChanges
  <1>3. CASE DayPasses \/ TwoDaysPass
    <2>1. /\ UNCHANGED <<stack, answer, browser, alone, def, sessionState>>
          /\ UNCHANGED <<settled, remembered, optimistic, site>>
      BY <1>3 DEF DayPasses, TwoDaysPass, Change, callVars, lower, webVars, sessionVars
    <2> QED
      BY <2>1, OwnChanges
  <1> QED
    BY <1>1, <1>2, <1>3, OwnStep, OwnStarts DEF Next

(* A search that has its page and that no other call overlaps.             *)
LEMMA OwnResult ==
    ASSUME RunnerInv, OwnState, NEW p \in Callers, At(p, "search", "report"), alone[p]
    PROVE  /\ Frame(p).err = "none" =>
                Frame(p).session \in Sessions /\ OwnPage(Frame(p).page, Frame(p).session, World(p))
           /\ settled[p] =>
                \A i \in DOMAIN Frame(p).links : Frame(p).links[i] = Frame(p).page.url.link
  <1>1. CallsInv
    BY DEF RunnerInv
  <1>2. stack[p] # <<>> /\ Frame(p).proc = "search" /\ Frame(p).at = "report"
    BY <1>1, TopAt
  <1>3. Own(p)
    BY <1>2 DEF OwnState, OwnInv, Own
  <1>4. SearchOwn(Frame(p), World(p))
    BY <1>1, <1>2, <1>3, OwnTop DEF FrameOwn
  <1>5. settled[p] => ~World(p).free
    BY WorldIs
  <1> QED
    BY <1>2, <1>4, <1>5 DEF SearchOwn, HasRead

(* A search that no other call overlaps extracts the page it asked for, or *)
(* the one that page sent it to, as the user of its own session, for any   *)
(* number of callers, sessions and links (source/web.go:55,92).            *)
THEOREM LoneSearchReadsOwn == Spec => []AloneReadsOwnPage
  <1>1. RunnerInv /\ OwnState => AloneReadsOwnPage
    <2> SUFFICES ASSUME RunnerInv, OwnState, NEW p \in Callers, At(p, "search", "report"), alone[p],
                        Frame(p).err = "none"
                 PROVE  /\ Frame(p).page.url.path \in {def.searchPath, "browse"}
                        /\ sessionState[Frame(p).session] = "LoggedIn" /\ def.login.test.selector
                           => Frame(p).page.user = Frame(p).session
      BY DEF AloneReadsOwnPage
    <2>1. Frame(p).session \in Sessions /\ OwnPage(Frame(p).page, Frame(p).session, World(p))
      BY OwnResult
    <2> QED
      BY <2>1, WorldIs DEF OwnPage
  <1> QED
    BY <1>1, RunnerInvInit, RunnerInvStep, OwnStateInit, OwnStateStep, PTL DEF Spec

(* The links of its items lead to the site their page is from, unless a    *)
(* link changed or an answer expired meanwhile, whatever links there are   *)
(* and whichever of them work (resultExtraction.go:159).                   *)
THEOREM LinksLeadBack == Spec => []LinksFollowThePage
  <1>1. RunnerInv /\ OwnState => LinksFollowThePage
    BY OwnResult DEF LinksFollowThePage
  <1> QED
    BY <1>1, RunnerInvInit, RunnerInvStep, OwnStateInit, OwnStateStep, PTL DEF Spec
===============================================================================
