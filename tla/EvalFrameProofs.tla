--------------------------- MODULE EvalFrameProofs ---------------------------
(***************************************************************************)
(* Proofs, for any number of threads, frames and results, that errors jump *)
(* home, and that but in the frames apply overtook the machine code        *)
(* running is in memory and starts where the program goes on.  The         *)
(* invariant adds to what the runs check the links between evaluations     *)
(* (each knows the one before), when the entry kept in a frame can be      *)
(* trusted, and what is in the compiler's buffer.                          *)
(***************************************************************************)
EXTENDS EvalFrame, SequenceTheorems, TLAPS

\* What thread t points to, and what its evaluations point to.
Linked(t) ==
  /\ cframe[t] = Depth(t)
  /\ frame[t] = IF Depth(t) = 0 THEN NoFrame ELSE Top(t).frame
  /\ \A i \in 1 .. Depth(t) :
       /\ cstack[t][i].previous = i - 1
       /\ cstack[t][i].target \in {None, <<i, cstack[t][i].frame>>}
       /\ f_back[cstack[t][i].frame] = IF i = 1 THEN NoFrame ELSE cstack[t][i - 1].frame

\* A frame is evaluated once, and is then executing.
Exclusive ==
  /\ \A f \in Frame : f_state[f] = "executing" <=>
       \E t \in Thread : \E i \in 1 .. Depth(t) : cstack[t][i].frame = f
  /\ \A t, u \in Thread : \A i \in 1 .. Depth(t), j \in 1 .. Depth(u) :
       cstack[t][i].frame = cstack[u][j].frame => t = u /\ i = j

\* A frame is evaluated by what its code object has, unless apply overtook it.  The
\* interpreter evaluates only frames that machine code never was in.
Current ==
  \A t \in Thread : \A i \in 1 .. Depth(t) :
    LET a   == cstack[t][i]
        has == extra[f_code[a.frame]]
    IN  IF a.by = Interpreter THEN entry[a.frame] = Garbage
        ELSE /\ has \in Result
             /\ a.frame \in overtaken \/ (has = a.by /\ entry[a.frame] # Garbage)

\* The entry of a frame, once there is one, is where the frame goes on; there is
\* one when machine code will need it, unless apply overtook the frame.
EntryTrusted(f) ==
  /\ f_state[f] = "created" => ~started[f] /\ resume[f] = Start
  /\ f_state[f] = "suspended" => f \in Generator
  /\ f_state[f] \in {"executing", "suspended"} => started[f]
  /\ f_state[f] \in {"executing", "suspended"} /\ entry[f] # Garbage => entry[f] = resume[f]
  /\ f_state[f] \in {"executing", "suspended"} /\ extra[f_code[f]] \in Result
       /\ f \in Generator \ overtaken => entry[f] # Garbage
  /\ extra[f_code[f]] = NoResult => entry[f] = Garbage
  /\ extra[f_code[f]] = Dropped => f_state[f] \in {"returned", "raised"}

\* The buffer has only what could not be loaded, so that each result is its function's
\* or is one of those.
Objects ==
  /\ out_vec \subseteq failed
  /\ \A c \in Code : extra[c] \in Result => object[extra[c]] \in {c} \cup failed

IInv ==
  /\ TypeOK
  /\ \A t \in Thread : Linked(t)
  /\ Exclusive
  /\ Current
  /\ LoadedOnce /\ Objects
  /\ \A f \in Frame : EntryTrusted(f)
  /\ GoesOnRight

-----------------------------------------------------------------------------
\* What the actions do to the stack of evaluations of a thread.
LEMMA Depths ==
  ASSUME TypeOK, NEW t \in Thread
  PROVE  /\ cstack[t] \in Seq(Evaluation) /\ Depth(t) \in Nat
         /\ cstack[t] = <<>> <=> Depth(t) = 0
         /\ \A i \in 1 .. Depth(t) : cstack[t][i] \in Evaluation
         /\ Depth(t) # 0 => Depth(t) \in 1 .. Depth(t) /\ Top(t) \in Evaluation
<1>1. cstack[t] \in Seq(Evaluation)
  BY DEF TypeOK
<1>2. Depth(t) \in Nat /\ \A i \in 1 .. Depth(t) : cstack[t][i] \in Evaluation
  BY <1>1 DEF Depth
<1>3. cstack[t] = <<>> <=> Depth(t) = 0
  BY <1>1, EmptySeq DEF Depth
<1> QED BY <1>1, <1>2, <1>3 DEF Top

LEMMA AppendIs ==
  ASSUME NEW s \in Seq(Evaluation), NEW a \in Evaluation
  PROVE  /\ Append(s, a) \in Seq(Evaluation) /\ Len(Append(s, a)) = Len(s) + 1
         /\ \A i \in 1 .. Len(s) : Append(s, a)[i] = s[i]
         /\ Append(s, a)[Len(s) + 1] = a
OBVIOUS

LEMMA FrontIs ==
  ASSUME NEW s \in Seq(Evaluation), Len(s) # 0
  PROVE  /\ SubSeq(s, 1, Len(s) - 1) \in Seq(Evaluation)
         /\ Len(SubSeq(s, 1, Len(s) - 1)) = Len(s) - 1
         /\ \A i \in 1 .. Len(s) - 1 : SubSeq(s, 1, Len(s) - 1)[i] = s[i]
<1> DEFINE k == Len(s) - 1
<1>1. k \in Nat /\ \A i \in 1 .. k : s[i] \in Evaluation
  OBVIOUS
<1> HIDE DEF k
<1>2. /\ SubSeq(s, 1, k) \in Seq(Evaluation)
      /\ Len(SubSeq(s, 1, k)) = IF 1 <= k THEN k - 1 + 1 ELSE 0
      /\ \A i \in 1 .. k - 1 + 1 : SubSeq(s, 1, k)[i] = s[1 + i - 1]
  BY <1>1, SubSeqProperties
<1>3. Len(SubSeq(s, 1, k)) = k /\ \A i \in 1 .. k : SubSeq(s, 1, k)[i] = s[i]
  BY <1>1, <1>2
<1> QED BY <1>2, <1>3 DEF k

\* A frame that is evaluated, called or sent to.
LEMMA Pushed ==
  ASSUME IInv, NEW t \in Thread, NEW f \in Frame, Evaluate(t, f)
  PROVE  LET a == cstack'[t][Depth(t) + 1]
         IN  /\ cstack' \in [Thread -> Seq(Evaluation)]
             /\ Depth(t)' = Depth(t) + 1
             /\ \A i \in 1 .. Depth(t) : cstack'[t][i] = cstack[t][i]
             /\ \A u \in Thread \ {t} : cstack'[u] = cstack[u]
             /\ a.frame = f /\ a.by = By(f) /\ a.previous = cframe[t]
             /\ a.at = (IF By(f) = Interpreter THEN resume[f] ELSE From(f))
             /\ a.target = None
<1> DEFINE a == [frame |-> f, by |-> By(f), previous |-> cframe[t], pending |-> error[t],
                 at |-> IF By(f) = Interpreter THEN resume[f] ELSE From(f), target |-> None]
<1>1. a \in Evaluation
  BY DEF IInv, TypeOK, Evaluation, By, From, Place, Start
<1>2. cstack' = [cstack EXCEPT ![t] = Append(cstack[t], a)]
  BY DEF Evaluate
<1>3. cstack[t] \in Seq(Evaluation)
  BY Depths DEF IInv
<1>4. a.frame = f /\ a.by = By(f) /\ a.previous = cframe[t]
        /\ a.at = (IF By(f) = Interpreter THEN resume[f] ELSE From(f)) /\ a.target = None
  OBVIOUS
<1> HIDE DEF a
<1>5. cstack' \in [Thread -> Seq(Evaluation)]
  BY <1>1, <1>2, <1>3, AppendIs DEF IInv, TypeOK
<1>6. cstack'[t] = Append(cstack[t], a) /\ \A u \in Thread \ {t} : cstack'[u] = cstack[u]
  BY <1>2 DEF IInv, TypeOK
<1> QED BY <1>1, <1>3, <1>4, <1>5, <1>6, AppendIs DEF Depth

\* The innermost evaluation ends.
LEMMA Popped ==
  ASSUME IInv, NEW t \in Thread, Depth(t) # 0, NEW state, NEW raises,
         Leave(t, Depth(t), state, raises)
  PROVE  /\ cstack' \in [Thread -> Seq(Evaluation)]
         /\ Depth(t)' = Depth(t) - 1
         /\ \A i \in 1 .. Depth(t) - 1 : cstack'[t][i] = cstack[t][i]
         /\ \A u \in Thread \ {t} : cstack'[u] = cstack[u]
<1>1. cstack' = [cstack EXCEPT ![t] = SubSeq(cstack[t], 1, Depth(t) - 1)]
  BY DEF Leave, LeaveTo
<1>2. cstack[t] \in Seq(Evaluation)
  BY Depths DEF IInv
<1>3. cstack'[t] = SubSeq(cstack[t], 1, Depth(t) - 1)
        /\ \A u \in Thread \ {t} : cstack'[u] = cstack[u]
  BY <1>1 DEF IInv, TypeOK
<1>4. cstack' \in [Thread -> Seq(Evaluation)]
  BY <1>1, <1>2, FrontIs DEF IInv, TypeOK, Depth
<1> QED BY <1>2, <1>3, <1>4, FrontIs DEF Depth

\* An error is on its way out of the innermost evaluation: it unwinds that one.
LEMMA Home ==
  ASSUME IInv, NEW t \in Thread, Unwinding(t)
  PROVE  /\ Depth(t) # 0 /\ Top(t) \in Evaluation
         /\ Top(t).target[1] = Depth(t) /\ Top(t).target[2] = Top(t).frame
<1>1. Depth(t) \in 1 .. Depth(t) /\ Top(t) \in Evaluation
  BY Depths DEF IInv, Unwinding
<1>2. Linked(t)
  BY DEF IInv
<1>3. Top(t).target = <<Depth(t), Top(t).frame>>
  BY <1>1, <1>2 DEF Linked, Unwinding, Top
<1> QED BY <1>1, <1>3

LEMMA Marked ==
  ASSUME IInv, NEW t \in Thread, Throw(t)
  PROVE  /\ cstack' \in [Thread -> Seq(Evaluation)]
         /\ Depth(t) # 0 /\ Depth(t)' = Depth(t)
         /\ \A i \in 1 .. Depth(t) - 1 : cstack'[t][i] = cstack[t][i]
         /\ \A u \in Thread \ {t} : cstack'[u] = cstack[u]
         /\ Top(t)'.frame = Top(t).frame /\ Top(t)'.by = Top(t).by
         /\ Top(t)'.previous = Top(t).previous /\ Top(t)'.at = Top(t).at
         /\ Top(t)'.target = <<Depth(t), Top(t).frame>>
<1> DEFINE b == [Top(t) EXCEPT !.target = <<Depth(t), Top(t).frame>>]
<1>1. cstack[t] \in Seq(Evaluation) /\ Depth(t) \in 1 .. Depth(t) /\ Top(t) \in Evaluation
  BY Depths DEF IInv, Throw
<1>2. cframe[t] = Depth(t) /\ frame[t] = Top(t).frame
  BY <1>1 DEF IInv, Linked
<1>3. cstack' = [cstack EXCEPT ![t] = [cstack[t] EXCEPT ![Depth(t)] = b]]
  BY <1>2 DEF Throw, Top
<1>4. b \in Evaluation
  BY <1>1 DEF Evaluation
<1>5. /\ b.frame = Top(t).frame /\ b.by = Top(t).by /\ b.previous = Top(t).previous
      /\ b.at = Top(t).at /\ b.target = <<Depth(t), Top(t).frame>>
  BY <1>1 DEF Evaluation
<1> HIDE DEF b
<1>6. /\ [cstack[t] EXCEPT ![Depth(t)] = b] \in Seq(Evaluation)
      /\ Len([cstack[t] EXCEPT ![Depth(t)] = b]) = Depth(t)
      /\ \A i \in 1 .. Depth(t) - 1 : [cstack[t] EXCEPT ![Depth(t)] = b][i] = cstack[t][i]
      /\ [cstack[t] EXCEPT ![Depth(t)] = b][Depth(t)] = b
  BY <1>1, <1>4, ExceptSeq DEF Depth
<1>7. /\ cstack'[t] = [cstack[t] EXCEPT ![Depth(t)] = b]
      /\ \A u \in Thread \ {t} : cstack'[u] = cstack[u]
      /\ cstack' \in [Thread -> Seq(Evaluation)]
  BY <1>3, <1>6 DEF IInv, TypeOK
<1>8. Depth(t)' = Depth(t)
  BY <1>6, <1>7 DEF Depth
<1>9. Top(t)' = b
  BY <1>6, <1>7, <1>8 DEF Top
<1> QED BY <1>1, <1>5, <1>6, <1>7, <1>8, <1>9

LEMMA Caught ==
  ASSUME IInv, NEW t \in Thread, NEW p \in Point, Catch(t, p)
  PROVE  /\ cstack' \in [Thread -> Seq(Evaluation)]
         /\ Depth(t) # 0 /\ Depth(t)' = Depth(t)
         /\ \A i \in 1 .. Depth(t) - 1 : cstack'[t][i] = cstack[t][i]
         /\ \A u \in Thread \ {t} : cstack'[u] = cstack[u]
         /\ Top(t)'.frame = Top(t).frame /\ Top(t)'.by = Top(t).by
         /\ Top(t)'.previous = Top(t).previous /\ Top(t)'.at = p
         /\ Top(t)'.target = None
         /\ resume' = [resume EXCEPT ![Top(t).frame] = p]
         /\ entry' = IF Top(t).by = Interpreter THEN entry
                                                ELSE [entry EXCEPT ![Top(t).frame] = p]
<1>1. /\ Depth(t) # 0 /\ Top(t) \in Evaluation
      /\ Top(t).target[1] = Depth(t) /\ Top(t).target[2] = Top(t).frame
  BY Home DEF Catch
<1>2. cstack[t] \in Seq(Evaluation) /\ Depth(t) \in Nat
  BY Depths DEF IInv
<1>3. /\ resume' = [resume EXCEPT ![Top(t).frame] = p]
      /\ entry' = IF Top(t).by = Interpreter THEN entry
                                             ELSE [entry EXCEPT ![Top(t).frame] = p]
  BY <1>1 DEF Catch
<1>4. Top(t).by # Interpreter => entry'[Top(t).frame] = p
  BY <1>1, <1>3 DEF IInv, TypeOK, Evaluation
<1> DEFINE b == [Top(t) EXCEPT !.target = None, !.at = p]
           front == SubSeq(cstack[t], 1, Depth(t) - 1)
<1>5. cstack' = [cstack EXCEPT ![t] = Append(front, b)]
  BY <1>1, <1>4 DEF Catch, Top
<1>6. b \in Evaluation
  BY <1>1 DEF Evaluation, Place
<1>7. /\ b.frame = Top(t).frame /\ b.by = Top(t).by /\ b.previous = Top(t).previous
      /\ b.at = p /\ b.target = None
  BY <1>1 DEF Evaluation
<1>8. /\ front \in Seq(Evaluation) /\ Len(front) = Depth(t) - 1
      /\ \A i \in 1 .. Depth(t) - 1 : front[i] = cstack[t][i]
  BY <1>1, <1>2, FrontIs DEF Depth
<1> HIDE DEF b, front
<1>9. /\ Append(front, b) \in Seq(Evaluation) /\ Len(Append(front, b)) = Depth(t)
      /\ \A i \in 1 .. Depth(t) - 1 : Append(front, b)[i] = cstack[t][i]
      /\ Append(front, b)[Depth(t)] = b
  BY <1>2, <1>6, <1>8, AppendIs
<1>10. /\ cstack'[t] = Append(front, b)
       /\ \A u \in Thread \ {t} : cstack'[u] = cstack[u]
       /\ cstack' \in [Thread -> Seq(Evaluation)]
  BY <1>5, <1>9 DEF IInv, TypeOK
<1>11. Depth(t)' = Depth(t) /\ Top(t)' = b
  BY <1>9, <1>10 DEF Depth, Top
<1> QED BY <1>1, <1>3, <1>7, <1>9, <1>10, <1>11

-----------------------------------------------------------------------------
\* No evaluation is under way in a frame that is not executing.
LEMMA Idle ==
  ASSUME IInv, NEW f \in Frame, f_state[f] # "executing",
         NEW t \in Thread, NEW i \in 1 .. Depth(t)
  PROVE  cstack[t][i].frame # f
BY DEF IInv, Exclusive

\* The frames of other evaluations than the innermost of thread t are other frames.
LEMMA Others ==
  ASSUME IInv, NEW t \in Thread, Depth(t) # 0
  PROVE  /\ Top(t).frame \in Frame /\ f_state[Top(t).frame] = "executing"
         /\ \A u \in Thread : \A i \in 1 .. Depth(u) :
              cstack[u][i].frame = Top(t).frame => u = t /\ i = Depth(t)
<1>1. Depth(t) \in 1 .. Depth(t) /\ Top(t) \in Evaluation
  BY Depths DEF IInv
<1> QED BY <1>1 DEF IInv, Exclusive, Top, Evaluation

LEMMA InitialState == Init => IInv
<1> SUFFICES ASSUME Init PROVE IInv
  OBVIOUS
<1>1. \A t \in Thread : Depth(t) = 0
  BY DEF Init, Depth
<1>2. TypeOK
  <2>1. <<>> \in Seq(Evaluation)
    OBVIOUS
  <2> QED BY <2>1 DEF Init, TypeOK, State, Place, Start
<1>3. ASSUME NEW t \in Thread PROVE Linked(t)
  <2>1. Depth(t) = 0 /\ cframe[t] = 0 /\ frame[t] = NoFrame
    BY <1>1 DEF Init
  <2>2. 1 .. Depth(t) = {}
    BY <2>1
  <2> QED BY <2>1, <2>2 DEF Linked
<1>4. Exclusive /\ Current /\ GoesOnRight
  BY <1>1 DEF Init, Exclusive, Current, GoesOnRight
<1>5. LoadedOnce /\ Objects
  BY ConstantsDistinct DEF Init, LoadedOnce, Objects
<1>6. \A f \in Frame : EntryTrusted(f)
  BY ConstantsDistinct DEF Init, EntryTrusted
<1> QED BY <1>2, <1>3, <1>4, <1>5, <1>6 DEF IInv

-----------------------------------------------------------------------------
LEMMA EvaluateStep ==
  ASSUME IInv, NEW t \in Thread, NEW f \in Frame,
         f_state[f] \in {"created", "suspended"}, Evaluate(t, f)
  PROVE  IInv'
<1> DEFINE a == cstack'[t][Depth(t) + 1]
<1>1. /\ cstack' \in [Thread -> Seq(Evaluation)]
      /\ Depth(t)' = Depth(t) + 1
      /\ \A i \in 1 .. Depth(t) : cstack'[t][i] = cstack[t][i]
      /\ \A u \in Thread \ {t} : cstack'[u] = cstack[u]
      /\ a.frame = f /\ a.by = By(f) /\ a.previous = cframe[t]
      /\ a.at = (IF By(f) = Interpreter THEN resume[f] ELSE From(f))
      /\ a.target = None
  BY Pushed
<1>2. Depth(t) \in Nat /\ \A u \in Thread \ {t} : Depth(u)' = Depth(u)
  BY <1>1, Depths DEF IInv, Depth
<1>3. \A u \in Thread, i \in Nat : i \in 1 .. Depth(u)' =>
         \/ i \in 1 .. Depth(u) /\ cstack'[u][i] = cstack[u][i]
         \/ u = t /\ i = Depth(t) + 1
  BY <1>1, <1>2
<1> HIDE DEF a
<1>4. \A u \in Thread : \A i \in 1 .. Depth(u) : cstack[u][i].frame # f
  BY Idle
<1>5. EntryTrusted(f)
  BY DEF IInv
<1>6. From(f) \in Place \cup {Garbage} /\ By(f) \in Result \cup {Interpreter}
  BY DEF IInv, TypeOK, From, By, Place
<1>7. By(f) # Interpreter => \/ From(f) = resume[f] /\ From(f) # Garbage
                             \/ From(f) = Garbage /\ f \in overtaken \cap Generator
  <2>1. By(f) # Interpreter => extra[f_code[f]] \in Result
    BY DEF By
  <2>2. CASE f_state[f] = "created"
    BY <1>5, <2>2, ConstantsDistinct DEF From, EntryTrusted, Place
  <2>3. CASE f_state[f] = "suspended"
    BY <1>5, <2>1, <2>3 DEF From, EntryTrusted
  <2> QED BY <2>2, <2>3
<1>0. UNCHANGED <<extra, loaded, object, out_vec, overtaken, failed, lost, resume>>
  BY DEF Evaluate, codes
<1>8. TypeOK'
  BY <1>0, <1>1, <1>2, <1>6 DEF IInv, TypeOK, Evaluate, State
<1>9. ASSUME NEW u \in Thread PROVE Linked(u)'
  <2>1. Linked(u) /\ Linked(t)
    BY DEF IInv
  <2>2. f_back' = [f_back EXCEPT ![f] = frame[t]]
    BY DEF Evaluate
  <2>3. \A i \in 1 .. Depth(u) : f_back'[cstack[u][i].frame] = f_back[cstack[u][i].frame]
    BY <1>4, <2>2 DEF IInv, TypeOK
  <2>4. CASE u # t
    <3>1. cframe'[u] = cframe[u] /\ frame'[u] = frame[u]
      BY <2>4 DEF Evaluate, IInv, TypeOK
    <3>2. cstack'[u] = cstack[u] /\ Depth(u)' = Depth(u)
      BY <1>1, <1>2, <2>4
    <3> QED BY <2>1, <2>3, <3>1, <3>2 DEF Linked, Top
  <2>5. CASE u = t
    <3>1. cframe'[t] = Depth(t) + 1 /\ frame'[t] = f /\ f_back'[f] = frame[t]
      BY DEF Evaluate, IInv, TypeOK
    <3>2. Top(t)'.frame = f
      BY <1>1 DEF Top, a
    <3>3. ASSUME NEW i \in 1 .. Depth(t)
          PROVE  /\ cstack'[t][i].previous = i - 1
                 /\ cstack'[t][i].target \in {None, <<i, cstack'[t][i].frame>>}
                 /\ f_back'[cstack'[t][i].frame] =
                      IF i = 1 THEN NoFrame ELSE cstack'[t][i - 1].frame
      <4>1. cstack'[t][i] = cstack[t][i] /\ (i # 1 => cstack'[t][i - 1] = cstack[t][i - 1])
        <5>1. Depth(t) \in Nat /\ (i # 1 => i - 1 \in 1 .. Depth(t))
          BY <1>2
        <5> QED BY <1>1, <5>1
      <4>2. f_back'[cstack[t][i].frame] = f_back[cstack[t][i].frame]
        BY <2>3, <2>5
      <4>3. /\ cstack[t][i].previous = i - 1
            /\ cstack[t][i].target \in {None, <<i, cstack[t][i].frame>>}
            /\ f_back[cstack[t][i].frame] = IF i = 1 THEN NoFrame ELSE cstack[t][i - 1].frame
        BY <2>1 DEF Linked
      <4> QED BY <4>1, <4>2, <4>3
    <3>4. /\ a.previous = Depth(t) + 1 - 1
          /\ f_back'[a.frame] = IF Depth(t) + 1 = 1 THEN NoFrame ELSE cstack'[t][Depth(t)].frame
      BY <1>1, <1>2, <2>1, <3>1 DEF Linked, Top
    <3>5. \A i \in 1 .. Depth(t) + 1 :
            /\ cstack'[t][i].previous = i - 1
            /\ cstack'[t][i].target \in {None, <<i, cstack'[t][i].frame>>}
            /\ f_back'[cstack'[t][i].frame] =
                 IF i = 1 THEN NoFrame ELSE cstack'[t][i - 1].frame
      <4> SUFFICES ASSUME NEW i \in 1 .. Depth(t) + 1, i \notin 1 .. Depth(t)
                   PROVE  /\ a.previous = i - 1
                          /\ a.target = None /\ cstack'[t][i] = a
                          /\ f_back'[a.frame] = IF i = 1 THEN NoFrame
                                                        ELSE cstack'[t][i - 1].frame
        BY <3>3
      <4>1. i = Depth(t) + 1 /\ i - 1 = Depth(t)
        BY <1>2
      <4> QED BY <1>1, <3>4, <4>1 DEF a
    <3> QED BY <1>1, <1>2, <2>5, <3>1, <3>2, <3>5 DEF Linked
  <2> QED BY <2>4, <2>5
<1>10. Exclusive'
  <2>1. f_state' = [f_state EXCEPT ![f] = "executing"]
    BY DEF Evaluate
  <2>2. ASSUME NEW g \in Frame
        PROVE  f_state'[g] = "executing" <=>
                 \E u \in Thread : \E i \in 1 .. Depth(u)' : cstack'[u][i].frame = g
    <3>1. CASE g = f
      <4>1. Depth(t) + 1 \in 1 .. Depth(t)' /\ cstack'[t][Depth(t) + 1].frame = f
        BY <1>1, <1>2 DEF a
      <4> QED BY <2>1, <3>1, <4>1 DEF IInv, TypeOK
    <3>2. CASE g # f
      <4>1. f_state'[g] = f_state[g]
        BY <2>1, <3>2 DEF IInv, TypeOK
      <4>2. ASSUME NEW u \in Thread, NEW i \in 1 .. Depth(u), cstack[u][i].frame = g
            PROVE  i \in 1 .. Depth(u)' /\ cstack'[u][i].frame = g
        BY <1>1, <1>2, <4>2
      <4>3. ASSUME NEW u \in Thread, NEW i \in 1 .. Depth(u)', cstack'[u][i].frame = g
            PROVE  i \in 1 .. Depth(u) /\ cstack[u][i].frame = g
        BY <1>1, <1>3, <3>2, <4>3 DEF a
      <4> QED BY <4>1, <4>2, <4>3 DEF IInv, Exclusive
    <3> QED BY <3>1, <3>2
  <2>3. ASSUME NEW u \in Thread, NEW v \in Thread,
               NEW i \in 1 .. Depth(u)', NEW j \in 1 .. Depth(v)',
               cstack'[u][i].frame = cstack'[v][j].frame
        PROVE  u = v /\ i = j
    BY <1>1, <1>3, <1>4, <2>3 DEF IInv, Exclusive, a
  <2> QED BY <2>2, <2>3 DEF Exclusive
<1>11. Current'
  <2>1. By(f) = Interpreter => entry[f] = Garbage
    <3>1. extra[f_code[f]] \in Result \cup {NoResult, Dropped}
      BY ConstantsDistinct DEF IInv, TypeOK
    <3> QED BY <1>5, <3>1, ConstantsDistinct DEF By, EntryTrusted
  <2>2. By(f) # Interpreter => extra[f_code[f]] = By(f) /\ By(f) \in Result
    BY DEF By
  <2>3. /\ entry'[f] = IF By(f) = Interpreter THEN entry[f] ELSE From(f)
        /\ \A g \in Frame \ {f} : entry'[g] = entry[g]
    BY DEF Evaluate, IInv, TypeOK
  <2>4. ASSUME NEW u \in Thread, NEW i \in 1 .. Depth(u)
        PROVE  cstack[u][i].frame \in Frame \ {f}
    BY <1>4, Depths DEF IInv, Evaluation
  <2> SUFFICES ASSUME NEW u \in Thread, NEW i \in 1 .. Depth(u)'
               PROVE  LET b   == cstack'[u][i]
                          has == extra[f_code[b.frame]]
                      IN  IF b.by = Interpreter THEN entry'[b.frame] = Garbage
                          ELSE /\ has \in Result
                               /\ b.frame \in overtaken
                                    \/ (has = b.by /\ entry'[b.frame] # Garbage)
    BY <1>0 DEF Current
  <2>5. CASE i \in 1 .. Depth(u) /\ cstack'[u][i] = cstack[u][i]
    BY <2>3, <2>4, <2>5 DEF IInv, Current
  <2>6. CASE u = t /\ i = Depth(t) + 1
    <3>1. cstack'[u][i].frame = f /\ cstack'[u][i].by = By(f)
      BY <1>1, <2>6 DEF a
    <3> QED BY <1>7, <2>1, <2>2, <2>3, <3>1
  <2> QED BY <1>3, <2>5, <2>6
<1>12. LoadedOnce' /\ Objects'
  BY <1>0 DEF IInv, LoadedOnce, Objects
<1>13. ASSUME NEW g \in Frame PROVE EntryTrusted(g)'
  <2>1. EntryTrusted(g)
    BY DEF IInv
  <2>2. CASE g # f
    BY <1>0, <2>1, <2>2 DEF Evaluate, EntryTrusted, IInv, TypeOK
  <2>3. CASE g = f
    <3>1. f_state'[f] = "executing" /\ started'[f]
      BY DEF Evaluate, IInv, TypeOK
    <3>2. entry'[f] = IF By(f) = Interpreter THEN entry[f] ELSE From(f)
      BY DEF Evaluate, IInv, TypeOK
    <3>3. extra[f_code[f]] \in Result \cup {NoResult}
      <4>1. extra[f_code[f]] \in Result \cup {NoResult, Dropped}
        BY ConstantsDistinct DEF IInv, TypeOK
      <4> QED BY <1>5, <4>1 DEF EntryTrusted
    <3>4. By(f) = Interpreter <=> extra[f_code[f]] = NoResult
      BY <3>3, ConstantsDistinct DEF By
    <3>5. CASE By(f) = Interpreter
      BY <1>0, <1>5, <2>3, <3>1, <3>2, <3>4, <3>5, ConstantsDistinct DEF EntryTrusted
    <3>6. CASE By(f) # Interpreter
      BY <1>0, <1>7, <2>3, <3>1, <3>2, <3>3, <3>4, <3>6, ConstantsDistinct DEF EntryTrusted
    <3> QED BY <3>5, <3>6
  <2> QED BY <2>2, <2>3
<1>14. GoesOnRight'
  <2>1. a.at = resume[f] \/ (a.at = Garbage /\ f \in overtaken \cap Generator)
    BY <1>1, <1>7
  <2> SUFFICES ASSUME NEW u \in Thread, NEW i \in 1 .. Depth(u)'
               PROVE  \/ cstack'[u][i].at = resume[cstack'[u][i].frame]
                      \/ cstack'[u][i].at = Garbage
                           /\ cstack'[u][i].frame \in overtaken \cap Generator
    BY <1>0 DEF GoesOnRight
  <2>2. CASE i \in 1 .. Depth(u) /\ cstack'[u][i] = cstack[u][i]
    BY <2>2 DEF IInv, GoesOnRight
  <2>3. CASE u = t /\ i = Depth(t) + 1
    BY <1>1, <2>1, <2>3 DEF a
  <2> QED BY <1>3, <2>2, <2>3
<1> QED BY <1>8, <1>9, <1>10, <1>11, <1>12, <1>13, <1>14 DEF IInv

\* The innermost evaluation returns, yields or is left by an exception; entries and
\* places change for a frame that yields only.
LEMMA LeaveStep ==
  ASSUME IInv, NEW t \in Thread, Depth(t) # 0,
         NEW state \in {"suspended", "returned", "raised"}, NEW raises \in BOOLEAN,
         Leave(t, Depth(t), state, raises),
         state = "suspended" => Top(t).frame \in Generator,
         \/ state # "suspended" /\ UNCHANGED <<entry, resume>>
         \/ \E p \in Point :
              /\ resume' = [resume EXCEPT ![Top(t).frame] = p]
              /\ entry' = IF Top(t).by = Interpreter THEN entry
                          ELSE [entry EXCEPT ![Top(t).frame] = p]
  PROVE  IInv'
<1> DEFINE n == Depth(t)
           f == Top(t).frame
<1>1. /\ cstack' \in [Thread -> Seq(Evaluation)]
      /\ Depth(t)' = n - 1
      /\ \A i \in 1 .. n - 1 : cstack'[t][i] = cstack[t][i]
      /\ \A u \in Thread \ {t} : cstack'[u] = cstack[u]
  BY Popped
<1>2. /\ n \in Nat \ {0} /\ n \in 1 .. n /\ Top(t) \in Evaluation
      /\ Top(t) = cstack[t][n]
      /\ \A u \in Thread \ {t} : Depth(u)' = Depth(u)
  BY <1>1, Depths DEF IInv, Depth, Top
<1>3. /\ f \in Frame /\ f_state[f] = "executing"
      /\ \A u \in Thread : \A i \in 1 .. Depth(u) :
           cstack[u][i].frame = f => u = t /\ i = n
  BY Others
<1>4. /\ f_state' = [f_state EXCEPT ![f] = state]
      /\ cframe' = [cframe EXCEPT ![t] = Top(t).previous]
      /\ frame' = [frame EXCEPT ![t] = f_back[f]]
      /\ f_back' = IF f \in Generator THEN [f_back EXCEPT ![f] = NoFrame] ELSE f_back
      /\ error' = [error EXCEPT ![t] = raises \/ Top(t).pending]
      /\ UNCHANGED <<extra, loaded, object, out_vec, overtaken, failed, lost, started>>
  BY <1>2 DEF Leave, LeaveTo, codes
<1>5. Top(t).previous = n - 1 /\ Top(t).pending \in BOOLEAN
  BY <1>2 DEF IInv, Linked, Evaluation
<1>6. /\ resume' \in [Frame -> Place] /\ entry' \in [Frame -> Place \cup {Garbage}]
      /\ \A g \in Frame \ {f} : resume'[g] = resume[g] /\ entry'[g] = entry[g]
  <2>1. resume \in [Frame -> Place] /\ entry \in [Frame -> Place \cup {Garbage}]
    BY DEF IInv, TypeOK
  <2> HIDE DEF f
  <2>2. CASE UNCHANGED <<entry, resume>>
    BY <2>1, <2>2
  <2>3. ASSUME NEW p \in Point,
               resume' = [resume EXCEPT ![f] = p],
               entry' = IF Top(t).by = Interpreter THEN entry ELSE [entry EXCEPT ![f] = p]
        PROVE  /\ resume' \in [Frame -> Place] /\ entry' \in [Frame -> Place \cup {Garbage}]
               /\ \A g \in Frame \ {f} : resume'[g] = resume[g] /\ entry'[g] = entry[g]
    <3>1. p \in Place
      BY DEF Place
    <3>2. CASE Top(t).by = Interpreter
      BY <2>1, <2>3, <3>1, <3>2
    <3>3. CASE Top(t).by # Interpreter
      BY <2>1, <2>3, <3>1, <3>3
    <3> QED BY <3>2, <3>3
  <2> QED BY <2>2, <2>3 DEF f
<1>7. \A u \in Thread : \A i \in 1 .. Depth(u)' :
        /\ i \in 1 .. Depth(u) /\ cstack'[u][i] = cstack[u][i]
        /\ cstack[u][i].frame # f /\ cstack[u][i].frame \in Frame
  <2> SUFFICES ASSUME NEW u \in Thread, NEW i \in 1 .. Depth(u)'
               PROVE  /\ i \in 1 .. Depth(u) /\ cstack'[u][i] = cstack[u][i]
                      /\ cstack[u][i].frame # f /\ cstack[u][i].frame \in Frame
    OBVIOUS
  <2>1. i \in 1 .. Depth(u) /\ cstack'[u][i] = cstack[u][i] /\ (u = t => i # n)
    BY <1>1, <1>2
  <2>2. cstack[u][i] \in Evaluation
    BY <2>1, Depths DEF IInv
  <2> QED BY <1>3, <2>1, <2>2 DEF Evaluation
<1> HIDE DEF f
<1>8. TypeOK'
  <2>1. f_back' \in [Frame -> Frame \cup {NoFrame}] /\ f_back[f] \in Frame \cup {NoFrame}
    BY <1>3, <1>4 DEF IInv, TypeOK
  <2>2. f_state' \in [Frame -> State] /\ error' \in [Thread -> BOOLEAN]
    BY <1>4, <1>5 DEF IInv, TypeOK, State
  <2>3. n - 1 \in Nat /\ Top(t).previous \in Nat
    BY <1>2, <1>5
  <2>4. cframe' \in [Thread -> Nat] /\ frame' \in [Thread -> Frame \cup {NoFrame}]
    BY <1>4, <2>1, <2>3 DEF IInv, TypeOK
  <2>5. /\ extra' \in [Code -> Result \cup {NoResult, Dropped}] /\ loaded' \subseteq Result
        /\ object' \in [Result -> Code \cup {None}] /\ out_vec' \subseteq Code
        /\ overtaken' \subseteq Frame /\ failed' \subseteq Code /\ lost' \subseteq Result
        /\ started' \in [Frame -> BOOLEAN]
    BY <1>4 DEF IInv, TypeOK
  <2> QED BY <1>1, <1>6, <2>1, <2>2, <2>4, <2>5 DEF TypeOK
<1>9. ASSUME NEW u \in Thread PROVE Linked(u)'
  <2>1. Linked(u) /\ Linked(t)
    BY DEF IInv
  <2>2. \A i \in 1 .. Depth(u)' : f_back'[cstack'[u][i].frame] = f_back[cstack[u][i].frame]
    BY <1>3, <1>4, <1>7 DEF IInv, TypeOK
  <2>3. ASSUME NEW i \in 1 .. Depth(u)'
        PROVE  /\ cstack'[u][i].previous = i - 1
               /\ cstack'[u][i].target \in {None, <<i, cstack'[u][i].frame>>}
               /\ f_back'[cstack'[u][i].frame] =
                    IF i = 1 THEN NoFrame ELSE cstack'[u][i - 1].frame
    <3>1. i \in 1 .. Depth(u) /\ cstack'[u][i] = cstack[u][i]
      BY <1>7
    <3>2. i # 1 => cstack'[u][i - 1] = cstack[u][i - 1]
      <4>1. Depth(u)' \in Nat
        BY <1>1, <1>2, Depths DEF IInv
      <4>2. i # 1 => i - 1 \in 1 .. Depth(u)'
        BY <4>1
      <4> QED BY <1>7, <4>2
    <3> QED BY <2>1, <2>2, <3>1, <3>2 DEF Linked
  <2>4. CASE u # t
    <3>1. cframe'[u] = cframe[u] /\ frame'[u] = frame[u]
      BY <1>4, <2>4 DEF IInv, TypeOK
    <3>2. Depth(u)' = Depth(u) /\ cstack'[u] = cstack[u]
      BY <1>1, <1>2, <1>4, <2>4 DEF IInv, TypeOK
    <3> QED BY <2>1, <2>3, <3>1, <3>2 DEF Linked, Top
  <2>5. CASE u = t
    <3>1. cframe'[t] = n - 1 /\ frame'[t] = f_back[f]
      BY <1>4, <1>5 DEF IInv, TypeOK
    <3>2. f_back[f] = IF n = 1 THEN NoFrame ELSE cstack[t][n - 1].frame
      BY <1>2, <2>1 DEF Linked, f
    <3>3. n # 1 => Top(t)' = cstack[t][n - 1]
      BY <1>1, <1>2 DEF Top
    <3> QED BY <1>1, <1>2, <2>3, <2>5, <3>1, <3>2, <3>3 DEF Linked
  <2> QED BY <2>4, <2>5
<1>10. Exclusive'
  <2>1. ASSUME NEW g \in Frame
        PROVE  f_state'[g] = "executing" <=>
                 \E u \in Thread : \E i \in 1 .. Depth(u)' : cstack'[u][i].frame = g
    <3>1. CASE g = f
      <4>1. f_state'[f] = state /\ state # "executing"
        BY <1>3, <1>4 DEF IInv, TypeOK
      <4>2. ASSUME NEW u \in Thread, NEW i \in 1 .. Depth(u)' PROVE cstack'[u][i].frame # f
        BY <1>7
      <4> QED BY <3>1, <4>1, <4>2
    <3>2. CASE g # f
      <4>1. f_state'[g] = f_state[g]
        BY <1>4, <3>2 DEF IInv, TypeOK
      <4>2. ASSUME NEW u \in Thread, NEW i \in 1 .. Depth(u), cstack[u][i].frame = g
            PROVE  i \in 1 .. Depth(u)' /\ cstack'[u][i].frame = g
        <5>1. u = t => i # n
          BY <1>2, <3>2, <4>2 DEF f
        <5> QED BY <1>1, <1>2, <4>2, <5>1
      <4> QED BY <1>7, <4>1, <4>2 DEF IInv, Exclusive
    <3> QED BY <3>1, <3>2
  <2>2. ASSUME NEW u \in Thread, NEW v \in Thread,
               NEW i \in 1 .. Depth(u)', NEW j \in 1 .. Depth(v)',
               cstack'[u][i].frame = cstack'[v][j].frame
        PROVE  u = v /\ i = j
    BY <1>7, <2>2 DEF IInv, Exclusive
  <2> QED BY <2>1, <2>2 DEF Exclusive
<1>11. Current'
  BY <1>4, <1>6, <1>7 DEF IInv, Current
<1>12. LoadedOnce' /\ Objects'
  BY <1>4 DEF IInv, LoadedOnce, Objects
<1>13. ASSUME NEW g \in Frame PROVE EntryTrusted(g)'
  <2>1. EntryTrusted(g)
    BY DEF IInv
  <2>2. CASE g # f
    BY <1>4, <1>6, <2>1, <2>2 DEF EntryTrusted, IInv, TypeOK
  <2>3. CASE g = f
    <3>1. /\ f_state'[f] = state /\ UNCHANGED <<started, extra, overtaken>>
          /\ state = "suspended" => f \in Generator
      BY <1>3, <1>4 DEF IInv, TypeOK, f
    <3>2. IF Top(t).by = Interpreter THEN entry[f] = Garbage
                                     ELSE extra[f_code[f]] \in Result
      BY <1>2 DEF IInv, Current, f
    <3>3. CASE state # "suspended" /\ UNCHANGED <<entry, resume>>
      BY <1>3, <2>1, <2>3, <3>1, <3>3 DEF EntryTrusted
    <3>4. CASE \E p \in Point :
                 /\ resume' = [resume EXCEPT ![f] = p]
                 /\ entry' = IF Top(t).by = Interpreter THEN entry
                             ELSE [entry EXCEPT ![f] = p]
      <4>1. PICK p \in Point :
                 /\ resume' = [resume EXCEPT ![f] = p]
                 /\ entry' = IF Top(t).by = Interpreter THEN entry
                             ELSE [entry EXCEPT ![f] = p]
        BY <3>4
      <4>2. resume'[f] = p /\ p # Garbage
        BY <1>3, <4>1, ConstantsDistinct DEF IInv, TypeOK, Place
      <4>3. entry'[f] = IF Top(t).by = Interpreter THEN entry[f] ELSE p
        BY <1>3, <4>1 DEF IInv, TypeOK
      <4>4. extra[f_code[f]] \in Result => extra[f_code[f]] # NoResult
              /\ extra[f_code[f]] # Dropped
        BY ConstantsDistinct
      <4>5. extra[f_code[f]] = NoResult => extra[f_code[f]] # Dropped
        BY ConstantsDistinct
      <4> QED BY <1>3, <2>1, <2>3, <3>1, <3>2, <4>2, <4>3, <4>4, <4>5 DEF EntryTrusted
    <3> QED BY <3>3, <3>4 DEF f
  <2> QED BY <2>2, <2>3
<1>14. GoesOnRight'
  BY <1>4, <1>6, <1>7 DEF IInv, GoesOnRight
<1> QED BY <1>8, <1>9, <1>10, <1>11, <1>12, <1>13, <1>14 DEF IInv

\* Steps that change no stack but at most the innermost evaluation of one thread,
\* and of that only the place and the target, keep what links the evaluations.
LEMMA InPlace ==
  ASSUME IInv, NEW t \in Thread,
         cstack' \in [Thread -> Seq(Evaluation)],
         Depth(t) # 0, Depth(t)' = Depth(t),
         \A i \in 1 .. Depth(t) - 1 : cstack'[t][i] = cstack[t][i],
         \A u \in Thread \ {t} : cstack'[u] = cstack[u],
         Top(t)'.frame = Top(t).frame, Top(t)'.by = Top(t).by,
         Top(t)'.previous = Top(t).previous,
         Top(t)'.target \in {None, <<Depth(t), Top(t).frame>>},
         \A u \in Thread : \A i \in 1 .. Depth(u) :
           LET g == cstack[u][i].frame
           IN  \/ entry'[g] = entry[g]
               \/ cstack[u][i].by # Interpreter /\ entry'[g] # Garbage,
         UNCHANGED <<extra, overtaken, f_state, f_back, cframe, frame>>
  PROVE  /\ \A u \in Thread : Linked(u)'
         /\ Exclusive' /\ Current'
         /\ \A u \in Thread : \A i \in 1 .. Depth(u)' :
              \/ i \in 1 .. Depth(u) /\ cstack'[u][i] = cstack[u][i]
                   /\ cstack[u][i].frame # Top(t).frame
              \/ u = t /\ i = Depth(t)
<1>1. /\ Depth(t) \in Nat \ {0} /\ Top(t) = cstack[t][Depth(t)]
      /\ Top(t)' = cstack'[t][Depth(t)]
      /\ \A u \in Thread : Depth(u)' = Depth(u) /\ Depth(u) \in Nat
  BY Depths DEF IInv, Depth, Top
<1>2. \A u \in Thread : \A i \in 1 .. Depth(u) :
        /\ cstack'[u][i].frame = cstack[u][i].frame
        /\ cstack'[u][i].by = cstack[u][i].by
        /\ cstack'[u][i].previous = cstack[u][i].previous
        /\ \/ cstack'[u][i] = cstack[u][i]
           \/ u = t /\ i = Depth(t)
  BY <1>1
<1>3. ASSUME NEW u \in Thread PROVE Linked(u)'
  <2>1. Linked(u)
    BY DEF IInv
  <2>2. ASSUME NEW i \in 1 .. Depth(u)
        PROVE  /\ cstack'[u][i].previous = i - 1
               /\ cstack'[u][i].target \in {None, <<i, cstack'[u][i].frame>>}
               /\ f_back'[cstack'[u][i].frame] =
                    IF i = 1 THEN NoFrame ELSE cstack'[u][i - 1].frame
    <3>1. i # 1 => i - 1 \in 1 .. Depth(u)
      BY <1>1
    <3>2. cstack'[u][i].target \in {None, <<i, cstack'[u][i].frame>>}
      <4>1. CASE cstack'[u][i] = cstack[u][i]
        BY <2>1, <4>1 DEF Linked
      <4>2. CASE u = t /\ i = Depth(t)
        BY <1>1, <4>2
      <4> QED BY <1>2, <4>1, <4>2
    <3> QED BY <1>2, <2>1, <3>1, <3>2 DEF Linked
  <2>3. Depth(u) # 0 => Top(u)'.frame = Top(u).frame
    BY <1>1, <1>2 DEF Top
  <2> QED BY <1>1, <2>1, <2>2, <2>3 DEF Linked
<1>4. Exclusive'
  <2>1. ASSUME NEW f \in Frame
        PROVE  f_state[f] = "executing" <=>
                 \E u \in Thread : \E i \in 1 .. Depth(u)' : cstack'[u][i].frame = f
    <3>1. f_state[f] = "executing" <=>
            \E u \in Thread : \E i \in 1 .. Depth(u) : cstack[u][i].frame = f
      BY DEF IInv, Exclusive
    <3>2. \A u \in Thread : Depth(u)' = Depth(u)
            /\ \A i \in 1 .. Depth(u) : cstack'[u][i].frame = cstack[u][i].frame
      BY <1>1, <1>2
    <3> QED BY <3>1, <3>2
  <2>2. \A u, v \in Thread : \A i \in 1 .. Depth(u)', j \in 1 .. Depth(v)' :
          cstack'[u][i].frame = cstack'[v][j].frame => u = v /\ i = j
    BY <1>1, <1>2 DEF IInv, Exclusive
  <2> QED BY <2>1, <2>2 DEF Exclusive
<1>5. Current'
  BY <1>1, <1>2, SMTT(30) DEF IInv, Current
<1>6. \A u \in Thread : \A i \in 1 .. Depth(u)' :
        \/ i \in 1 .. Depth(u) /\ cstack'[u][i] = cstack[u][i]
             /\ cstack[u][i].frame # Top(t).frame
        \/ u = t /\ i = Depth(t)
  BY <1>1, <1>2, Others
<1> QED BY <1>3, <1>4, <1>5, <1>6

\* An error is set and found its way; in the buffer there may be one more object.
LEMMA ThrowStep ==
  ASSUME IInv, NEW t \in Thread, Throw(t),
         UNCHANGED <<extra, loaded, object, overtaken, lost>>,
         out_vec' \subseteq failed', failed \subseteq failed', failed' \subseteq Code
  PROVE  IInv'
<1>1. UNCHANGED <<extra, loaded, object, overtaken, lost,
                  f_state, f_back, started, entry, resume, cframe, frame>>
        /\ error' = [error EXCEPT ![t] = TRUE]
  BY DEF Throw, frames
<1>2. TypeOK'
  <2>1. out_vec' \subseteq Code
    OBVIOUS
  <2> QED BY <1>1, <2>1, Marked DEF IInv, TypeOK
<1>3. /\ \A u \in Thread : Linked(u)'
      /\ Exclusive' /\ Current'
      /\ \A u \in Thread : \A i \in 1 .. Depth(u)' :
           \/ i \in 1 .. Depth(u) /\ cstack'[u][i] = cstack[u][i]
                /\ cstack[u][i].frame # Top(t).frame
           \/ u = t /\ i = Depth(t)
  BY <1>1, Marked, InPlace
<1>4. LoadedOnce' /\ \A f \in Frame : EntryTrusted(f)'
  BY <1>1 DEF IInv, LoadedOnce, EntryTrusted
<1>5. Objects'
  BY <1>1 DEF IInv, Objects
<1>6. GoesOnRight'
  <2>1. Top(t)'.at = Top(t).at /\ Top(t)'.frame = Top(t).frame
          /\ Depth(t)' = Depth(t) /\ Depth(t) \in 1 .. Depth(t)
    BY Marked, Depths DEF IInv
  <2>2. Top(t) = cstack[t][Depth(t)] /\ Top(t)' = cstack'[t][Depth(t)]
    BY <2>1 DEF Top
  <2> SUFFICES ASSUME NEW u \in Thread, NEW i \in 1 .. Depth(u)'
               PROVE  \/ cstack'[u][i].at = resume[cstack'[u][i].frame]
                      \/ cstack'[u][i].at = Garbage
                           /\ cstack'[u][i].frame \in overtaken \cap Generator
    BY <1>1 DEF GoesOnRight
  <2>3. CASE i \in 1 .. Depth(u) /\ cstack'[u][i] = cstack[u][i]
    BY <2>3 DEF IInv, GoesOnRight
  <2>4. CASE u = t /\ i = Depth(t)
    BY <2>1, <2>2, <2>4 DEF IInv, GoesOnRight
  <2> QED BY <1>3, <2>3, <2>4
<1> QED BY <1>2, <1>3, <1>4, <1>5, <1>6 DEF IInv

LEMMA CatchStep == ASSUME IInv, NEW t \in Thread, NEW p \in Point, Catch(t, p) PROVE IInv'
<1> DEFINE f == Top(t).frame
<1>1. UNCHANGED <<extra, loaded, object, out_vec, overtaken, failed, lost,
                  f_state, f_back, started, cframe, frame>>
        /\ error' = [error EXCEPT ![t] = FALSE]
  BY DEF Catch, codes
<1>2. /\ Depth(t) # 0 /\ Top(t)'.frame = f /\ Top(t)'.at = p /\ Depth(t)' = Depth(t)
      /\ resume' = [resume EXCEPT ![f] = p]
      /\ entry' = IF Top(t).by = Interpreter THEN entry ELSE [entry EXCEPT ![f] = p]
      /\ cstack' \in [Thread -> Seq(Evaluation)]
  BY Caught
<1>3. f \in Frame /\ p \in Place /\ p # Garbage
  BY <1>2, Others, ConstantsDistinct DEF Place
<1>4. /\ \A u \in Thread : Linked(u)'
      /\ Exclusive' /\ Current'
      /\ \A u \in Thread : \A i \in 1 .. Depth(u)' :
           \/ i \in 1 .. Depth(u) /\ cstack'[u][i] = cstack[u][i]
                /\ cstack[u][i].frame # f
           \/ u = t /\ i = Depth(t)
  <2>1. ASSUME NEW u \in Thread, NEW i \in 1 .. Depth(u)
        PROVE  LET g == cstack[u][i].frame
               IN  \/ entry'[g] = entry[g]
                   \/ cstack[u][i].by # Interpreter /\ entry'[g] # Garbage
    <3>1. cstack[u][i].frame \in Frame
      BY Depths DEF IInv, Evaluation
    <3>2. CASE cstack[u][i].frame = f
      <4>1. cstack[u][i].by = Top(t).by
        BY <1>2, <3>2, Others DEF Top
      <4> QED BY <1>2, <1>3, <3>2, <4>1 DEF IInv, TypeOK
    <3>3. CASE cstack[u][i].frame # f
      BY <1>2, <1>3, <3>1, <3>3 DEF IInv, TypeOK
    <3> QED BY <3>2, <3>3
  <2> QED BY <1>1, <2>1, Caught, InPlace
<1>5. IF Top(t).by = Interpreter THEN entry[f] = Garbage
                                 ELSE extra[f_code[f]] \in Result
  BY <1>2, Depths DEF IInv, Current, Top
<1> HIDE DEF f
<1>6. TypeOK'
  <2>1. resume' \in [Frame -> Place] /\ entry' \in [Frame -> Place \cup {Garbage}]
    BY <1>2, <1>3 DEF IInv, TypeOK
  <2> QED BY <1>1, <1>2, <2>1 DEF IInv, TypeOK
<1>7. LoadedOnce' /\ Objects'
  BY <1>1 DEF IInv, LoadedOnce, Objects
<1>8. ASSUME NEW g \in Frame PROVE EntryTrusted(g)'
  <2>1. EntryTrusted(g)
    BY DEF IInv
  <2>2. CASE g # f
    <3>1. resume'[g] = resume[g] /\ entry'[g] = entry[g]
      BY <1>2, <1>3, <2>2 DEF IInv, TypeOK
    <3> QED BY <1>1, <2>1, <3>1 DEF EntryTrusted
  <2>3. CASE g = f
    <3>1. resume'[f] = p /\ f_state[f] = "executing"
      BY <1>2, <1>3, Others DEF IInv, TypeOK, f
    <3>2. entry'[f] = IF Top(t).by = Interpreter THEN entry[f] ELSE p
      BY <1>2, <1>3 DEF IInv, TypeOK
    <3>3. extra[f_code[f]] \in Result => extra[f_code[f]] \notin {NoResult, Dropped}
      BY ConstantsDistinct
    <3>4. NoResult # Dropped
      BY ConstantsDistinct
    <3> QED BY <1>1, <1>3, <1>5, <2>1, <2>3, <3>1, <3>2, <3>3, <3>4 DEF EntryTrusted
  <2> QED BY <2>2, <2>3
<1>9. GoesOnRight'
  <2>1. \A u \in Thread : \A i \in 1 .. Depth(u) : cstack[u][i].frame \in Frame
    BY Depths DEF IInv, Evaluation
  <2>2. \A g \in Frame \ {f} : resume'[g] = resume[g]
    BY <1>2 DEF IInv, TypeOK
  <2>3. cstack'[t][Depth(t)].at = resume'[cstack'[t][Depth(t)].frame]
    BY <1>2, <1>3 DEF Top, IInv, TypeOK
  <2> SUFFICES ASSUME NEW u \in Thread, NEW i \in 1 .. Depth(u)'
               PROVE  \/ cstack'[u][i].at = resume'[cstack'[u][i].frame]
                      \/ cstack'[u][i].at = Garbage
                           /\ cstack'[u][i].frame \in overtaken \cap Generator
    BY <1>1 DEF GoesOnRight
  <2>4. CASE i \in 1 .. Depth(u) /\ cstack'[u][i] = cstack[u][i] /\ cstack[u][i].frame # f
    BY <2>1, <2>2, <2>4 DEF IInv, GoesOnRight
  <2>5. CASE u = t /\ i = Depth(t)
    BY <2>3, <2>5
  <2> QED BY <1>4, <2>4, <2>5
<1> QED BY <1>4, <1>6, <1>7, <1>8, <1>9 DEF IInv

\* What happens to the codes' results, if no frame and no thread is touched.
LEMMA Elsewhere ==
  ASSUME IInv, UNCHANGED <<frames, tstates>>
  PROVE  /\ UNCHANGED <<f_state, f_back, started, entry, resume, cstack, cframe, frame, error>>
         /\ \A u \in Thread : Depth(u)' = Depth(u) /\ Top(u)' = Top(u)
         /\ \A u \in Thread : Linked(u)'
         /\ Exclusive'
<1>1. /\ UNCHANGED <<f_state, f_back, started, entry, resume, cstack, cframe, frame, error>>
      /\ \A u \in Thread : Depth(u)' = Depth(u) /\ Top(u)' = Top(u)
  BY DEF frames, tstates, Depth, Top
<1> QED BY <1>1 DEF IInv, Linked, Exclusive

\* A result put into a code object: the frames it harms are overtaken.
LEMMA ApplyStep ==
  ASSUME IInv, NEW t \in Thread, NEW c \in Code, NEW r \in Result, Apply(t, c, r)
  PROVE  IInv'
<1>1. /\ r \notin loaded /\ extra[c] # Dropped
      /\ out_vec' = {} /\ failed' = failed
      /\ UNCHANGED <<frames, tstates>> /\ SetExtra(c, r)
  BY DEF Apply
<1>2. PICK d \in out_vec \cup {c} : object' = [Unloaded(c) EXCEPT ![r] = d]
  BY DEF Apply
<1>3. /\ UNCHANGED <<f_state, f_back, started, entry, resume, cstack, cframe, frame, error>>
      /\ \A u \in Thread : Depth(u)' = Depth(u)
      /\ \A u \in Thread : Linked(u)'
      /\ Exclusive'
  BY <1>1, Elsewhere
<1>4. /\ d \in {c} \cup failed /\ d \in Code
      /\ object'[r] = d
      /\ \A q \in Result \ {r} : q # extra[c] => object'[q] = object[q]
      /\ object' \in [Result -> Code \cup {None}]
  BY <1>2 DEF IInv, Objects, TypeOK, Unloaded
<1>5. r \notin lost /\ \A e \in Code : extra[e] # r
  BY <1>1 DEF IInv, LoadedOnce
<1>6. CASE /\ extra' = [extra EXCEPT ![c] = r]
           /\ loaded' = freeExtra(c) \cup {r}
           /\ overtaken' = overtaken \cup UnderWay(c)
           /\ UNCHANGED lost
  <2>1. \A e \in Code : extra'[e] = IF e = c THEN r ELSE extra[e]
    BY <1>6 DEF IInv, TypeOK
  <2>2. /\ extra' \in [Code -> Result \cup {NoResult, Dropped}] /\ loaded' \subseteq Result
        /\ overtaken' \subseteq Frame
    BY <1>6 DEF IInv, TypeOK, freeExtra, UnderWay
  <2>3. TypeOK'
    BY <1>1, <1>3, <1>4, <1>6, <2>2 DEF IInv, TypeOK
  <2>4. LoadedOnce'
    <3>1. ASSUME NEW q \in Result
          PROVE  q \in loaded' <=> q \in lost' \/ \E e \in Code : extra'[e] = q
      <4>1. CASE q = r
        BY <1>6, <2>1, <4>1
      <4>2. CASE q # r
        <5>1. q \in loaded' <=> q \in loaded /\ q # extra[c]
          BY <1>6, <4>2 DEF freeExtra
        <5>2. (\E e \in Code : extra'[e] = q) <=> (\E e \in Code \ {c} : extra[e] = q)
          BY <2>1, <4>2
        <5>3. (\E e \in Code : extra[e] = q) /\ q # extra[c]
                <=> (\E e \in Code \ {c} : extra[e] = q)
          BY DEF IInv, LoadedOnce
        <5>4. q \in lost => q # extra[c]
          BY DEF IInv, LoadedOnce
        <5> QED BY <1>6, <5>1, <5>2, <5>3, <5>4 DEF IInv, LoadedOnce
      <4> QED BY <4>1, <4>2
    <3>2. \A e \in Code : extra'[e] \notin lost'
      BY <1>5, <1>6, <2>1 DEF IInv, LoadedOnce
    <3>3. \A e, g \in Code : extra'[e] = extra'[g] /\ extra'[e] \in Result => e = g
      BY <1>5, <2>1 DEF IInv, LoadedOnce
    <3> QED BY <3>1, <3>2, <3>3 DEF LoadedOnce
  <2>5. Objects'
    <3>1. ASSUME NEW e \in Code, extra'[e] \in Result
          PROVE  object'[extra'[e]] \in {e} \cup failed'
      <4>1. CASE e = c
        BY <1>1, <1>4, <2>1, <4>1
      <4>2. CASE e # c
        <5>1. extra'[e] = extra[e] /\ extra[e] # r /\ extra[e] # extra[c]
          BY <1>5, <2>1, <3>1, <4>2 DEF IInv, LoadedOnce
        <5> QED BY <1>1, <1>4, <3>1, <5>1 DEF IInv, Objects
      <4> QED BY <4>1, <4>2
    <3> QED BY <1>1, <3>1 DEF Objects
  <2>6. Current'
    <3> SUFFICES ASSUME NEW u \in Thread, NEW i \in 1 .. Depth(u)
                 PROVE  LET a   == cstack[u][i]
                            has == extra'[f_code[a.frame]]
                        IN  IF a.by = Interpreter THEN entry[a.frame] = Garbage
                            ELSE /\ has \in Result
                                 /\ a.frame \in overtaken'
                                      \/ (has = a.by /\ entry[a.frame] # Garbage)
      BY <1>3 DEF Current
    <3> DEFINE f == cstack[u][i].frame
    <3>1. f \in Frame /\ f_code[f] \in Code /\ f_state[f] = "executing"
      BY Depths, ConstantsDistinct DEF IInv, Evaluation, Exclusive
    <3>2. IF cstack[u][i].by = Interpreter THEN entry[f] = Garbage
          ELSE /\ extra[f_code[f]] \in Result
               /\ f \in overtaken \/ (extra[f_code[f]] = cstack[u][i].by /\ entry[f] # Garbage)
      BY DEF IInv, Current
    <3> HIDE DEF f
    <3>3. f_code[f] = c /\ entry[f] # Garbage => f \in overtaken'
      BY <1>6, <3>1 DEF UnderWay
    <3>4. extra'[f_code[f]] = IF f_code[f] = c THEN r ELSE extra[f_code[f]]
      BY <2>1, <3>1
    <3> QED BY <1>6, <3>2, <3>3, <3>4 DEF f
  <2>7. ASSUME NEW g \in Frame PROVE EntryTrusted(g)'
    <3>1. EntryTrusted(g) /\ f_code[g] \in Code
      BY ConstantsDistinct DEF IInv
    <3>2. extra'[f_code[g]] = IF f_code[g] = c THEN r ELSE extra[f_code[g]]
      BY <2>1, <3>1
    <3>3. r # NoResult /\ r # Dropped
      BY ConstantsDistinct
    <3>4. f_code[g] = c /\ f_state[g] \in {"executing", "suspended"} /\ g \in Generator \ overtaken'
            => entry[g] # Garbage
      BY <1>6 DEF UnderWay
    <3> QED BY <1>3, <1>6, <3>1, <3>2, <3>3, <3>4 DEF EntryTrusted
  <2>8. GoesOnRight'
    BY <1>3, <1>6 DEF IInv, GoesOnRight
  <2> QED BY <1>3, <2>3, <2>4, <2>5, <2>6, <2>7, <2>8 DEF IInv
<1>7. CASE /\ extra[c] = NoResult
           /\ loaded' = loaded \cup {r} /\ lost' = lost \cup {r}
           /\ UNCHANGED <<extra, overtaken>>
  <2>1. TypeOK'
    BY <1>1, <1>3, <1>4, <1>7 DEF IInv, TypeOK
  <2>2. LoadedOnce'
    BY <1>5, <1>7 DEF IInv, LoadedOnce
  <2>3. Objects'
    <3>1. \A e \in Code : extra[e] \in Result => object'[extra[e]] = object[extra[e]]
      BY <1>4, <1>5, <1>7, ConstantsDistinct
    <3> QED BY <1>1, <1>7, <3>1 DEF IInv, Objects
  <2>4. Current' /\ GoesOnRight' /\ \A g \in Frame : EntryTrusted(g)'
    BY <1>3, <1>7 DEF IInv, Current, GoesOnRight, EntryTrusted
  <2> QED BY <1>3, <2>1, <2>2, <2>3, <2>4 DEF IInv
<1> QED BY <1>1, <1>6, <1>7 DEF SetExtra

LEMMA DropStep == ASSUME IInv, NEW c \in Code, DropCode(c) PROVE IInv'
<1>1. /\ extra' = [extra EXCEPT ![c] = Dropped] /\ loaded' = loaded \ {extra[c]}
      /\ object' = Unloaded(c)
      /\ \A f \in Frame : f_code[f] = c => f_state[f] \in {"returned", "raised"}
      /\ UNCHANGED <<out_vec, overtaken, failed, lost, frames, tstates>>
  BY DEF DropCode, freeExtra
<1>2. /\ UNCHANGED <<f_state, f_back, started, entry, resume, cstack, cframe, frame, error>>
      /\ \A u \in Thread : Depth(u)' = Depth(u)
      /\ \A u \in Thread : Linked(u)'
      /\ Exclusive'
  BY <1>1, Elsewhere
<1>3. /\ object' \in [Result -> Code \cup {None}]
      /\ \A q \in Result : q # extra[c] => object'[q] = object[q]
  BY <1>1 DEF IInv, TypeOK, Unloaded
<1>4. TypeOK'
  BY <1>1, <1>2, <1>3 DEF IInv, TypeOK
<1>5. GoesOnRight'
  BY <1>1, <1>2 DEF IInv, GoesOnRight
<1>6. \A d \in Code : extra'[d] = IF d = c THEN Dropped ELSE extra[d]
  BY <1>1 DEF IInv, TypeOK
<1>7. Current'
  <2>1. ASSUME NEW u \in Thread, NEW i \in 1 .. Depth(u)
        PROVE  extra'[f_code[cstack[u][i].frame]] = extra[f_code[cstack[u][i].frame]]
    <3>1. cstack[u][i].frame \in Frame
      BY Depths DEF IInv, Evaluation
    <3>2. f_state[cstack[u][i].frame] = "executing"
      BY <3>1 DEF IInv, Exclusive
    <3> QED BY <1>1, <1>6, <3>1, <3>2, ConstantsDistinct
  <2> QED BY <1>1, <1>2, <2>1 DEF IInv, Current
<1>8. LoadedOnce'
  <2>1. Dropped \notin lost /\ Dropped \notin Result
    BY ConstantsDistinct DEF IInv, TypeOK
  <2> QED BY <1>1, <1>6, <2>1 DEF IInv, LoadedOnce
<1>9. Objects'
  <2>1. ASSUME NEW d \in Code, extra'[d] \in Result
        PROVE  object'[extra'[d]] \in {d} \cup failed
    <3>1. d # c /\ extra'[d] = extra[d]
      BY <1>6, <2>1, ConstantsDistinct
    <3>2. extra[d] # extra[c]
      BY <2>1, <3>1 DEF IInv, LoadedOnce
    <3> QED BY <1>3, <2>1, <3>1, <3>2 DEF IInv, Objects
  <2> QED BY <1>1, <2>1 DEF IInv, Objects
<1>10. ASSUME NEW g \in Frame PROVE EntryTrusted(g)'
  <2>1. EntryTrusted(g) /\ f_code[g] \in Code /\ NoResult # Dropped /\ Dropped \notin Result
    BY ConstantsDistinct DEF IInv
  <2> QED BY <1>1, <1>2, <1>6, <2>1 DEF EntryTrusted
<1> QED BY <1>2, <1>4, <1>5, <1>7, <1>8, <1>9, <1>10 DEF IInv

\* Steps that change none of what the invariant is about but the error set, and what
\* is in the buffer.
LEMMA QuietStep ==
  ASSUME IInv, UNCHANGED <<extra, loaded, object, overtaken, lost, frames, cstack, cframe, frame>>,
         error' \in [Thread -> BOOLEAN],
         out_vec' \subseteq failed', failed \subseteq failed', failed' \subseteq Code
  PROVE  IInv'
<1>1. /\ UNCHANGED <<extra, loaded, object, overtaken, lost,
                     f_state, f_back, started, entry, resume, cstack, cframe, frame>>
      /\ \A u \in Thread : Depth(u)' = Depth(u) /\ Top(u)' = Top(u)
  BY DEF frames, Depth, Top
<1>2. TypeOK'
  <2>1. out_vec' \subseteq Code
    OBVIOUS
  <2> QED BY <1>1, <2>1 DEF IInv, TypeOK
<1>3. LoadedOnce' /\ Objects' /\ \A f \in Frame : EntryTrusted(f)'
  BY <1>1 DEF IInv, LoadedOnce, Objects, EntryTrusted
<1>4. \A t \in Thread : Linked(t)'
  BY <1>1 DEF IInv, Linked
<1>5. Exclusive' /\ Current' /\ GoesOnRight'
  BY <1>1 DEF IInv, Exclusive, Current, GoesOnRight
<1> QED BY <1>2, <1>3, <1>4, <1>5 DEF IInv

LEMMA ApplyFailsStep ==
  ASSUME IInv, NEW t \in Thread, NEW c \in Code, ApplyFails(t, c) PROVE IInv'
<1>1. /\ out_vec' \subseteq failed' /\ failed \subseteq failed' /\ failed' \subseteq Code
      /\ UNCHANGED <<extra, loaded, object, overtaken, lost>>
  BY DEF ApplyFails, IInv, Objects, TypeOK
<1>2. CASE Throw(t)
  BY <1>1, <1>2, ThrowStep
<1>3. CASE UNCHANGED <<frames, tstates>>
  BY <1>1, <1>3, QuietStep DEF tstates, IInv, TypeOK
<1> QED BY <1>2, <1>3 DEF ApplyFails

LEMMA NextStep == IInv /\ [Next]_vars => IInv'
<1> SUFFICES ASSUME IInv, [Next]_vars PROVE IInv'
  OBVIOUS
<1> USE DEF codes
<1>0. out_vec \subseteq failed /\ failed \subseteq Code
  BY DEF IInv, Objects, TypeOK
<1>1. ASSUME NEW t \in Thread, NEW f \in Frame, Call(t, f) \/ Send(t, f) PROVE IInv'
  BY <1>1, EvaluateStep DEF Call, Send
<1>2. ASSUME NEW t \in Thread, Return(t) PROVE IInv'
  <2>1. Depth(t) # 0 /\ Leave(t, Depth(t), "returned", FALSE) /\ UNCHANGED <<entry, resume>>
    BY <1>2, Depths DEF Return, Running, IInv
  <2> QED BY <2>1, LeaveStep
<1>3. ASSUME NEW t \in Thread, NEW p \in Point, Yield(t, p) PROVE IInv'
  <2>1. Depth(t) # 0 /\ Leave(t, Depth(t), "suspended", FALSE) /\ Top(t).frame \in Generator
    BY <1>3, Depths DEF Yield, Running, IInv
  <2>2. /\ resume' = [resume EXCEPT ![Top(t).frame] = p]
        /\ entry' = IF Top(t).by = Interpreter THEN entry
                    ELSE [entry EXCEPT ![Top(t).frame] = p]
    BY <1>3 DEF Yield
  <2> QED BY <2>1, <2>2, LeaveStep
<1>4. ASSUME NEW t \in Thread, LeaveFrame(t) PROVE IInv'
  <2>1. Depth(t) # 0 /\ Leave(t, Depth(t), "raised", TRUE) /\ UNCHANGED <<entry, resume>>
    BY <1>4, Home DEF LeaveFrame
  <2> QED BY <2>1, LeaveStep
<1>5. ASSUME NEW t \in Thread, Raise(t) PROVE IInv'
  BY <1>0, <1>5, ThrowStep DEF Raise
<1>6. ASSUME NEW t \in Thread, NEW p \in Point, Catch(t, p) PROVE IInv'
  BY <1>6, CatchStep
<1>7. ASSUME NEW t \in Thread, Report(t) PROVE IInv'
  <2>1. error' \in [Thread -> BOOLEAN]
    BY <1>7 DEF Report, IInv, TypeOK
  <2> QED BY <1>0, <1>7, <2>1, QuietStep DEF Report
<1>8. ASSUME NEW t \in Thread, NEW c \in Code, ApplyFails(t, c) PROVE IInv'
  BY <1>8, ApplyFailsStep
<1>9. ASSUME NEW t \in Thread, NEW c \in Code, NEW r \in Result, Apply(t, c, r) PROVE IInv'
  BY <1>9, ApplyStep
<1>10. ASSUME NEW c \in Code, DropCode(c) PROVE IInv'
  BY <1>10, DropStep
<1>11. CASE UNCHANGED vars
  BY <1>0, <1>11, QuietStep DEF vars, tstates, IInv, TypeOK
<1> QED BY <1>1, <1>2, <1>3, <1>4, <1>5, <1>6, <1>7, <1>8, <1>9, <1>10, <1>11 DEF Next, Step

-----------------------------------------------------------------------------
\* The invariant holds throughout.
THEOREM InvariantHolds == Spec => []IInv
BY InitialState, NextStep, PTL DEF Spec

\* A C longjmp is not checked by anybody: whatever is called, resumed, raised and
\* caught, in any number of threads, gotoErrorHandler finds the frame and the
\* jump buffer of the evaluation that calls it, and still has them when the
\* destructors it ran have returned.
THEOREM ErrorsJumpHome == Spec => []JumpsHome
<1>1. IInv => JumpsHome
  <2> SUFFICES ASSUME IInv, NEW t \in Thread
               PROVE  /\ cframe[t] = Depth(t)
                      /\ cstack[t] # <<>> => frame[t] = Top(t).frame
                      /\ \A i \in 1 .. Depth(t) :
                           cstack[t][i].target \in {None, <<i, cstack[t][i].frame>>}
    BY DEF JumpsHome
  <2> QED BY Depths DEF IInv, Linked
<1> QED BY <1>1, InvariantHolds, PTL

\* Machine code under way stays mapped, and is what its function has, though functions
\* are compiled again and memory is reused, in every frame that apply did not overtake;
\* and it is another function's only after a load had failed.
THEOREM CodeStaysLoaded == Spec => []RunsLoadedCode
<1>1. IInv => RunsLoadedCode
  <2> SUFFICES ASSUME IInv, NEW t \in Thread, NEW i \in 1 .. Depth(t),
                      cstack[t][i].by # Interpreter,
                      cstack[t][i].frame \notin overtaken
               PROVE  LET a == cstack[t][i]
                      IN  /\ a.by \in loaded
                          /\ a.by = extra[f_code[a.frame]]
                          /\ object[a.by] \in {f_code[a.frame]} \cup failed
    BY DEF RunsLoadedCode
  <2>1. /\ extra[f_code[cstack[t][i].frame]] = cstack[t][i].by
        /\ cstack[t][i].by \in Result
    BY DEF IInv, Current
  <2>2. f_code[cstack[t][i].frame] \in Code
    BY Depths, ConstantsDistinct DEF IInv, Evaluation
  <2> QED BY <2>1, <2>2 DEF IInv, LoadedOnce, Objects
<1> QED BY <1>1, InvariantHolds, PTL

\* Machine code starts where the program goes on, whichever thread ran the frame
\* before; or at garbage, in a generator which the interpreter had begun and whose
\* function was compiled since, but never at another place.
THEOREM EntriesRight == Spec => []GoesOnRight
<1>1. IInv => GoesOnRight
  BY DEF IInv
<1> QED BY <1>1, InvariantHolds, PTL

\* No result is freed twice, none that a code object has is unmapped, and apply leaves
\* none mapped that no code object has but those _PyCode_SetExtra refused.
THEOREM ResultsLoadedOnce == Spec => []LoadedOnce
<1>1. IInv => LoadedOnce
  BY DEF IInv
<1> QED BY <1>1, InvariantHolds, PTL

\* Frames are evaluated once, and f_back leads to the frame that called.
THEOREM CallersChained == Spec => []FramesChained
<1>1. IInv => FramesChained
  BY DEF IInv, Exclusive, FramesChained, Linked
<1> QED BY <1>1, InvariantHolds, PTL
=============================================================================
