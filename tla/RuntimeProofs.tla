---------------------------- MODULE RuntimeProofs ----------------------------
(***************************************************************************)
(* What holds of parts of MCRuntime, each on its own and as the run checks *)
(* them: the scripts read what was written last, the watchers and the loop *)
(* agree on what keeps it running, the HTTP parser hands the header lines  *)
(* of a message on whole, and the compressor emits all that it made.       *)
(***************************************************************************)
EXTENDS MCRuntime, StreamProofs, WellFoundedInduction

-----------------------------------------------------------------------------
(* Scripts: copies of the properties. *)

\* The objects given to scripts are of two kinds.
ScriptObjects == Sandboxes \cap Contexts = {}

\* A script that runs.
ScriptFrame == [box : V!Boxes, global : V!PropsOf]

\* What is known of a property that is not spoilt: every script on the sandbox has in its
\* global object what was last written; a sandbox with two scripts on it, or none, has it
\* itself; and what the sandbox has and a script lacks would come back to life.
Sound(b, p) ==
  /\ \A k \in V!Frames : scripts[k].box = b =>
       /\ V!InnerGlobal(k)[p] = written[b][p]
       /\ written[b][p] = Absent => sandbox[b][p] = Absent
       /\ \A j \in V!Frames : scripts[j].box = b /\ j # k => sandbox[b][p] = written[b][p]
  /\ ~V!Running(b) =>
       /\ sandbox[b][p] = written[b][p]
       /\ b \in Contexts /\ written[b][p] = Absent => global[b][p] = Absent

\* The invariant that carries the result about scripts.
ScriptInv ==
  /\ V!ScriptTypeOK /\ scripts \in Seq(ScriptFrame)
  /\ \A b \in V!Boxes, p \in Props : p \notin spoilt[b] => Sound(b, p)

\* At the start.
LEMMA ScriptStart == V!ScriptInit /\ MaxWrites \in Nat => ScriptInv
<1> SUFFICES ASSUME V!ScriptInit, MaxWrites \in Nat PROVE ScriptInv
  OBVIOUS
<1>1. /\ sandbox = [b \in V!Boxes |-> V!Bare] /\ global = [c \in Contexts |-> V!Bare]
      /\ scripts = <<>> /\ written = [b \in V!Boxes |-> V!Bare] /\ nwrites = 0
      /\ spoilt = [b \in V!Boxes |-> {}]
  BY DEF V!ScriptInit
<1>2. V!Bare \in V!PropsOf /\ \A p \in Props : V!Bare[p] = Absent
  BY DEF V!Bare, V!PropsOf
<1>3. V!Frames = {}
  BY <1>1 DEF V!Frames
<1>4. scripts \in Seq(ScriptFrame)
  BY <1>1
<1>5. V!ScriptTypeOK
  BY <1>1, <1>2, <1>3 DEF V!ScriptTypeOK, V!Boxes
<1>6. \A b \in V!Boxes, p \in Props : Sound(b, p)
  BY <1>1, <1>2, <1>3 DEF Sound
<1> QED BY <1>4, <1>5, <1>6 DEF ScriptInv

\* A copy, property by property.
LEMMA CloneAt ==
  ASSUME NEW f \in V!PropsOf, NEW g \in V!PropsOf
  PROVE  /\ V!CloneObject(f, g) \in V!PropsOf
         /\ \A p \in Props : V!CloneObject(f, g)[p] = IF f[p] = Absent THEN g[p] ELSE f[p]
BY DEF V!CloneObject, V!PropsOf

\* A script that has begun, perhaps on a sandbox that others run on.
LEMMA ScriptEnters ==
  ASSUME ScriptObjects, ScriptInv, NEW b \in V!Boxes,
         V!RunInNewContext(b) \/ V!RunInContext(b)
  PROVE  ScriptInv'
<1> DEFINE n == Len(scripts)
<1>0. PICK m \in Nat : m = n + 1
  BY DEF ScriptInv
<1>1. /\ sandbox' = sandbox /\ written' = written /\ nwrites' = nwrites
      /\ spoilt' = [spoilt EXCEPT ![b] = @ \cup {p \in Props : written[b][p] # sandbox[b][p]}]
  BY DEF V!RunInNewContext, V!RunInContext, V!Enters, V!Spoils
<1>2. /\ sandbox[b] \in V!PropsOf /\ (b \in Contexts => global[b] \in V!PropsOf)
      /\ V!Bare \in V!PropsOf /\ \A p \in Props : V!Bare[p] = Absent
  BY DEF ScriptInv, V!ScriptTypeOK, V!Bare, V!PropsOf
<1>3. PICK g \in V!PropsOf, h \in V!PropsOf :
        /\ scripts' = Append(scripts, [box |-> b, global |-> g])
        /\ b \in Contexts =>
             /\ global' = [global EXCEPT ![b] = h]
             /\ \A p \in Props : h[p] = IF sandbox[b][p] = Absent THEN global[b][p]
                                                                  ELSE sandbox[b][p]
        /\ b \notin Contexts => global' = global /\ \A p \in Props : g[p] = sandbox[b][p]
  <2>1. CASE V!RunInNewContext(b)
    <3>1. PICK g : g = V!CloneObject(sandbox[b], V!Bare)
      OBVIOUS
    <3>2. b \notin Contexts /\ scripts' = Append(scripts, [box |-> b, global |-> g])
          /\ global' = global
      BY <2>1, <3>1 DEF V!RunInNewContext, ScriptObjects
    <3>3. g \in V!PropsOf /\ \A p \in Props : g[p] = sandbox[b][p]
      BY <1>2, <3>1, CloneAt
    <3> QED BY <3>2, <3>3
  <2>2. CASE V!RunInContext(b)
    <3>1. PICK h : h = V!CloneObject(sandbox[b], global[b])
      OBVIOUS
    <3>2. /\ b \in Contexts /\ scripts' = Append(scripts, [box |-> b, global |-> V!Bare])
          /\ global' = [global EXCEPT ![b] = h]
      BY <2>2, <3>1 DEF V!RunInContext
    <3>3. h \in V!PropsOf
          /\ \A p \in Props : h[p] = IF sandbox[b][p] = Absent THEN global[b][p] ELSE sandbox[b][p]
      BY <1>2, <3>1, <3>2, CloneAt
    <3> QED BY <1>2, <3>2, <3>3
  <2> QED BY <2>1, <2>2
<1>4. /\ scripts' \in Seq(ScriptFrame) /\ n \in Nat
      /\ V!Frames = 1 .. n /\ V!Frames' = 1 .. m
      /\ \A k \in 1 .. n : scripts'[k] = scripts[k]
      /\ scripts'[m].box = b /\ scripts'[m].global = g
      /\ \A k \in 1 .. m : k = m \/ k \in 1 .. n
      /\ m \in 1 .. m /\ \A k \in 1 .. n : k \in 1 .. m /\ k # m
  <2> DEFINE x == [box |-> b, global |-> g]
  <2>1. x \in ScriptFrame /\ x.box = b /\ x.global = g
    BY DEF ScriptFrame
  <2>2. scripts' = Append(scripts, x)
    BY <1>3
  <2> HIDE DEF x
  <2>3. scripts \in Seq(ScriptFrame)
    BY DEF ScriptInv
  <2>4. /\ scripts' \in Seq(ScriptFrame) /\ Len(scripts') = m /\ n \in Nat
        /\ \A k \in 1 .. n : scripts'[k] = scripts[k]
        /\ scripts'[m] = x /\ \A k \in 1 .. m : k = m \/ k \in 1 .. n
    BY <1>0, <2>1, <2>2, <2>3
  <2>5. m \in 1 .. m /\ \A k \in 1 .. n : k \in 1 .. m /\ k # m
    BY <1>0, <2>4
  <2> QED BY <2>1, <2>4, <2>5 DEF V!Frames
<1>5. /\ global' \in [Contexts -> V!PropsOf]
      /\ \A c \in Contexts : c # b => global'[c] = global[c]
      /\ b \in Contexts => global'[b] = h
  BY <1>2, <1>3 DEF ScriptInv, V!ScriptTypeOK
<1>6. /\ spoilt' \in [V!Boxes -> SUBSET Props]
      /\ \A c \in V!Boxes : c # b => spoilt'[c] = spoilt[c]
      /\ \A p \in Props : p \notin spoilt'[b] => p \notin spoilt[b] /\ written[b][p] = sandbox[b][p]
  BY <1>1 DEF ScriptInv, V!ScriptTypeOK
<1>7. V!ScriptTypeOK'
  BY <1>1, <1>4, <1>5, <1>6 DEF ScriptInv, V!ScriptTypeOK, V!Boxes, V!PropsOf
<1>8. ASSUME NEW c \in V!Boxes, NEW p \in Props, p \notin spoilt'[c] PROVE Sound(c, p)'
  <2>1. p \notin spoilt[c] /\ Sound(c, p)
    BY <1>6, <1>8 DEF ScriptInv
  <2>2. CASE c # b
    <3>1. \A k \in V!Frames' : scripts'[k].box = c =>
            k \in V!Frames /\ scripts[k].box = c /\ V!InnerGlobal(k)' = V!InnerGlobal(k)
      BY <1>4, <1>5, <2>2 DEF V!InnerGlobal
    <3>2. V!Running(c) => V!Running(c)'
      BY <1>4 DEF V!Running
    <3>3. c \in Contexts => global'[c] = global[c]
      BY <1>5, <2>2
    <3> QED BY <1>1, <2>1, <3>1, <3>2, <3>3 DEF Sound
  <2>3. CASE c = b
    <3>1. written[b][p] = sandbox[b][p]
      BY <1>6, <1>8, <2>3
    <3>2. b \in Contexts /\ written[b][p] = Absent => global[b][p] = Absent
      <4>1. ASSUME b \in Contexts, NEW k \in V!Frames, scripts[k].box = b
            PROVE  global[b][p] = written[b][p]
        BY <2>1, <2>3, <4>1 DEF Sound, V!InnerGlobal
      <4>2. ~V!Running(b) \/ \E k \in V!Frames : scripts[k].box = b
        BY DEF V!Running
      <4> QED BY <2>1, <2>3, <4>1, <4>2 DEF Sound
    <3>3. ASSUME NEW k \in V!Frames', scripts'[k].box = b
          PROVE  V!InnerGlobal(k)'[p] = written[b][p]
      <4>1. CASE b \in Contexts
        <5>1. V!InnerGlobal(k)' = h
          BY <1>5, <3>3, <4>1 DEF V!InnerGlobal
        <5>2. h[p] = IF sandbox[b][p] = Absent THEN global[b][p] ELSE sandbox[b][p]
          BY <1>3, <4>1
        <5> QED BY <3>1, <3>2, <4>1, <5>1, <5>2
      <4>2. CASE b \notin Contexts
        <5>1. V!InnerGlobal(k)' = scripts'[k].global
          BY <3>3, <4>2 DEF V!InnerGlobal
        <5>2. CASE k = m
          BY <1>3, <1>4, <3>1, <4>2, <5>1, <5>2
        <5>3. CASE k # m
          <6>1. k \in V!Frames /\ scripts'[k] = scripts[k] /\ scripts[k].box = b
            BY <1>4, <3>3, <5>3
          <6>2. V!InnerGlobal(k) = scripts[k].global
            BY <4>2, <6>1 DEF V!InnerGlobal
          <6> QED BY <2>1, <2>3, <5>1, <6>1, <6>2 DEF Sound
        <5> QED BY <5>2, <5>3
      <4> QED BY <4>1, <4>2
    <3>4. V!Running(b)'
      BY <1>4 DEF V!Running
    <3> QED BY <1>1, <2>3, <3>1, <3>3, <3>4 DEF Sound
  <2> QED BY <2>2, <2>3
<1> QED BY <1>4, <1>7, <1>8 DEF ScriptInv

\* A script that ends or throws.
LEMMA ScriptLeaves ==
  ASSUME ScriptInv, V!Returns \/ V!Throws
  PROVE  ScriptInv'
<1> DEFINE n == Len(scripts)
           b == scripts[n].box
           g == V!InnerGlobal(n)
<1>1. /\ scripts # <<>> /\ scripts' = SubSeq(scripts, 1, n - 1)
      /\ global' = global /\ nwrites' = nwrites
  BY DEF V!Returns, V!Throws
<1>2. /\ n \in Nat /\ n # 0 /\ V!Frames = 1 .. n /\ V!Frames' = 1 .. (n - 1)
      /\ n \in V!Frames /\ \A k \in 1 .. n : k = n \/ k \in 1 .. n - 1
      /\ \A k \in 1 .. n - 1 : scripts'[k] = scripts[k] /\ k \in 1 .. n /\ k # n
      /\ scripts' \in Seq(ScriptFrame)
      /\ b \in V!Boxes
  <2>1. scripts \in Seq(ScriptFrame)
    BY DEF ScriptInv
  <2>2. n \in Nat /\ n # 0
    BY <1>1, <2>1
  <2>3. n \in V!Frames /\ V!Frames = 1 .. n
    BY <2>2 DEF V!Frames
  <2>4. /\ scripts' \in Seq(ScriptFrame) /\ Len(scripts') = n - 1
        /\ \A k \in 1 .. n - 1 : scripts'[k] = scripts[k]
    BY <1>1, <2>1, WithoutLast
  <2>5. V!Frames' = 1 .. (n - 1)
    BY <2>4 DEF V!Frames
  <2>6. \A k \in 1 .. n : k = n \/ k \in 1 .. n - 1
    BY <2>2
  <2>7. \A k \in 1 .. n - 1 : k \in 1 .. n /\ k # n
    BY <2>2
  <2> QED BY <2>2, <2>3, <2>4, <2>5, <2>6, <2>7 DEF ScriptInv, V!ScriptTypeOK
<1>3. /\ g \in V!PropsOf /\ sandbox[b] \in V!PropsOf
      /\ b \in Contexts => g = global[b]
  BY <1>2 DEF ScriptInv, V!InnerGlobal, V!ScriptTypeOK
<1>4. /\ sandbox' \in [V!Boxes -> V!PropsOf] /\ written' \in [V!Boxes -> V!PropsOf]
      /\ spoilt' \in [V!Boxes -> SUBSET Props]
      /\ \A c \in V!Boxes : c # b =>
           sandbox'[c] = sandbox[c] /\ written'[c] = written[c] /\ spoilt'[c] = spoilt[c]
      /\ spoilt[b] \subseteq spoilt'[b]
  <2>1. CASE V!Returns
    <3>1. PICK h : h = V!CloneObject(g, sandbox[b])
      OBVIOUS
    <3>2. sandbox' = [sandbox EXCEPT ![b] = h] /\ written' = written /\ spoilt' = spoilt
      BY <2>1, <3>1 DEF V!Returns, V!Inner
    <3>3. h \in V!PropsOf
      BY <1>3, <3>1, CloneAt
    <3> QED BY <1>2, <3>2, <3>3 DEF ScriptInv, V!ScriptTypeOK
  <2>2. CASE V!Throws
    <3>1. PICK P \in SUBSET Props :
            /\ sandbox' = sandbox /\ written' = [written EXCEPT ![b] = sandbox[b]]
            /\ spoilt' = [spoilt EXCEPT ![b] = @ \cup P]
      BY <2>2 DEF V!Throws, V!Inner, V!Spoils
    <3> QED BY <1>2, <1>3, <3>1 DEF ScriptInv, V!ScriptTypeOK
  <2> QED BY <2>1, <2>2
<1>5. V!ScriptTypeOK'
  BY <1>1, <1>2, <1>4 DEF ScriptInv, V!ScriptTypeOK, V!Boxes, V!PropsOf
<1>6. \A k \in V!Frames' : V!InnerGlobal(k)' = V!InnerGlobal(k)
  BY <1>1, <1>2 DEF V!InnerGlobal
<1>7. ASSUME NEW c \in V!Boxes, NEW p \in Props, p \notin spoilt'[c] PROVE Sound(c, p)'
  <2>1. p \notin spoilt[c] /\ Sound(c, p)
    BY <1>4, <1>7 DEF ScriptInv
  <2>2. CASE c # b
    <3>1. \A k \in V!Frames' : scripts'[k].box = c => k \in V!Frames /\ scripts[k].box = c
      BY <1>2
    <3>2. V!Running(c) => V!Running(c)'
      BY <1>2, <2>2 DEF V!Running
    <3>3. sandbox'[c] = sandbox[c] /\ written'[c] = written[c]
      BY <1>4, <2>2
    <3> QED BY <1>1, <1>6, <2>1, <3>1, <3>2, <3>3 DEF Sound
  <2>3. CASE c = b
    <3>1. /\ g[p] = written[b][p] /\ (g[p] = Absent => sandbox[b][p] = Absent)
          /\ \A k \in V!Frames' : scripts'[k].box = b =>
               /\ V!InnerGlobal(k)[p] = written[b][p]
               /\ sandbox[b][p] = written[b][p]
      BY <1>2, <2>1, <2>3 DEF Sound
    <3>2. CASE V!Returns
      <4>1. sandbox' = [sandbox EXCEPT ![b] = V!CloneObject(g, sandbox[b])] /\ written' = written
        BY <3>2 DEF V!Returns, V!Inner
      <4>2. sandbox'[b] = V!CloneObject(g, sandbox[b])
        BY <1>2, <4>1 DEF ScriptInv, V!ScriptTypeOK
      <4>3. V!CloneObject(g, sandbox[b])[p] = IF g[p] = Absent THEN sandbox[b][p] ELSE g[p]
        BY <1>3, CloneAt
      <4>4. sandbox'[b][p] = written'[b][p] /\ written'[b][p] = g[p]
        BY <3>1, <4>1, <4>2, <4>3
      <4> QED BY <1>1, <1>3, <1>6, <2>3, <3>1, <4>1, <4>4 DEF Sound
    <3>3. CASE V!Throws
      <4>1. /\ sandbox' = sandbox /\ written' = [written EXCEPT ![b] = sandbox[b]]
            /\ spoilt' = [spoilt EXCEPT ![b] =
                 @ \cup {q \in Props : /\ b \in Contexts
                                       /\ sandbox[b][q] = Absent /\ written[b][q] # Absent}]
        BY <3>3 DEF V!Throws, V!Inner, V!Spoils
      <4>2. /\ written'[b] = sandbox[b]
            /\ ~(b \in Contexts /\ sandbox[b][p] = Absent /\ written[b][p] # Absent)
        BY <1>2, <1>7, <2>3, <4>1 DEF ScriptInv, V!ScriptTypeOK
      <4> QED BY <1>1, <1>3, <1>6, <2>3, <3>1, <4>1, <4>2 DEF Sound
    <3> QED BY <3>2, <3>3
  <2> QED BY <2>2, <2>3
<1> QED BY <1>2, <1>5, <1>7 DEF ScriptInv

\* A script writes or deletes a property.
LEMMA ScriptWriteKeeps ==
  ASSUME ScriptInv, MaxWrites \in Nat, NEW p \in Props, NEW v \in Values \cup {Absent},
         V!ScriptWrites(p, v)
  PROVE  ScriptInv'
<1>1. PICK n : n = Len(scripts)
  OBVIOUS
<1>2. PICK b : b = scripts[n].box
  OBVIOUS
<1> DEFINE g == V!InnerGlobal(n)
           f == [g EXCEPT ![p] = v]
           w0 == [written[b] EXCEPT ![p] = v]
<1>3. /\ scripts # <<>> /\ sandbox' = sandbox
      /\ nwrites < MaxWrites /\ nwrites' = nwrites + 1
      /\ written' = [written EXCEPT ![b][p] = v]
      /\ IF b \in Contexts THEN global' = [global EXCEPT ![b] = f] /\ scripts' = scripts
         ELSE scripts' = [scripts EXCEPT ![n].global = f] /\ global' = global
  BY <1>1, <1>2 DEF V!ScriptWrites, V!Noted, V!GlobalBecomes, V!Inner
<1>4. /\ n \in V!Frames /\ V!Frames = 1 .. n /\ n \in Nat /\ b \in V!Boxes
      /\ scripts[n] \in ScriptFrame
  <2>1. scripts \in Seq(ScriptFrame)
    BY DEF ScriptInv
  <2>2. n \in 1 .. Len(scripts) /\ n \in Nat
    BY <1>1, <1>3, <2>1
  <2>3. scripts[n] \in ScriptFrame
    BY <1>1, <2>1, <2>2
  <2> QED BY <1>1, <1>2, <2>2, <2>3 DEF V!Frames, ScriptFrame
<1>5. g \in V!PropsOf /\ sandbox[b] \in V!PropsOf /\ written[b] \in V!PropsOf
  BY <1>2, <1>4 DEF ScriptInv, V!InnerGlobal, V!ScriptTypeOK
<1>6. /\ f \in V!PropsOf /\ f[p] = v /\ \A q \in Props : q # p => f[q] = g[q]
      /\ w0 \in V!PropsOf /\ w0[p] = v /\ \A q \in Props : q # p => w0[q] = written[b][q]
  BY <1>5 DEF V!PropsOf
<1>7. /\ written' \in [V!Boxes -> V!PropsOf] /\ written'[b] = w0
      /\ \A c \in V!Boxes : c # b => written'[c] = written[c]
  <2>1. written \in [V!Boxes -> V!PropsOf]
    BY DEF ScriptInv, V!ScriptTypeOK
  <2>2. written' = [written EXCEPT ![b] = w0]
    BY <1>3, <1>4, <1>5, <2>1
  <2> HIDE DEF w0
  <2> QED BY <1>4, <1>6, <2>1, <2>2
<1>8. /\ scripts' \in Seq(ScriptFrame) /\ V!Frames' = V!Frames
      /\ \A k \in V!Frames : scripts'[k].box = scripts[k].box
      /\ \A k \in V!Frames : k # n => scripts'[k] = scripts[k]
      /\ b \notin Contexts => scripts'[n].global = f
  <2>1. CASE b \in Contexts
    BY <1>3, <2>1 DEF ScriptInv, V!Frames
  <2>2. CASE b \notin Contexts
    <3>1. scripts' = [scripts EXCEPT ![n] = [@ EXCEPT !.global = f]]
      BY <1>3, <2>2
    <3> DEFINE w == [scripts[n] EXCEPT !.global = f]
    <3>2. w \in ScriptFrame /\ w.box = scripts[n].box /\ w.global = f
      <4> HIDE DEF f
      <4> QED BY <1>4, <1>6 DEF ScriptFrame
    <3>3. scripts' = [scripts EXCEPT ![n] = w]
      BY <3>1
    <3> HIDE DEF w
    <3>4. scripts \in Seq(ScriptFrame) /\ n \in 1 .. Len(scripts)
      BY <1>4 DEF ScriptInv, V!Frames
    <3>5. /\ scripts' \in Seq(ScriptFrame) /\ Len(scripts') = Len(scripts)
          /\ scripts'[n] = w /\ \A k \in 1 .. Len(scripts) : k # n => scripts'[k] = scripts[k]
      BY <3>2, <3>3, <3>4
    <3> QED BY <3>2, <3>5 DEF V!Frames
  <2> QED BY <2>1, <2>2
<1>9. /\ global' \in [Contexts -> V!PropsOf]
      /\ \A c \in Contexts : c # b => global'[c] = global[c]
      /\ b \in Contexts => global'[b] = f
  BY <1>3, <1>6 DEF ScriptInv, V!ScriptTypeOK
<1>10. PICK safe \in BOOLEAN :
         /\ spoilt' = [spoilt EXCEPT ![b] = IF safe THEN @ \ {p} ELSE @ \cup {p}]
         /\ safe => v # Absent /\ \A k \in V!Frames : scripts[k].box = b => k = n
  <2> DEFINE x == v # Absent /\ \A k \in V!Frames : scripts[k].box = b => k = n
  <2>1. spoilt' = [spoilt EXCEPT ![b] = IF x THEN @ \ {p} ELSE @ \cup {p}]
    BY <1>1, <1>2 DEF V!ScriptWrites, V!Noted, V!Inner
  <2>2. x \in BOOLEAN
    OBVIOUS
  <2> QED BY <2>1, <2>2
<1>11. /\ spoilt' \in [V!Boxes -> SUBSET Props]
       /\ \A c \in V!Boxes : c # b => spoilt'[c] = spoilt[c]
       /\ \A q \in Props : q # p /\ q \notin spoilt'[b] => q \notin spoilt[b]
       /\ p \notin spoilt'[b] => safe
  BY <1>4, <1>10 DEF ScriptInv, V!ScriptTypeOK
<1>12. V!ScriptTypeOK'
  <2>1. \A k \in V!Frames' : scripts'[k].box \in V!Boxes /\ scripts'[k].global \in V!PropsOf
    <3>1. \A k \in V!Frames' : scripts'[k] \in ScriptFrame
      BY <1>8 DEF V!Frames
    <3> QED BY <3>1 DEF ScriptFrame, V!Boxes, V!PropsOf
  <2>2. nwrites' \in 0 .. MaxWrites
    BY <1>3 DEF ScriptInv, V!ScriptTypeOK
  <2> QED BY <1>3, <1>7, <1>9, <1>11, <2>1, <2>2
          DEF ScriptInv, V!ScriptTypeOK, V!Boxes, V!PropsOf
<1>13. ASSUME NEW k \in V!Frames, NEW q \in Props, k # n \/ q # p,
              scripts[k].box \in Contexts => scripts[k].box # b \/ q # p
       PROVE  V!InnerGlobal(k)'[q] = V!InnerGlobal(k)[q]
  <2>1. scripts'[k].box = scripts[k].box /\ (k # n => scripts'[k] = scripts[k])
    BY <1>8
  <2>2. CASE scripts[k].box \in Contexts
    <3>1. V!InnerGlobal(k)' = global'[scripts[k].box] /\ V!InnerGlobal(k) = global[scripts[k].box]
      BY <2>1, <2>2 DEF V!InnerGlobal
    <3>2. CASE scripts[k].box = b
      <4>1. g = global[b]
        BY <1>2, <2>2, <3>2 DEF V!InnerGlobal
      <4>2. q # p /\ b \in Contexts
        BY <1>13, <2>2, <3>2
      <4>3. f[q] = g[q]
        BY <1>6, <4>2
      <4>4. V!InnerGlobal(k)' = f
        BY <1>9, <3>1, <3>2, <4>2
      <4>5. V!InnerGlobal(k) = g
        BY <3>1, <3>2, <4>1
      <4> HIDE DEF f, g
      <4> QED BY <4>3, <4>4, <4>5
    <3>3. CASE scripts[k].box # b
      BY <1>9, <2>2, <3>1, <3>3
    <3> QED BY <3>2, <3>3
  <2>3. CASE scripts[k].box \notin Contexts
    <3>1. V!InnerGlobal(k)' = scripts'[k].global /\ V!InnerGlobal(k) = scripts[k].global
      BY <2>1, <2>3 DEF V!InnerGlobal
    <3>2. CASE k = n
      <4>1. g = scripts[n].global /\ scripts'[n].global = f
        BY <1>2, <1>8, <2>3, <3>2 DEF V!InnerGlobal
      <4> QED BY <1>6, <1>13, <3>1, <3>2, <4>1
    <3>3. CASE k # n
      BY <2>1, <3>1, <3>3
    <3> QED BY <3>2, <3>3
  <2> QED BY <2>2, <2>3
<1>14. V!Running(b)' /\ \A c : V!Running(c)' <=> V!Running(c)
  BY <1>2, <1>4, <1>8 DEF V!Running
<1>15. ASSUME NEW c \in V!Boxes, NEW q \in Props, q \notin spoilt'[c] PROVE Sound(c, q)'
  <2>1. CASE c # b
    <3>1. Sound(c, q)
      BY <1>11, <1>15, <2>1 DEF ScriptInv
    <3>2. \A k \in V!Frames : scripts[k].box = c => V!InnerGlobal(k)'[q] = V!InnerGlobal(k)[q]
      BY <1>2, <1>13, <2>1
    <3>3. written'[c] = written[c] /\ (c \in Contexts => global'[c] = global[c])
      BY <1>7, <1>9, <2>1
    <3> QED BY <1>3, <1>8, <1>14, <3>1, <3>2, <3>3 DEF Sound
  <2>2. CASE c = b /\ q # p
    <3>1. Sound(b, q)
      BY <1>4, <1>11, <1>15, <2>2 DEF ScriptInv
    <3>2. \A k \in V!Frames : V!InnerGlobal(k)'[q] = V!InnerGlobal(k)[q]
      BY <1>13, <2>2
    <3>3. written'[b][q] = written[b][q]
      BY <1>6, <1>7, <2>2
    <3> QED BY <1>3, <1>8, <1>14, <2>2, <3>1, <3>2, <3>3 DEF Sound
  <2>3. CASE c = b /\ q = p
    <3>1. v # Absent /\ \A k \in V!Frames : scripts[k].box = b => k = n
      BY <1>10, <1>11, <1>15, <2>3
    <3>2. V!InnerGlobal(n)' = f
      BY <1>2, <1>4, <1>8, <1>9 DEF V!InnerGlobal
    <3>3. V!InnerGlobal(n)'[p] = v /\ written'[b][p] = v
      BY <1>6, <1>7, <3>2
    <3> QED BY <1>8, <1>14, <2>3, <3>1, <3>3 DEF Sound
  <2> QED BY <2>1, <2>2, <2>3
<1> QED BY <1>8, <1>12, <1>15 DEF ScriptInv

\* The program writes or deletes a property.
LEMMA ProgramWriteKeeps ==
  ASSUME ScriptInv, MaxWrites \in Nat, NEW b \in V!Boxes, NEW p \in Props,
         NEW v \in Values \cup {Absent}, V!ProgramWrites(b, p, v)
  PROVE  ScriptInv'
<1> DEFINE f == [sandbox[b] EXCEPT ![p] = v]
           w == [written[b] EXCEPT ![p] = v]
<1>1. /\ global' = global /\ scripts' = scripts
      /\ nwrites < MaxWrites /\ nwrites' = nwrites + 1
      /\ written' = [written EXCEPT ![b][p] = v]
      /\ sandbox' = [sandbox EXCEPT ![b][p] = v]
  BY DEF V!ProgramWrites, V!Noted
<1>2. V!Frames' = V!Frames /\ \A k : V!InnerGlobal(k)' = V!InnerGlobal(k)
  BY <1>1 DEF V!Frames, V!InnerGlobal
<1>3. \A c : V!Running(c)' <=> V!Running(c)
  BY <1>1, <1>2 DEF V!Running
<1>4. /\ sandbox \in [V!Boxes -> V!PropsOf] /\ written \in [V!Boxes -> V!PropsOf]
      /\ global \in [Contexts -> V!PropsOf]
      /\ sandbox[b] \in V!PropsOf /\ written[b] \in V!PropsOf
  BY DEF ScriptInv, V!ScriptTypeOK
<1>5. /\ f \in V!PropsOf /\ f[p] = v /\ \A q \in Props : q # p => f[q] = sandbox[b][q]
      /\ w \in V!PropsOf /\ w[p] = v /\ \A q \in Props : q # p => w[q] = written[b][q]
  BY <1>4 DEF V!PropsOf
<1>6. written' = [written EXCEPT ![b] = w] /\ sandbox' = [sandbox EXCEPT ![b] = f]
  BY <1>1, <1>4
<1> HIDE DEF f, w
<1>7. /\ written' \in [V!Boxes -> V!PropsOf] /\ sandbox' \in [V!Boxes -> V!PropsOf]
      /\ written'[b] = w /\ sandbox'[b] = f
      /\ \A c \in V!Boxes : c # b => written'[c] = written[c] /\ sandbox'[c] = sandbox[c]
  BY <1>4, <1>5, <1>6
<1>8. PICK safe \in BOOLEAN :
        /\ spoilt' = [spoilt EXCEPT ![b] = IF safe THEN @ \ {p} ELSE @ \cup {p}]
        /\ safe => ~V!Running(b) /\ (b \in Contexts => v # Absent)
  <2> DEFINE x == ~V!Running(b) /\ (b \in Contexts => v # Absent)
  <2>1. spoilt' = [spoilt EXCEPT ![b] = IF x THEN @ \ {p} ELSE @ \cup {p}]
    BY DEF V!ProgramWrites, V!Noted
  <2>2. x \in BOOLEAN
    OBVIOUS
  <2> QED BY <2>1, <2>2
<1>9. /\ spoilt' \in [V!Boxes -> SUBSET Props]
      /\ \A c \in V!Boxes : c # b => spoilt'[c] = spoilt[c]
      /\ \A q \in Props : q # p /\ q \notin spoilt'[b] => q \notin spoilt[b]
      /\ p \notin spoilt'[b] => safe
  BY <1>8 DEF ScriptInv, V!ScriptTypeOK
<1>10. V!ScriptTypeOK'
  <2>1. nwrites' \in 0 .. MaxWrites
    BY <1>1 DEF ScriptInv, V!ScriptTypeOK
  <2> QED BY <1>1, <1>2, <1>7, <1>9, <2>1 DEF ScriptInv, V!ScriptTypeOK, V!Boxes, V!PropsOf
<1>11. ASSUME NEW c \in V!Boxes, NEW q \in Props, q \notin spoilt'[c] PROVE Sound(c, q)'
  <2>1. CASE c # b
    <3>1. Sound(c, q) /\ sandbox'[c] = sandbox[c] /\ written'[c] = written[c]
      BY <1>7, <1>9, <1>11, <2>1 DEF ScriptInv
    <3> QED BY <1>1, <1>2, <1>3, <3>1 DEF Sound
  <2>2. CASE c = b /\ q # p
    <3>1. Sound(b, q) /\ sandbox'[b][q] = sandbox[b][q] /\ written'[b][q] = written[b][q]
      BY <1>5, <1>7, <1>9, <1>11, <2>2 DEF ScriptInv
    <3> QED BY <1>1, <1>2, <1>3, <2>2, <3>1 DEF Sound
  <2>3. CASE c = b /\ q = p
    <3>1. ~V!Running(b) /\ (b \in Contexts => v # Absent)
      BY <1>8, <1>9, <1>11, <2>3
    <3>2. sandbox'[b][p] = v /\ written'[b][p] = v
      BY <1>5, <1>7
    <3>3. \A k \in V!Frames : scripts[k].box # b
      BY <3>1 DEF V!Running
    <3> QED BY <1>1, <1>2, <1>3, <2>3, <3>1, <3>2, <3>3 DEF Sound
  <2> QED BY <2>1, <2>2, <2>3
<1>12. (scripts \in Seq(ScriptFrame))'
  BY <1>1 DEF ScriptInv
<1> QED BY <1>10, <1>11, <1>12 DEF ScriptInv

\* Every step of the scripts keeps it.
LEMMA ScriptStep ==
  ASSUME ScriptObjects, MaxWrites \in Nat, ScriptInv, [V!ScriptNext]_vVars
  PROVE  ScriptInv'
<1>1. CASE \E b \in V!Boxes : V!RunInNewContext(b) \/ V!RunInContext(b)
  BY <1>1, ScriptEnters
<1>2. CASE \E p \in Props, v \in Values \cup {Absent} : V!ScriptWrites(p, v)
  BY <1>2, ScriptWriteKeeps
<1>3. CASE \E b \in V!Boxes, p \in Props, v \in Values \cup {Absent} : V!ProgramWrites(b, p, v)
  BY <1>3, ProgramWriteKeeps
<1>4. CASE UNCHANGED vVars
  BY <1>4 DEF vVars, ScriptInv, Sound, V!ScriptTypeOK, V!InnerGlobal, V!Running,
     V!Frames, V!Boxes, V!PropsOf
<1> QED BY <1>1, <1>2, <1>3, <1>4, ScriptLeaves DEF V!ScriptNext

\* What it says of what is read.
LEMMA ScriptFacts ==
  ASSUME ScriptInv
  PROVE  V!ScriptTypeOK /\ V!ReadsLastWritten
<1>1. scripts # <<>> => Len(scripts) \in V!Frames
  BY DEF ScriptInv, V!Frames
<1>2. ASSUME scripts # <<>>, NEW p \in Props, p \notin spoilt[V!Inner.box]
      PROVE  V!InnerGlobal(Len(scripts))[p] = written[V!Inner.box][p]
  <2>1. V!Inner = scripts[Len(scripts)] /\ V!Inner.box \in V!Boxes
    BY <1>1, <1>2 DEF V!Inner, ScriptInv, V!ScriptTypeOK
  <2>2. Sound(V!Inner.box, p)
    BY <1>2, <2>1 DEF ScriptInv
  <2> QED BY <1>1, <1>2, <2>1, <2>2 DEF Sound
<1>3. ASSUME NEW b \in V!Boxes, ~V!Running(b), NEW p \in Props, p \notin spoilt[b]
      PROVE  sandbox[b][p] = written[b][p]
  BY <1>3 DEF ScriptInv, Sound
<1> QED BY <1>2, <1>3 DEF ScriptInv, V!ReadsLastWritten

\* A script reads what was last written to a property of its sandbox, and the program
\* reads it when no script runs on the sandbox (node_script.cc copies the properties before
\* and after), for any objects and properties, whatever scripts throw and however they
\* run others inside them, on other sandboxes or the same; but for the properties that a
\* delete, a write beside an older copy or a script that threw has left spoilt.
THEOREM ScriptsReadWhatIsWritten ==
  ASSUME ScriptObjects, MaxWrites \in Nat
  PROVE  Spec => []ReadsLastWritten
<1>1. Init => ScriptInv
  BY ScriptStart DEF Init
<1>2. ScriptInv /\ [Next]_vars => ScriptInv'
  BY ScriptStep DEF Next, vars, vVars
<1>3. ScriptInv => ReadsLastWritten
  BY ScriptFacts DEF ReadsLastWritten
<1> QED BY <1>1, <1>2, <1>3, PTL DEF Spec

-----------------------------------------------------------------------------
(* Watchers: the count of libev and the collector. *)

\* The objects are finitely many.
WatcherConstants == IsFiniteSet(Objects) /\ NoObject \notin Objects /\ MaxListeners \in Nat

WatcherRecord ==
  [kind : {"none", "io", "stat", "signal"}, alive : BOOLEAN, held : BOOLEAN, active : BOOLEAN,
   refs : 0 .. 1, weak : BOOLEAN, persistent : BOOLEAN, callback : BOOLEAN]

\* libev shall run on for such a watcher.
KeepsLoop(w) == w.active /\ (w.kind = "io" \/ (w.kind = "stat" /\ w.persistent))

\* A started watcher has its one reference and is safe from the collector; a stopped one
\* has none; an object not made yet is as at the start.
WatcherRight(w) ==
  /\ w.active => w.alive /\ w.refs = 1 /\ ~w.weak
  /\ ~w.active => w.refs = 0 /\ (w.alive => w.weak)
  /\ w.kind = "none" => ~w.active /\ ~w.alive

\* What the tables of fs.watchFile and of the signals refer to is an object the program
\* has, so that the collector does not take it; the signal with a listener is watched.
TablesRight ==
  /\ statWatchers # NoObject =>
       /\ statWatchers \in Objects /\ watcher[statWatchers].kind = "stat"
       /\ watcher[statWatchers].held /\ watcher[statWatchers].alive
  /\ signalWatchers # NoObject =>
       /\ signalWatchers \in Objects /\ watcher[signalWatchers].kind = "signal"
       /\ watcher[signalWatchers].held /\ watcher[signalWatchers].alive
  /\ listeners > 0 => signalWatchers # NoObject /\ watcher[signalWatchers].active

\* The invariant that carries the result about watchers.
WatcherInv ==
  /\ watcher \in [Objects -> WatcherRecord] /\ \A o \in Objects : WatcherRight(watcher[o])
  /\ loop = Cardinality({o \in Objects : KeepsLoop(watcher[o])})
  /\ listeners \in 0 .. MaxListeners /\ TablesRight

\* A set that differs from another at most in one element.
LEMMA OneDiffers ==
  ASSUME NEW D, IsFiniteSet(D), NEW X \in SUBSET D, NEW Y \in SUBSET D, NEW e \in D,
         X \ {e} = Y \ {e}
  PROVE  /\ Cardinality(X) \in Nat
         /\ Cardinality(Y) = Cardinality(X) + ((IF e \in Y THEN 1 ELSE 0) - (IF e \in X THEN 1 ELSE 0))
<1>1. IsFiniteSet(X) /\ IsFiniteSet(Y)
  BY FS_Subset
<1>2. Cardinality(X) \in Nat /\ Cardinality(Y) \in Nat
  BY <1>1, FS_CardinalityType
<1>3. CASE (e \in X) = (e \in Y)
  <2>1. X = Y
    BY <1>3
  <2> QED BY <1>2, <2>1, <1>3
<1>4. CASE e \in X /\ e \notin Y
  <2>1. Y = X \ {e}
    BY <1>4
  <2> QED BY <1>1, <1>2, <1>4, <2>1, FS_RemoveElement
<1>5. CASE e \notin X /\ e \in Y
  <2>1. X = Y \ {e}
    BY <1>5
  <2>2. Cardinality(X) = Cardinality(Y) - 1
    BY <1>1, <1>5, <2>1, FS_RemoveElement
  <2> QED BY <1>2, <1>5, <2>2
<1> QED BY <1>3, <1>4, <1>5

\* What a watcher counts for.
Tally(w) == IF KeepsLoop(w) THEN 1 ELSE 0

\* A step that changes one watcher and counts the change.
LEMMA OneWatcher ==
  ASSUME WatcherConstants, WatcherInv, NEW o \in Objects, NEW w \in WatcherRecord,
         WatcherRight(w), watcher' = [watcher EXCEPT ![o] = w],
         loop' = loop + (Tally(w) - Tally(watcher[o])),
         listeners' \in 0 .. MaxListeners, TablesRight'
  PROVE  WatcherInv'
<1> DEFINE X == {q \in Objects : KeepsLoop(watcher[q])}
           Y == {q \in Objects : KeepsLoop(watcher'[q])}
<1>1. /\ watcher' \in [Objects -> WatcherRecord] /\ watcher'[o] = w
      /\ \A q \in Objects \ {o} : watcher'[q] = watcher[q]
  BY DEF WatcherInv
<1>2. X \ {o} = Y \ {o}
  BY <1>1
<1>3. (o \in X <=> KeepsLoop(watcher[o])) /\ (o \in Y <=> KeepsLoop(w))
  BY <1>1
<1>4. X \in SUBSET Objects /\ Y \in SUBSET Objects /\ IsFiniteSet(Objects)
  BY DEF WatcherConstants
<1>5. loop = Cardinality(X)
  BY DEF WatcherInv
<1> HIDE DEF X, Y
<1>6. /\ Cardinality(X) \in Nat
      /\ Cardinality(Y) = Cardinality(X) + ((IF o \in Y THEN 1 ELSE 0) - (IF o \in X THEN 1 ELSE 0))
  BY <1>2, <1>4, OneDiffers
<1>7. loop' = Cardinality(Y)
  BY <1>3, <1>5, <1>6 DEF Tally
<1>8. \A q \in Objects : WatcherRight(watcher'[q])
  BY <1>1 DEF WatcherInv
<1> QED BY <1>1, <1>7, <1>8 DEF WatcherInv, Y

\* The count is a number.
LEMMA WatcherNumber ==
  ASSUME WatcherConstants, WatcherInv
  PROVE  loop \in Int
<1>1. {q \in Objects : KeepsLoop(watcher[q])} \in SUBSET Objects
  OBVIOUS
<1> QED BY <1>1, FS_Subset, FS_CardinalityType DEF WatcherInv, WatcherConstants

\* At the start.
LEMMA WatcherStart ==
  ASSUME WatcherConstants, W!WatcherInit
  PROVE  WatcherInv
<1>1. /\ watcher = [o \in Objects |-> W!Unmade] /\ loop = 0 /\ listeners = 0
      /\ statWatchers = NoObject /\ signalWatchers = NoObject
  BY DEF W!WatcherInit
<1>2. W!Unmade \in WatcherRecord /\ WatcherRight(W!Unmade) /\ ~KeepsLoop(W!Unmade)
  BY DEF W!Unmade, WatcherRecord, WatcherRight, KeepsLoop
<1>3. {o \in Objects : KeepsLoop(watcher[o])} = {}
  BY <1>1, <1>2
<1>4. loop = Cardinality({o \in Objects : KeepsLoop(watcher[o])})
  BY <1>1, <1>3, FS_EmptySet
<1>5. TablesRight
  BY <1>1 DEF TablesRight
<1>6. listeners \in 0 .. MaxListeners
  BY <1>1 DEF WatcherConstants
<1> QED BY <1>1, <1>2, <1>4, <1>5, <1>6 DEF WatcherInv

\* A watcher with its reference counted anew.
LEMMA Counted ==
  ASSUME NEW u \in WatcherRecord, NEW n \in 0 .. 1, NEW b \in BOOLEAN
  PROVE  [u EXCEPT !.refs = n, !.weak = b] \in WatcherRecord
  BY DEF WatcherRecord

\* It refers to itself, as started.
LEMMA Referred ==
  ASSUME NEW u \in WatcherRecord, u.refs = 0, NEW b \in BOOLEAN, ~b
  PROVE  W!Ref(u) = [u EXCEPT !.refs = 1, !.weak = b]
<1>1. b = FALSE
  OBVIOUS
<1>2. u.refs + 1 = 1
  OBVIOUS
<1> QED BY <1>1, <1>2 DEF W!Ref

\* And no longer, as stopped.
LEMMA Unreferred ==
  ASSUME NEW u \in WatcherRecord, u.refs = 1, NEW b \in BOOLEAN, b
  PROVE  W!Unref(u) = [u EXCEPT !.refs = 0, !.weak = b]
<1>1. (u.refs = 1) = b
  OBVIOUS
<1>2. u.refs - 1 = 0
  OBVIOUS
<1> QED BY <1>1, <1>2 DEF W!Unref

\* A new object.
LEMMA WrapMade ==
  ASSUME NEW kind \in {"io", "stat", "signal"}
  PROVE  /\ W!Wrap(kind) \in WatcherRecord /\ WatcherRight(W!Wrap(kind))
         /\ W!Wrap(kind).kind = kind /\ ~W!Wrap(kind).active /\ W!Wrap(kind).alive
         /\ W!Wrap(kind).held /\ ~W!Wrap(kind).persistent
<1>1. PICK a \in BOOLEAN : a = TRUE
  OBVIOUS
<1>2. PICK u : u = W!Unmade
  OBVIOUS
<1>3. u \in WatcherRecord /\ ~u.active /\ u.refs = 0 /\ ~u.persistent
  BY <1>2 DEF W!Unmade, WatcherRecord
<1>4. PICK r : r = [u EXCEPT !.kind = kind, !.alive = a, !.held = a, !.weak = a]
  OBVIOUS
<1>5. W!Wrap(kind) = r
  BY <1>1, <1>2, <1>4 DEF W!Wrap
<1>6. /\ r \in WatcherRecord /\ r.kind = kind /\ r.alive = a /\ r.held = a /\ r.weak = a
      /\ r.active = u.active /\ r.refs = u.refs /\ r.persistent = u.persistent
  <2>1. u \in WatcherRecord
    BY <1>3
  <2> QED BY <2>1, <1>4 DEF WatcherRecord
<1>7. r.alive /\ r.held /\ r.weak /\ ~r.active /\ r.refs = 0 /\ ~r.persistent
  BY <1>1, <1>3, <1>6
<1>8. WatcherRight(r)
  BY <1>6, <1>7 DEF WatcherRight
<1> QED BY <1>5, <1>6, <1>7, <1>8

\* A watcher that is started: its object is referred to.
LEMMA StartedWatcher ==
  ASSUME NEW w \in WatcherRecord, WatcherRight(w), ~w.active, w.alive, w.kind # "none"
  PROVE  LET v == W!Ref([w EXCEPT !.active = TRUE])
         IN /\ v \in WatcherRecord /\ WatcherRight(v) /\ v.active /\ v.alive
            /\ v.kind = w.kind /\ v.held = w.held /\ v.persistent = w.persistent
<1>1. PICK a \in BOOLEAN, b \in BOOLEAN : a = TRUE /\ b = FALSE
  OBVIOUS
<1>2. PICK u : u = [w EXCEPT !.active = a]
  OBVIOUS
<1>3. /\ u \in WatcherRecord /\ (u.active <=> a) /\ u.refs = w.refs /\ u.kind = w.kind
      /\ u.alive = w.alive /\ u.held = w.held /\ u.persistent = w.persistent
  BY <1>2 DEF WatcherRecord
<1>4. u.refs = 0
  BY <1>3 DEF WatcherRight
<1>5. PICK v : v = [u EXCEPT !.refs = 1, !.weak = b]
  OBVIOUS
<1>6. W!Ref(u) = v
  BY <1>1, <1>3, <1>4, <1>5, Referred
<1>7. W!Ref([w EXCEPT !.active = TRUE]) = v
  BY <1>1, <1>2, <1>6
<1>8. /\ v \in WatcherRecord /\ v.refs = 1 /\ v.weak = b /\ v.kind = u.kind
      /\ v.alive = u.alive /\ v.held = u.held /\ v.active = u.active
      /\ v.persistent = u.persistent
  <2>1. u \in WatcherRecord
    BY <1>3
  <2>2. v \in WatcherRecord
    <3>1. [u EXCEPT !.refs = 1, !.weak = b] \in WatcherRecord
      <4>1. 1 \in 0 .. 1
        OBVIOUS
      <4> QED BY <2>1, <4>1, Counted, Zenon
    <3> QED BY <1>5, <3>1
  <2>3. v.kind = u.kind /\ v.alive = u.alive /\ v.held = u.held
    BY <1>5, <2>1 DEF WatcherRecord
  <2>4. v.active = u.active /\ v.persistent = u.persistent
    BY <1>5, <2>1 DEF WatcherRecord
  <2> QED BY <1>5, <2>1, <2>2, <2>3, <2>4 DEF WatcherRecord
<1>9. ~v.weak /\ v.active /\ v.alive
  BY <1>1, <1>3, <1>8
<1>10. WatcherRight(v)
  BY <1>3, <1>8, <1>9 DEF WatcherRight
<1> QED BY <1>3, <1>7, <1>8, <1>9, <1>10

\* And one that is stopped: it is the collector's.
LEMMA StoppedWatcher ==
  ASSUME NEW w \in WatcherRecord, WatcherRight(w), w.active
  PROVE  LET v == W!Unref([w EXCEPT !.active = FALSE])
         IN /\ v \in WatcherRecord /\ WatcherRight(v) /\ ~v.active /\ v.alive
            /\ v.kind = w.kind /\ v.held = w.held
<1>1. PICK a \in BOOLEAN, b \in BOOLEAN : a = TRUE /\ b = FALSE
  OBVIOUS
<1>2. PICK u : u = [w EXCEPT !.active = b]
  OBVIOUS
<1>3. /\ u \in WatcherRecord /\ (u.active <=> b) /\ u.refs = w.refs /\ u.kind = w.kind
      /\ u.alive = w.alive /\ u.held = w.held
  BY <1>2 DEF WatcherRecord
<1>4. u.refs = 1 /\ u.alive /\ u.kind # "none"
  BY <1>3 DEF WatcherRight
<1>5. PICK v : v = [u EXCEPT !.refs = 0, !.weak = a]
  OBVIOUS
<1>6. W!Unref(u) = v
  BY <1>1, <1>3, <1>4, <1>5, Unreferred
<1>7. W!Unref([w EXCEPT !.active = FALSE]) = v
  BY <1>1, <1>2, <1>6
<1>8. /\ v \in WatcherRecord /\ v.refs = 0 /\ v.weak = a /\ v.kind = u.kind
      /\ v.alive = u.alive /\ v.held = u.held /\ v.active = u.active
  <2>1. u \in WatcherRecord
    BY <1>3
  <2>2. v \in WatcherRecord
    <3>1. [u EXCEPT !.refs = 0, !.weak = a] \in WatcherRecord
      <4>1. 0 \in 0 .. 1
        OBVIOUS
      <4> QED BY <2>1, <4>1, Counted, Zenon
    <3> QED BY <1>5, <3>1
  <2>3. v.kind = u.kind /\ v.alive = u.alive /\ v.held = u.held
    BY <1>5, <2>1 DEF WatcherRecord
  <2>4. v.active = u.active /\ v.persistent = u.persistent
    BY <1>5, <2>1 DEF WatcherRecord
  <2> QED BY <1>5, <2>1, <2>2, <2>3, <2>4 DEF WatcherRecord
<1>9. v.weak /\ ~v.active /\ v.alive
  BY <1>1, <1>3, <1>4, <1>8
<1>10. WatcherRight(v)
  BY <1>4, <1>8, <1>9 DEF WatcherRight
<1> QED BY <1>3, <1>7, <1>8, <1>9, <1>10

\* Calls and events of a watcher of a descriptor.
LEMMA IoSteps ==
  ASSUME WatcherConstants, WatcherInv, NEW o \in Objects, NEW on \in BOOLEAN,
         \/ W!IoNew(o) \/ W!IoStart(o) \/ W!IoStop(o) \/ W!IoForget(o) \/ W!IoCallback(o)
         \/ W!IoSetCallback(o, on)
  PROVE  WatcherInv'
<1>1. watcher \in [Objects -> WatcherRecord] /\ watcher[o] \in WatcherRecord
      /\ WatcherRight(watcher[o]) /\ TablesRight /\ listeners \in 0 .. MaxListeners
  BY DEF WatcherInv
<1>2. ASSUME NEW w \in WatcherRecord, W!IoBecomes(o, w), WatcherRight(w), w.kind = "io",
             watcher[o].kind \in {"io", "none"}
      PROVE  WatcherInv'
  <2>1. /\ watcher' = [watcher EXCEPT ![o] = w]
        /\ loop' = loop + (W!Count(w) - W!Count(watcher[o]))
        /\ statWatchers' = statWatchers /\ signalWatchers' = signalWatchers
        /\ listeners' = listeners
    BY <1>2 DEF W!IoBecomes
  <2>2. W!Count(w) = Tally(w) /\ W!Count(watcher[o]) = Tally(watcher[o])
    BY <1>1, <1>2 DEF W!Count, Tally, KeepsLoop, WatcherRight
  <2>3. TablesRight'
    BY <1>1, <1>2, <2>1 DEF TablesRight
  <2> QED BY <1>1, <1>2, <2>1, <2>2, <2>3, OneWatcher
<1>3. CASE W!IoNew(o)
  <2>1. W!Wrap("io") \in WatcherRecord /\ WatcherRight(W!Wrap("io")) /\ W!Wrap("io").kind = "io"
    BY WrapMade
  <2>2. PICK w : w = W!Wrap("io")
    OBVIOUS
  <2>3. W!IoBecomes(o, w) /\ watcher[o].kind = "none"
    BY <1>3, <2>2 DEF W!IoNew
  <2> QED BY <1>2, <2>1, <2>2, <2>3
<1>4. ASSUME W!Io(o)
      PROVE  /\ W!IoStarted(watcher[o]) \in WatcherRecord
             /\ WatcherRight(W!IoStarted(watcher[o])) /\ W!IoStarted(watcher[o]).kind = "io"
  <2>1. watcher[o].kind = "io" /\ watcher[o].alive
    BY <1>4 DEF W!Io
  <2>2. CASE watcher[o].active
    BY <1>1, <2>1, <2>2 DEF W!IoStarted
  <2>3. CASE ~watcher[o].active
    BY <1>1, <2>1, <2>3, StartedWatcher DEF W!IoStarted
  <2> QED BY <2>2, <2>3
<1>5. ASSUME watcher[o].kind = "io"
      PROVE  /\ W!IoStopped(watcher[o]) \in WatcherRecord
             /\ WatcherRight(W!IoStopped(watcher[o])) /\ W!IoStopped(watcher[o]).kind = "io"
  <2>1. CASE watcher[o].active
    BY <1>1, <1>5, <2>1, StoppedWatcher DEF W!IoStopped
  <2>2. CASE ~watcher[o].active
    BY <1>1, <1>5, <2>2 DEF W!IoStopped
  <2> QED BY <2>1, <2>2
<1>6. CASE W!IoStart(o)
  BY <1>2, <1>4, <1>6 DEF W!IoStart, W!Io
<1>7. CASE W!IoStop(o) \/ W!IoCallback(o)
  BY <1>2, <1>5, <1>7 DEF W!IoStop, W!IoCallback, W!Io
<1>8. CASE W!IoForget(o)
  <2>1. PICK w : w = [watcher[o] EXCEPT !.held = FALSE]
    OBVIOUS
  <2>2. w \in WatcherRecord /\ WatcherRight(w) /\ w.kind = watcher[o].kind
    BY <1>1, <2>1 DEF WatcherRecord, WatcherRight
  <2> QED BY <1>2, <1>8, <2>1, <2>2 DEF W!IoForget, W!Io
<1>9. CASE W!IoSetCallback(o, on)
  <2>1. PICK w : w = [watcher[o] EXCEPT !.callback = on]
    OBVIOUS
  <2>2. w \in WatcherRecord /\ WatcherRight(w) /\ w.kind = watcher[o].kind
    BY <1>1, <2>1 DEF WatcherRecord, WatcherRight
  <2> QED BY <1>2, <1>9, <2>1, <2>2 DEF W!IoSetCallback, W!Io
<1> QED BY <1>3, <1>6, <1>7, <1>8, <1>9

\* The collector takes an object, which is not started.
LEMMA WeakStep ==
  ASSUME WatcherConstants, WatcherInv, NEW o \in Objects, W!WeakCallback(o)
  PROVE  WatcherInv'
<1>1. watcher \in [Objects -> WatcherRecord] /\ watcher[o] \in WatcherRecord /\ loop \in Int
      /\ WatcherRight(watcher[o]) /\ TablesRight /\ listeners \in 0 .. MaxListeners
  BY WatcherNumber DEF WatcherInv
<1>2. PICK w : w = [watcher[o] EXCEPT !.alive = FALSE]
  OBVIOUS
<1>3. /\ ~watcher[o].active /\ ~watcher[o].held /\ watcher' = [watcher EXCEPT ![o] = w]
      /\ loop' = loop /\ statWatchers' = statWatchers /\ signalWatchers' = signalWatchers
      /\ listeners' = listeners
  BY <1>1, <1>2 DEF W!WeakCallback, WatcherRight
<1>4. w \in WatcherRecord /\ WatcherRight(w) /\ ~w.active
  BY <1>1, <1>2, <1>3 DEF WatcherRecord, WatcherRight
<1>5. Tally(w) = 0 /\ Tally(watcher[o]) = 0
  BY <1>3, <1>4 DEF Tally, KeepsLoop
<1>6. TablesRight'
  <2>1. statWatchers # o /\ signalWatchers # o
    BY <1>1, <1>3 DEF TablesRight, WatcherConstants
  <2> QED BY <1>1, <1>3, <2>1 DEF TablesRight
<1>7. loop' = loop + (Tally(w) - Tally(watcher[o]))
  BY <1>1, <1>3, <1>5
<1> QED BY <1>1, <1>3, <1>4, <1>6, <1>7, OneWatcher

\* fs.watchFile.
LEMMA WatchStep ==
  ASSUME WatcherConstants, WatcherInv, NEW o \in Objects, NEW p \in BOOLEAN, W!WatchFile(o, p)
  PROVE  WatcherInv'
<1>1. watcher \in [Objects -> WatcherRecord] /\ watcher[o] \in WatcherRecord /\ loop \in Int
      /\ WatcherRight(watcher[o]) /\ TablesRight /\ listeners \in 0 .. MaxListeners
  BY WatcherNumber DEF WatcherInv
<1>2. PICK u : u = W!Wrap("stat")
  OBVIOUS
<1>3. /\ u \in WatcherRecord /\ WatcherRight(u) /\ u.kind = "stat" /\ ~u.active /\ u.alive
      /\ u.held
  BY <1>2, WrapMade
<1>4. PICK v : v = [u EXCEPT !.persistent = p]
  OBVIOUS
<1>5. /\ v \in WatcherRecord /\ v.kind = "stat" /\ ~v.active /\ v.alive /\ v.held
      /\ v.persistent = p /\ v.refs = u.refs /\ v.weak = u.weak
  <2>1. u \in WatcherRecord
    BY <1>3
  <2> QED BY <1>3, <1>4, <2>1 DEF WatcherRecord
<1>6. WatcherRight(v)
  BY <1>3, <1>5 DEF WatcherRight
<1>7. PICK w : w = W!Ref([v EXCEPT !.active = TRUE])
  OBVIOUS
<1>8. /\ w \in WatcherRecord /\ WatcherRight(w) /\ w.active /\ w.alive
      /\ w.kind = "stat" /\ w.held /\ w.persistent = p
  BY <1>5, <1>6, <1>7, StartedWatcher
<1>9. W!StatStarted(W!Wrap("stat"), p) = w
  <2>1. [u EXCEPT !.active = TRUE, !.persistent = p] = [v EXCEPT !.active = TRUE]
    BY <1>3, <1>4 DEF WatcherRecord
  <2> QED BY <1>2, <1>7, <2>1 DEF W!StatStarted
<1>10. /\ watcher' = [watcher EXCEPT ![o] = w] /\ loop' = loop + W!Keeps(w)
       /\ statWatchers' = o /\ signalWatchers' = signalWatchers /\ listeners' = listeners
       /\ watcher[o].kind = "none"
  BY <1>9 DEF W!WatchFile
<1>11. Tally(w) = W!Keeps(w) /\ Tally(watcher[o]) = 0
  BY <1>1, <1>8, <1>10 DEF Tally, KeepsLoop, W!Keeps, WatcherRight
<1>12. loop' = loop + (Tally(w) - Tally(watcher[o]))
  BY <1>1, <1>10, <1>11 DEF Tally
<1>13. TablesRight'
  <2>1. signalWatchers # o
    BY <1>1, <1>10 DEF TablesRight, WatcherConstants
  <2>2. watcher'[o] = w /\ \A q \in Objects \ {o} : watcher'[q] = watcher[q]
    BY <1>1, <1>10
  <2> QED BY <1>1, <1>8, <1>10, <2>1, <2>2 DEF TablesRight
<1> QED BY <1>1, <1>8, <1>10, <1>12, <1>13, OneWatcher

\* fs.unwatchFile and stop() of the watcher of the file.
LEMMA StopStep ==
  ASSUME WatcherConstants, WatcherInv, NEW drop \in BOOLEAN, W!StopStat(drop)
  PROVE  WatcherInv'
<1> DEFINE o == statWatchers
<1>1. watcher \in [Objects -> WatcherRecord] /\ loop \in Int
      /\ TablesRight /\ listeners \in 0 .. MaxListeners
  BY WatcherNumber DEF WatcherInv
<1>2. /\ o \in Objects /\ watcher[o] \in WatcherRecord /\ WatcherRight(watcher[o])
      /\ watcher[o].kind = "stat" /\ watcher[o].held /\ watcher[o].alive
  BY <1>1 DEF W!StopStat, TablesRight, WatcherInv
<1>3. PICK u : u = W!StatStopped(watcher[o]).after
  OBVIOUS
<1>4. /\ u \in WatcherRecord /\ WatcherRight(u) /\ ~u.active /\ u.kind = "stat" /\ u.held
      /\ u.alive
  <2>1. CASE watcher[o].active
    <3>1. u = W!Unref([watcher[o] EXCEPT !.active = FALSE])
      BY <1>3, <2>1 DEF W!StatStopped
    <3> QED BY <1>2, <2>1, <3>1, StoppedWatcher
  <2>2. CASE ~watcher[o].active
    <3>1. u = watcher[o]
      BY <1>3, <2>2 DEF W!StatStopped
    <3> QED BY <1>2, <2>2, <3>1
  <2> QED BY <2>1, <2>2
<1>5. PICK v : v = [u EXCEPT !.held = FALSE]
  OBVIOUS
<1>6. v \in WatcherRecord /\ WatcherRight(v) /\ ~v.active
  BY <1>4, <1>5 DEF WatcherRecord, WatcherRight
<1>7. PICK w : w = IF drop THEN v ELSE u
  OBVIOUS
<1>8. w \in WatcherRecord /\ WatcherRight(w) /\ ~w.active
  BY <1>4, <1>6, <1>7
<1>9. /\ watcher' = [watcher EXCEPT ![o] = w]
      /\ loop' = loop - W!StatStopped(watcher[o]).count
      /\ statWatchers' = (IF drop THEN NoObject ELSE o) /\ signalWatchers' = signalWatchers
      /\ listeners' = listeners
  BY <1>3, <1>5, <1>7 DEF W!StopStat
<1>10. W!StatStopped(watcher[o]).count = Tally(watcher[o]) /\ Tally(w) = 0
  BY <1>2, <1>8 DEF W!StatStopped, W!Keeps, Tally, KeepsLoop
<1>11. loop' = loop + (Tally(w) - Tally(watcher[o]))
  BY <1>1, <1>9, <1>10 DEF Tally
<1>12. TablesRight'
  <2>1. signalWatchers # o
    BY <1>1, <1>2 DEF TablesRight, WatcherConstants
  <2>2. watcher'[o] = w /\ \A q \in Objects \ {o} : watcher'[q] = watcher[q]
    BY <1>1, <1>2, <1>9
  <2>3. CASE drop
    BY <1>1, <1>9, <2>1, <2>2, <2>3 DEF TablesRight
  <2>4. CASE ~drop
    <3>1. w = u
      BY <1>7, <2>4
    <3> QED BY <1>1, <1>2, <1>4, <1>9, <2>1, <2>2, <2>4, <3>1 DEF TablesRight
  <2> QED BY <2>3, <2>4
<1> QED BY <1>1, <1>2, <1>8, <1>9, <1>11, <1>12, OneWatcher

\* A watcher of a signal, started again: it is as it was if it was started.
LEMMA SignalAgain ==
  ASSUME NEW u \in WatcherRecord, WatcherRight(u), u.kind = "signal", u.held, u.alive
  PROVE  LET v == W!SignalStarted(u)
         IN /\ v \in WatcherRecord /\ WatcherRight(v) /\ v.active /\ v.alive /\ v.held
            /\ v.kind = "signal"
<1>1. CASE u.active
  BY <1>1 DEF W!SignalStarted
<1>2. CASE ~u.active
  BY <1>2, StartedWatcher DEF W!SignalStarted
<1> QED BY <1>1, <1>2

\* process.addListener: with the first listener the watcher is started.
LEMMA ListenStep ==
  ASSUME WatcherConstants, WatcherInv, NEW o \in Objects, W!AddListener(o)
  PROVE  WatcherInv'
<1>1. watcher \in [Objects -> WatcherRecord] /\ watcher[o] \in WatcherRecord /\ loop \in Int
      /\ WatcherRight(watcher[o]) /\ TablesRight /\ listeners \in 0 .. MaxListeners
  BY WatcherNumber DEF WatcherInv
<1>2. /\ listeners' \in 0 .. MaxListeners /\ listeners' = listeners + 1 /\ loop' = loop
      /\ statWatchers' = statWatchers
  BY <1>1 DEF W!AddListener, WatcherConstants
<1>3. ASSUME NEW w \in WatcherRecord, WatcherRight(w), w.active, w.alive, w.held,
             w.kind = "signal", watcher' = [watcher EXCEPT ![o] = w], signalWatchers' = o,
             watcher[o].kind \in {"none", "signal"}
      PROVE  WatcherInv'
  <2>1. Tally(w) = 0 /\ Tally(watcher[o]) = 0
    BY <1>1, <1>3 DEF Tally, KeepsLoop, WatcherRight
  <2>2. loop' = loop + (Tally(w) - Tally(watcher[o]))
    BY <1>1, <1>2, <2>1
  <2>3. statWatchers # o
    BY <1>1, <1>3 DEF TablesRight, WatcherConstants
  <2>4. watcher'[o] = w /\ \A q \in Objects \ {o} : watcher'[q] = watcher[q]
    BY <1>1, <1>3
  <2>5. TablesRight'
    BY <1>1, <1>2, <1>3, <2>3, <2>4 DEF TablesRight, WatcherConstants
  <2> QED BY <1>2, <1>3, <2>2, <2>5, OneWatcher
<1>4. CASE signalWatchers = NoObject
  <2>1. PICK u : u = W!Wrap("signal")
    OBVIOUS
  <2>2. u \in WatcherRecord /\ WatcherRight(u) /\ u.kind = "signal" /\ u.held /\ u.alive
    BY <2>1, WrapMade
  <2>3. PICK w : w = W!SignalStarted(u)
    OBVIOUS
  <2>4. /\ w \in WatcherRecord /\ WatcherRight(w) /\ w.active /\ w.alive /\ w.held
        /\ w.kind = "signal"
    BY <2>2, <2>3, SignalAgain
  <2>5. /\ watcher[o].kind = "none" /\ watcher' = [watcher EXCEPT ![o] = w]
        /\ signalWatchers' = o
    BY <1>4, <2>1, <2>3 DEF W!AddListener, WatcherConstants
  <2> QED BY <1>3, <2>4, <2>5
<1>5. CASE signalWatchers # NoObject
  <2>1. /\ signalWatchers = o /\ signalWatchers' = o
        /\ watcher' = IF listeners' = 1 THEN [watcher EXCEPT ![o] = W!SignalStarted(@)] ELSE watcher
    BY <1>5 DEF W!AddListener
  <2>2. watcher[o].kind = "signal" /\ watcher[o].held /\ watcher[o].alive
    BY <1>1, <1>5, <2>1 DEF TablesRight
  <2>3. CASE listeners' = 1
    <3>1. PICK w : w = W!SignalStarted(watcher[o])
      OBVIOUS
    <3>2. /\ w \in WatcherRecord /\ WatcherRight(w) /\ w.active /\ w.alive /\ w.held
          /\ w.kind = "signal"
      BY <1>1, <2>2, <3>1, SignalAgain
    <3>3. watcher' = [watcher EXCEPT ![o] = w]
      BY <2>1, <2>3, <3>1
    <3> QED BY <1>3, <2>1, <2>2, <3>2, <3>3
  <2>4. CASE listeners' # 1
    <3>1. watcher' = watcher /\ listeners > 0 /\ signalWatchers' = signalWatchers
      BY <1>1, <1>2, <2>1, <2>4
    <3> QED BY <1>1, <1>2, <3>1 DEF WatcherInv, TablesRight
  <2> QED BY <2>3, <2>4
<1> QED BY <1>4, <1>5

\* process.removeListener: with the last listener the watcher is stopped.
LEMMA UnlistenStep ==
  ASSUME WatcherConstants, WatcherInv, W!RemoveListener
  PROVE  WatcherInv'
<1> DEFINE o == signalWatchers
<1>1. watcher \in [Objects -> WatcherRecord] /\ loop \in Int
      /\ TablesRight /\ listeners \in 0 .. MaxListeners
  BY WatcherNumber DEF WatcherInv
<1>2. /\ listeners > 0 /\ listeners' = listeners - 1 /\ loop' = loop
      /\ statWatchers' = statWatchers /\ signalWatchers' = o
      /\ watcher' = IF listeners' = 0 THEN [watcher EXCEPT ![o] = W!SignalStopped(@)] ELSE watcher
  BY DEF W!RemoveListener
<1>3. listeners' \in 0 .. MaxListeners
  BY <1>1, <1>2 DEF WatcherConstants
<1>4. /\ o # NoObject /\ o \in Objects /\ watcher[o].active /\ watcher[o].kind = "signal"
      /\ watcher[o].held /\ watcher[o].alive
  BY <1>1, <1>2 DEF TablesRight
<1>5. watcher[o] \in WatcherRecord /\ WatcherRight(watcher[o])
  BY <1>4 DEF WatcherInv
<1>6. CASE listeners' = 0
  <2>1. PICK w : w = W!Unref([watcher[o] EXCEPT !.active = FALSE])
    OBVIOUS
  <2>2. /\ w \in WatcherRecord /\ WatcherRight(w) /\ ~w.active /\ w.alive /\ w.held
        /\ w.kind = "signal"
    BY <1>4, <1>5, <2>1, StoppedWatcher
  <2>3. watcher' = [watcher EXCEPT ![o] = w]
    BY <1>2, <1>4, <1>6, <2>1 DEF W!SignalStopped
  <2>4. Tally(w) = 0 /\ Tally(watcher[o]) = 0
    BY <1>4, <2>2 DEF Tally, KeepsLoop
  <2>5. loop' = loop + (Tally(w) - Tally(watcher[o]))
    BY <1>1, <1>2, <2>4
  <2>6. statWatchers # o
    BY <1>1, <1>4 DEF TablesRight, WatcherConstants
  <2>7. watcher'[o] = w /\ \A q \in Objects \ {o} : watcher'[q] = watcher[q]
    BY <1>1, <1>4, <2>3
  <2>8. TablesRight'
    BY <1>1, <1>2, <1>4, <1>6, <2>2, <2>6, <2>7 DEF TablesRight
  <2> QED BY <1>3, <1>4, <2>2, <2>3, <2>5, <2>8, OneWatcher
<1>7. CASE listeners' # 0
  <2>1. watcher' = watcher
    BY <1>2, <1>7
  <2> QED BY <1>1, <1>2, <1>3, <2>1 DEF WatcherInv, TablesRight
<1> QED BY <1>6, <1>7

\* process.removeAllListeners, and nothing at all.
LEMMA WatcherRest ==
  ASSUME WatcherConstants, WatcherInv, W!RemoveAllListeners \/ UNCHANGED W!watcherVars
  PROVE  WatcherInv'
<1>1. CASE W!RemoveAllListeners
  BY <1>1 DEF W!RemoveAllListeners, WatcherInv, TablesRight, WatcherConstants
<1>2. CASE UNCHANGED W!watcherVars
  BY <1>2 DEF W!watcherVars, WatcherInv, TablesRight
<1> QED BY <1>1, <1>2

\* Every step.
LEMMA WatcherStep ==
  ASSUME WatcherConstants, WatcherInv, W!WatcherNext
  PROVE  WatcherInv'
<1>1. ASSUME NEW o \in Objects,
             \/ W!IoNew(o) \/ W!IoStart(o) \/ W!IoStop(o) \/ W!IoForget(o)
             \/ W!IoCallback(o) \/ \E on \in BOOLEAN : W!IoSetCallback(o, on)
      PROVE  WatcherInv'
  BY <1>1, IoSteps
<1>2. ASSUME NEW o \in Objects, \E p \in BOOLEAN : W!WatchFile(o, p)
      PROVE  WatcherInv'
  BY <1>2, WatchStep
<1>3. CASE W!UnwatchFile \/ W!StatStop
  BY <1>3, StopStep DEF W!UnwatchFile, W!StatStop
<1> QED BY <1>1, <1>2, <1>3, WeakStep, ListenStep, UnlistenStep, WatcherRest DEF W!WatcherNext

\* What the run checks of them follows.
LEMMA WatcherFacts ==
  ASSUME WatcherConstants, WatcherInv
  PROVE  W!WatchersHoldLoop /\ W!WatcherTypeOK
<1>1. ASSUME NEW X PROVE W!Cardinality(X) = Cardinality(X)
  BY DEF W!Cardinality, Cardinality
<1>2. loop = W!Cardinality({o \in Objects : KeepsLoop(watcher[o])})
  <2>1. PICK X : X = {o \in Objects : KeepsLoop(watcher[o])}
    OBVIOUS
  <2> QED BY <1>1, <2>1 DEF WatcherInv
<1>3. {o \in Objects : KeepsLoop(watcher[o])} =
        {o \in Objects : /\ watcher[o].active
                         /\ \/ watcher[o].kind = "io"
                            \/ watcher[o].kind = "stat" /\ watcher[o].persistent}
  BY DEF KeepsLoop
<1>4. W!WatchersHoldLoop
  <2>1. \A o \in Objects : LET w == watcher[o]
                          IN /\ w.active => w.alive /\ w.refs = 1 /\ ~w.weak
                             /\ w.alive /\ ~w.active => w.weak
    BY DEF WatcherInv, WatcherRight
  <2>2. listeners > 0 => watcher[signalWatchers].active
    BY DEF WatcherInv, TablesRight
  <2> QED BY <1>2, <1>3, <2>1, <2>2 DEF W!WatchersHoldLoop
<1>5. loop \in 0 .. Cardinality(Objects)
  <2>1. {q \in Objects : KeepsLoop(watcher[q])} \in SUBSET Objects
    OBVIOUS
  <2> QED BY <2>1, FS_Subset, FS_CardinalityType DEF WatcherInv, WatcherConstants
<1>6. loop \in 0 .. W!Cardinality(Objects)
  BY <1>1, <1>5
<1>7. {statWatchers, signalWatchers} \subseteq Objects \cup {NoObject}
  BY DEF WatcherInv, TablesRight
<1>8. /\ listeners \in 0 .. MaxListeners /\ \A o \in Objects : watcher[o] \in WatcherRecord
  BY DEF WatcherInv
<1>9. W!WatcherTypeOK
  BY <1>6, <1>7, <1>8 DEF WatcherRecord, W!WatcherTypeOK
<1> QED BY <1>4, <1>9

\* The loop runs on if and only if something wants it, and the count of libev and the
\* collector agree with what the watchers are: the invariant LoopKept of the run, which is
\* of the handles (src/node_v0.6.19/node/src/handle_wrap.cc) and of the watchers
\* (node_io_watcher.cc, node_stat_watcher.cc, node_signal_watcher.cc), for any number of them.
THEOREM LoopIsKept ==
  ASSUME CountConstants, WatcherConstants
  PROVE  Spec => []LoopKept
<1> DEFINE Kept == CountInv /\ WatcherInv
<1>1. Init => Kept
  <2>1. Init => HandleInit /\ W!WatcherInit
    BY DEF Init
  <2> QED BY <2>1, CountStart, WatcherStart DEF CountConstants
<1>2. Kept /\ [Next]_vars => Kept'
  <2>1. [Next]_vars => HandleNext \/ UNCHANGED handleVars
    BY DEF Next, vars
  <2>2. [Next]_vars => W!WatcherNext \/ UNCHANGED W!watcherVars
    BY DEF Next, vars, wVars, W!watcherVars
  <2> QED BY <2>1, <2>2, CountStep, WatcherStep, WatcherRest
<1>3. Kept => LoopKept
  BY CountSays, WatcherFacts DEF LoopKept, CountConstants
<1> QED BY <1>1, <1>2, <1>3, PTL DEF Spec

-----------------------------------------------------------------------------
(* The HTTP parser, as a part of MCRuntime. *)

\* The header lines of a message reach JavaScript whole, once and in order, and no string that
\* is still to be read points into a buffer that is gone: the invariant HeadersWhole of the
\* run, which is of the parser of src/node_v0.6.19/node/src/node_http_parser.cc and of the
\* callbacks of lib/http.js, for an array of any size from two on and messages of any length.
THEOREM HeadersComeWhole ==
  ASSUME HttpConstants
  PROVE  Spec => []HeadersWhole
<1>1. Init => HttpInv
  BY HttpStart DEF Init
<1>2. HttpInv /\ [Next]_vars => HttpInv'
  <2>1. [Next]_vars => HttpNext \/ UNCHANGED httpVars
    BY DEF Next, vars
  <2> QED BY <2>1, HttpStep, HttpRest
<1>3. HttpInv => HeadersWhole
  BY HttpFacts DEF HeadersWhole
<1> QED BY <1>1, <1>2, <1>3, PTL DEF Spec

-----------------------------------------------------------------------------
\* A set of numbers that is not empty has a least one.
LEMMA LeastNumber ==
  ASSUME NEW Y, Y \subseteq Nat, Y # {}
  PROVE  \E n \in Y : \A m \in Y : n <= m
<1>1. IsWellFoundedOn(OpToRel(<, Nat), Nat)
  BY NatLessThanWellFounded
<1>2. PICK n \in Y : \A m \in Y : ~(<<m, n>> \in OpToRel(<, Nat))
  BY <1>1, WFMin
<1>3. \A m \in Y : ~(m < n)
  BY <1>2 DEF OpToRel
<1> QED BY <1>3

\* Induction, for a set of numbers.
LEMMA Induction ==
  ASSUME NEW X, 0 \in X, \A n \in Nat : n \in X => n + 1 \in X
  PROVE  Nat \subseteq X
<1>1. SUFFICES ASSUME NEW k \in Nat, k \notin X PROVE FALSE
  OBVIOUS
<1>2. PICK n \in Nat \ X : \A m \in Nat \ X : n <= m
  BY <1>1, LeastNumber
<1>3. n # 0 /\ n - 1 \in Nat /\ n - 1 \in X
  BY <1>2
<1>4. (n - 1) + 1 = n
  BY <1>2
<1> QED BY <1>2, <1>3, <1>4

(* What FlattenSeq computes. *)

\* The recursive function in it.
IsFlatten(f, s, n) ==
  f = [x \in 1 .. n |-> IF x = 1 THEN s[x] ELSE f[x - 1] \o s[x]]

\* It exists.
LEMMA FlattenExists ==
  ASSUME NEW s, NEW n \in Nat
  PROVE  \E f : IsFlatten(f, s, n)
<1> DEFINE X == {k \in Nat : \E f : IsFlatten(f, s, k)}
<1>1. 0 \in X
  <2>1. IsFlatten([x \in 1 .. 0 |-> 0], s, 0)
    BY DEF IsFlatten
  <2> QED BY <2>1
<1>2. ASSUME NEW k \in Nat, k \in X
      PROVE  k + 1 \in X
  <2>1. PICK f : IsFlatten(f, s, k)
    BY <1>2
  <2> DEFINE g == [x \in 1 .. k + 1 |-> IF x \in 1 .. k THEN f[x]
                     ELSE IF x = 1 THEN s[x] ELSE f[x - 1] \o s[x]]
             h == [x \in 1 .. k + 1 |-> IF x = 1 THEN s[x] ELSE g[x - 1] \o s[x]]
  <2>2. ASSUME NEW x \in 1 .. k + 1
        PROVE  g[x] = h[x]
    <3>0. \A j \in 1 .. k : f[j] = IF j = 1 THEN s[j] ELSE f[j - 1] \o s[j]
      BY <2>1 DEF IsFlatten
    <3>1. CASE x = 1
      BY <3>0, <3>1
    <3>2. CASE x # 1
      <4>1. x - 1 \in 1 .. k /\ x - 1 \in 1 .. k + 1
        BY <3>2
      <4>2. g[x - 1] = f[x - 1]
        BY <4>1
      <4>3. CASE x \in 1 .. k
        BY <3>0, <3>2, <4>2, <4>3
      <4>4. CASE x \notin 1 .. k
        BY <3>2, <4>2, <4>4
      <4> QED BY <4>3, <4>4
    <3> QED BY <3>1, <3>2
  <2>3. g = h
    <3> DEFINE D == 1 .. k + 1
    <3> HIDE DEF D
    <3>1. \A x \in D : g[x] = h[x]
      BY <2>2 DEF D
    <3>2. g = [x \in D |-> g[x]] /\ h = [x \in D |-> h[x]]
      BY DEF D
    <3> HIDE DEF g, h
    <3> QED BY <3>1, <3>2
  <2>4. IsFlatten(g, s, k + 1)
    BY <2>3 DEF IsFlatten
  <2> HIDE DEF g
  <2> QED BY <2>4
<1> HIDE DEF X
<1>3. Nat \subseteq X
  BY <1>1, <1>2, Induction
<1> QED BY <1>3 DEF X

\* What a prefix of s flattens to, by its length n.
Flattens(f, s, n) ==
  /\ Z!FlattenSeq(s) = f[n]
  /\ f[1] = s[1]
  /\ \A x \in 2 .. n : f[x] = f[x - 1] \o s[x]

\* FlattenSeq by its recursive function.
LEMMA FlattenIs ==
  ASSUME NEW n \in Nat \ {0}, NEW s, Len(s) = n
  PROVE  \E f : Flattens(f, s, n)
<1> DEFINE f == CHOOSE g : IsFlatten(g, s, n)
<1>1. Z!FlattenSeq(s) = f[n]
  BY DEF Z!FlattenSeq, IsFlatten
<1>2. IsFlatten(f, s, n)
  BY FlattenExists
<1> HIDE DEF f
<1>3. \A x \in 1 .. n : f[x] = IF x = 1 THEN s[x] ELSE f[x - 1] \o s[x]
  BY <1>2 DEF IsFlatten
<1>4. f[1] = s[1]
  <2>1. 1 \in 1 .. n
    OBVIOUS
  <2> QED BY <2>1, <1>3
<1>5. ASSUME NEW x \in 2 .. n
      PROVE  f[x] = f[x - 1] \o s[x]
  <2>1. x \in 1 .. n /\ x # 1
    OBVIOUS
  <2> QED BY <2>1, <1>3
<1>6. Flattens(f, s, n)
  BY <1>1, <1>4, <1>5 DEF Flattens
<1> QED BY <1>6

\* One more element.
Longer(u, s) == Len(u) = Len(s) + 1 /\ \A x \in 1 .. Len(s) : u[x] = s[x]

\* Flattening what has one more sequence at its end puts that sequence last.
LEMMA FlattenStep ==
  ASSUME NEW Y, NEW s \in Seq(Seq(Y)), NEW u \in Seq(Seq(Y)), Longer(u, s)
  PROVE  /\ Z!FlattenSeq(s) \in Seq(Y)
         /\ Z!FlattenSeq(u) = Z!FlattenSeq(s) \o u[Len(u)]
<1> DEFINE n == Len(s)
<1>1. /\ n \in Nat /\ Len(s) = n /\ Len(u) = n + 1
      /\ s \in [1 .. n -> Seq(Y)] /\ u \in [1 .. n + 1 -> Seq(Y)]
      /\ \A x \in 1 .. n : u[x] = s[x]
  BY DEF Longer
<1> HIDE DEF n
<1>0. PICK g : Flattens(g, u, n + 1)
  <2>1. n + 1 \in Nat \ {0}
    BY <1>1
  <2> QED BY <2>1, <1>1, FlattenIs
<1>2. /\ Z!FlattenSeq(u) = g[n + 1]
      /\ g[1] = u[1]
      /\ \A x \in 2 .. n + 1 : g[x] = g[x - 1] \o u[x]
  BY <1>0 DEF Flattens
<1>3. CASE n = 0
  <2>1. Z!FlattenSeq(s) = <<>>
    <3>1. s = <<>>
      BY <1>1, <1>3
    <3> QED BY <3>1, <1>1, <1>3 DEF Z!FlattenSeq
  <2>2. u[1] \in Seq(Y)
    BY <1>1, <1>3
  <2> QED BY <2>1, <2>2, <1>1, <1>2, <1>3
<1>4. CASE n # 0
  <2>0. PICK f : Flattens(f, s, n)
    <3>1. n \in Nat \ {0}
      BY <1>1, <1>4
    <3> QED BY <3>1, <1>1, FlattenIs
  <2>1. /\ Z!FlattenSeq(s) = f[n]
        /\ f[1] = s[1]
        /\ \A x \in 2 .. n : f[x] = f[x - 1] \o s[x]
    BY <2>0 DEF Flattens
  <2> DEFINE X == {x \in Nat : x + 1 \in 1 .. n => /\ f[x + 1] = g[x + 1]
                                                   /\ f[x + 1] \in Seq(Y)}
  <2>2. 0 \in X
    BY <1>1, <1>2, <1>4, <2>1
  <2>3. ASSUME NEW x \in Nat, x \in X
        PROVE  x + 1 \in X
    <3>1. SUFFICES ASSUME x + 2 \in 1 .. n
                   PROVE  f[x + 2] = g[x + 2] /\ f[x + 2] \in Seq(Y)
      BY x + 1 + 1 = x + 2
    <3>2. f[x + 1] = g[x + 1] /\ f[x + 1] \in Seq(Y)
      BY <2>3, <3>1, <1>1
    <3>3. s[x + 2] = u[x + 2] /\ s[x + 2] \in Seq(Y)
      BY <3>1, <1>1
    <3>4. x + 2 \in 2 .. n /\ x + 2 \in 2 .. n + 1 /\ (x + 2) - 1 = x + 1
      BY <3>1, <1>1
    <3>5. f[x + 2] = f[x + 1] \o s[x + 2] /\ g[x + 2] = g[x + 1] \o u[x + 2]
      BY <3>4, <2>1, <1>2
    <3>6. f[x + 1] \o s[x + 2] \in Seq(Y)
      BY <3>2, <3>3
    <3> QED BY <3>2, <3>3, <3>5, <3>6
  <2> HIDE DEF X
  <2>4. n - 1 \in X
    <3>1. Nat \subseteq X
      BY <2>2, <2>3, Induction
    <3>2. n - 1 \in Nat
      BY <1>1, <1>4
    <3> QED BY <3>1, <3>2
  <2>5. f[n] = g[n] /\ f[n] \in Seq(Y)
    <3>1. (n - 1) + 1 = n /\ n \in 1 .. n
      BY <1>1, <1>4
    <3> QED BY <2>4, <3>1 DEF X
  <2>6. g[n + 1] = g[n] \o u[n + 1]
    <3>1. n + 1 \in 2 .. n + 1 /\ (n + 1) - 1 = n
      BY <1>1, <1>4
    <3> QED BY <3>1, <1>2
  <2> QED BY <2>1, <2>5, <2>6, <1>1, <1>2
<1> QED BY <1>3, <1>4

-----------------------------------------------------------------------------
(* Sequences. *)

\* A function of the first numbers is a sequence.
LEMMA FunctionIsSeq ==
  ASSUME NEW Y, NEW n \in Nat, NEW f, f \in [1 .. n -> Y]
  PROVE  f \in Seq(Y) /\ Len(f) = n
OBVIOUS

\* One after the other.
IsConcat(w, u, v) ==
  /\ Len(w) = Len(u) + Len(v)
  /\ \A j \in 1 .. Len(u) : w[j] = u[j]
  /\ \A j \in 1 .. Len(v) : w[Len(u) + j] = v[j]

\* It is what \o computes.
LEMMA ConcatFacts ==
  ASSUME NEW Y, NEW u \in Seq(Y), NEW v \in Seq(Y)
  PROVE  u \o v \in Seq(Y) /\ IsConcat(u \o v, u, v)
BY DEF IsConcat

\* Sequences of the same elements.
LEMMA SeqsEqual ==
  ASSUME NEW Y, NEW u, NEW v, u \in Seq(Y), v \in Seq(Y), Len(u) = Len(v),
         \A j \in 1 .. Len(u) : u[j] = v[j]
  PROVE  u = v
OBVIOUS

\* A part of a sequence.
IsPart(u, f, m, n) == Len(u) = n /\ \A j \in 1 .. n : u[j] = f[m + j]

\* Where the part is.
PartWithin(f, m, n, first, end) ==
  m \in Nat /\ n \in Nat /\ first = m + 1 /\ end = m + n /\ end <= Len(f)

\* It is what SubSeq computes.
LEMMA PartIs ==
  ASSUME NEW Y, NEW f \in Seq(Y), NEW m, NEW n, NEW first, NEW end,
         PartWithin(f, m, n, first, end)
  PROVE  /\ SubSeq(f, first, end) \in Seq(Y)
         /\ IsPart(SubSeq(f, first, end), f, m, n)
<1>0. PICK u : u = SubSeq(f, first, end)
  OBVIOUS
<1>3. m \in Nat /\ n \in Nat /\ first = m + 1 /\ end = m + n /\ end <= Len(f)
  BY DEF PartWithin
<1>1. CASE n = 0
  <2>1. u = <<>>
    BY <1>0, <1>1, <1>3
  <2> QED BY <1>0, <1>1, <2>1 DEF IsPart
<1>2. CASE n # 0
  <2>1. u \in Seq(Y) /\ Len(u) = n
    BY <1>0, <1>2, <1>3
  <2>2. \A j \in 1 .. n : u[j] = f[m + j]
    BY <1>0, <1>2, <1>3
  <2> QED BY <1>0, <2>1, <2>2 DEF IsPart
<1> QED BY <1>1, <1>2, <1>3

\* The numbers to n and the next ones.
UpTo(n) == [j \in 1 .. n |-> j]

\* The second after the first.
LEMMA UpToFurther ==
  ASSUME NEW n \in Nat, NEW more \in Nat, NEW v, v \in Seq(Nat), Len(v) = more,
         \A j \in 1 .. more : v[j] = n + j
  PROVE  UpTo(n) \o v = UpTo(n + more)
<1>1. PICK u : u = UpTo(n)
  OBVIOUS
<1>2. PICK s : s = UpTo(n + more)
  OBVIOUS
<1>3. u \in Seq(Nat) /\ Len(u) = n /\ \A j \in 1 .. n : u[j] = j
  <2>1. u \in [1 .. n -> Nat]
    BY <1>1 DEF UpTo
  <2> QED BY <1>1, <2>1, FunctionIsSeq DEF UpTo
<1>4. s \in Seq(Nat) /\ Len(s) = n + more /\ \A j \in 1 .. n + more : s[j] = j
  <2>1. s \in [1 .. n + more -> Nat] /\ n + more \in Nat
    BY <1>2 DEF UpTo
  <2> QED BY <1>2, <2>1, FunctionIsSeq DEF UpTo
<1>5. PICK w : w = u \o v
  OBVIOUS
<1>6. /\ w \in Seq(Nat) /\ Len(w) = n + more
      /\ \A j \in 1 .. n : w[j] = j
      /\ \A j \in 1 .. more : w[n + j] = n + j
  <2>1. /\ w \in Seq(Nat) /\ Len(w) = Len(u) + Len(v)
        /\ \A j \in 1 .. Len(u) : w[j] = u[j]
        /\ \A j \in 1 .. Len(v) : w[Len(u) + j] = v[j]
    <3>1. u \o v \in Seq(Nat) /\ IsConcat(u \o v, u, v)
      BY <1>3, ConcatFacts
    <3> QED BY <1>5, <3>1 DEF IsConcat
  <2> QED BY <1>3, <2>1
<1>7. ASSUME NEW j \in 1 .. n + more PROVE w[j] = s[j]
  <2>1. CASE j <= n
    BY <1>4, <1>6, <2>1
  <2>2. CASE ~(j <= n)
    <3>1. j - n \in 1 .. more /\ n + (j - n) = j
      BY <2>2
    <3> QED BY <1>4, <1>6, <3>1
  <2> QED BY <2>1, <2>2
<1>8. w = s
  BY <1>4, <1>6, <1>7, SeqsEqual
<1> QED BY <1>1, <1>2, <1>5, <1>8

-----------------------------------------------------------------------------
(* The compressor: what is emitted is what the thread has made. *)

\* A buffer has room, and chunks have lengths.
ZlibConstants == ChunkSize \in Nat \ {0} /\ Sizes \subseteq Nat

ZRequest == [n : Nat, last : BOOLEAN]
ZStream ==
  [queue : Seq(ZRequest), processing : BOOLEAN, request : ZRequest, paused : BOOLEAN,
   ended : BOOLEAN, ending : BOOLEAN, flush : Z!Flushes, offset : 0 .. ChunkSize,
   needDrain : BOOLEAN, hadError : BOOLEAN, done : BOOLEAN, late : BOOLEAN]
ZContext ==
  [inProgress : BOOLEAN, work : {"none", "queued", "done"}, flush : Z!Flushes, availIn : Nat,
   from : 0 .. ChunkSize, availOut : 0 .. ChunkSize, err : BOOLEAN, refs : Nat]
ZCodec == [fed : Nat, made : Nat]
ZBuffer == [1 .. ChunkSize -> Nat]
ZSlice == [buffer : Nat, from : Nat, to : Nat]

ZTyped(s, c, h) == s \in ZStream /\ c \in ZContext /\ h \in {"none", "data", "chunk"}

\* Who works, and what keeps the object alive.
ZControl(s, c, h) ==
  /\ c.refs = (IF c.work # "none" THEN 1 ELSE 0) + (IF h # "none" THEN 1 ELSE 0)
  /\ s.processing <=> (c.work # "none" \/ h = "data")
  /\ c.inProgress <=> (c.work # "none" \/ s.hadError)
  /\ h = "data" => c.work = "none"
  /\ s.hadError => c.work = "none" /\ h = "none" /\ s.queue = <<>>
  /\ c.err => c.work = "done" \/ s.hadError

\* The request that ends the stream comes last, and is told to finish unless flush was called
\* meanwhile. The flag ended is set at the end of the call that queues it.
Ends(flush, late) == flush = "finish" \/ (late /\ flush = "sync")

ZRequests(s, c, ended) ==
  /\ \A j \in 1 .. Len(s.queue) : s.queue[j].last => j = Len(s.queue) /\ ended /\ s.ending
  /\ s.request.last => s.queue = <<>> /\ ended
  /\ s.request.last /\ s.processing => Ends(s.flush, s.late) /\ Ends(c.flush, s.late)

\* The piece of the buffer that the thread has, and what is left of it.
ZSpace(s, c, h) ==
  /\ c.work # "none" => c.from = s.offset
  /\ c.work = "queued" => c.availOut = ChunkSize - s.offset
  /\ c.work = "done" => c.availOut <= ChunkSize - s.offset
  /\ c.work = "done" /\ c.err => c.availOut = ChunkSize - s.offset
  /\ h = "data" => c.availOut = ChunkSize - s.offset
  /\ h # "data" => s.offset < ChunkSize

\* A request to flush or to finish that does not fill the piece has brought out everything.
ZFinish(c, k, h) ==
  /\ k.made <= k.fed + 1
  /\ ((c.work = "done" /\ ~c.err) \/ h = "data") /\ c.flush # "none" /\ c.availOut # 0
       => c.availIn = 0 /\ k.made >= k.fed /\ (c.flush = "finish" => k.made = k.fed + 1)

ZEnds(s, c, k) ==
  s.done => /\ s.request.last /\ ~s.processing /\ c.availIn = 0
            /\ k.made = k.fed + 1 \/ (s.late /\ k.made = k.fed)

ZHave(s, c) == ChunkSize - s.offset - c.availOut

\* What has been made and not emitted.
ZPending(s, c) == IF c.work = "done" THEN ZHave(s, c) ELSE 0

\* A slice that was given away lies before what the thread may write to.
SliceIn(x, b, off) ==
  /\ x \in ZSlice /\ x.buffer \in 1 .. Len(b) /\ x.from <= x.to /\ x.to <= ChunkSize
  /\ x.buffer = Len(b) => x.to <= off

\* The slices, and that they say 1 to n.
Cut(x, b) == SubSeq(b[x.buffer], x.from + 1, x.to)
Cuts(b, e) == [j \in DOMAIN e |-> Cut(e[j], b)]
Told(b, e, n) == Z!FlattenSeq(Cuts(b, e)) = UpTo(n)

ZOutput(s, c, k, b, e) ==
  /\ k \in ZCodec /\ b \in Seq(ZBuffer) /\ Len(b) # 0 /\ e \in Seq(ZSlice)
  /\ \A j \in 1 .. Len(e) : SliceIn(e[j], b, s.offset)
  /\ k.made - ZPending(s, c) \in Nat /\ Told(b, e, k.made - ZPending(s, c))
  /\ c.work = "done" =>
       \A j \in 1 .. ZHave(s, c) : b[Len(b)][s.offset + j] = k.made - ZHave(s, c) + j

ZRight(s, c, h, k, ended) ==
  /\ ZTyped(s, c, h) /\ ZControl(s, c, h) /\ ZRequests(s, c, ended) /\ ZSpace(s, c, h)
  /\ ZFinish(c, k, h) /\ ZEnds(s, c, k)

\* The invariant that carries the result about the compressor.
ZlibInv ==
  /\ ZRight(zs, zctx, handler, codec, zs.ended)
  /\ ZOutput(zs, zctx, codec, buffers, emitted)

\* At the start.
LEMMA ZlibStart == ZlibConstants /\ Z!ZlibInit => ZlibInv
<1> SUFFICES ASSUME ZlibConstants, Z!ZlibInit PROVE ZlibInv
  OBVIOUS
<1>1. /\ zs = [queue |-> <<>>, processing |-> FALSE, request |-> Z!NoRequest, paused |-> FALSE,
               ended |-> FALSE, ending |-> FALSE, flush |-> "none", offset |-> 0,
               needDrain |-> FALSE, hadError |-> FALSE, done |-> FALSE, late |-> FALSE]
      /\ zctx = [inProgress |-> FALSE, work |-> "none", flush |-> "none", availIn |-> 0,
                 from |-> 0, availOut |-> 0, err |-> FALSE, refs |-> 0]
      /\ codec = [fed |-> 0, made |-> 0]
      /\ buffers = <<Z!Blank>> /\ emitted = <<>> /\ handler = "none"
  BY DEF Z!ZlibInit
<1>2. Z!NoRequest \in ZRequest /\ ~Z!NoRequest.last /\ "none" \in Z!Flushes
      /\ <<>> \in Seq(ZRequest) /\ 0 \in 0 .. ChunkSize
  BY DEF Z!NoRequest, ZRequest, Z!Flushes, ZlibConstants
<1>3. ZTyped(zs, zctx, handler)
  BY <1>1, <1>2 DEF ZTyped, ZStream, ZContext
<1>4. ZControl(zs, zctx, handler) /\ ZSpace(zs, zctx, handler)
  BY <1>1 DEF ZControl, ZSpace, ZlibConstants
<1>5. ZRequests(zs, zctx, zs.ended) /\ ZFinish(zctx, codec, handler) /\ ZEnds(zs, zctx, codec)
  BY <1>1, <1>2 DEF ZRequests, ZFinish, ZEnds
<1>6. Told(buffers, emitted, 0)
  <2>1. emitted = <<>> /\ DOMAIN emitted = {}
    BY <1>1
  <2>2. Cuts(buffers, emitted) = <<>>
    BY <2>1 DEF Cuts
  <2>3. UpTo(0) = <<>>
    BY DEF UpTo
  <2> QED BY <2>2, <2>3 DEF Told, Z!FlattenSeq
<1>7. Z!Blank \in ZBuffer
  BY DEF Z!Blank, ZBuffer
<1>8. ZOutput(zs, zctx, codec, buffers, emitted)
  <2>1. ZPending(zs, zctx) = 0 /\ codec \in ZCodec /\ codec.made = 0 /\ zctx.work = "none"
    BY <1>1 DEF ZPending, ZCodec
  <2>2. buffers \in Seq(ZBuffer) /\ Len(buffers) # 0 /\ emitted \in Seq(ZSlice)
        /\ Len(emitted) = 0
    BY <1>1, <1>7
  <2>3. codec.made - ZPending(zs, zctx) = 0
    BY <2>1
  <2> QED BY <1>6, <2>1, <2>2, <2>3 DEF ZOutput
<1> QED BY <1>3, <1>4, <1>5, <1>8 DEF ZlibInv, ZRight

\* The next request may have been begun.
ZGoesOn(s, c, h, k, ended, t, d) ==
  /\ ZRight(t, d, h, k, ended) /\ t.offset = s.offset /\ t.ended = s.ended
  /\ d = c \/ (c.work = "none" /\ d.work = "queued")

\* Process: the next request, if none is on its way.
LEMMA ProcessRight ==
  ASSUME ZlibConstants, NEW s, NEW c, NEW h, NEW k, NEW ended, ZRight(s, c, h, k, ended),
         NEW r, r = Z!Process(s, c), ended \in BOOLEAN
  PROVE  ZGoesOn(s, c, h, k, ended, r.s, r.c)
<1>0. /\ ZTyped(s, c, h) /\ ZControl(s, c, h) /\ ZRequests(s, c, ended) /\ ZSpace(s, c, h)
      /\ ZFinish(c, k, h) /\ ZEnds(s, c, k)
  BY DEF ZRight
<1>1. CASE ~Z!Ready(s)
  <2>1. r = [s |-> s, c |-> c]
    BY <1>1 DEF Z!Process
  <2> QED BY <2>1 DEF ZGoesOn
<1>2. CASE Z!Ready(s) /\ s.queue = <<>>
  <2>0. PICK t : t = [s EXCEPT !.needDrain = FALSE]
    OBVIOUS
  <2>1. r = [s |-> t, c |-> c]
    BY <1>2, <2>0 DEF Z!Process
  <2>2. /\ t \in ZStream /\ t.queue = s.queue /\ t.processing = s.processing
        /\ t.request = s.request /\ t.ending = s.ending /\ t.flush = s.flush
        /\ t.offset = s.offset /\ t.hadError = s.hadError /\ t.done = s.done
        /\ t.ended = s.ended /\ t.late = s.late
    BY <1>0, <2>0 DEF ZTyped, ZStream
  <2>3. ZRight(t, c, h, k, ended)
    BY <1>0, <2>2 DEF ZRight, ZTyped, ZControl, ZRequests, ZSpace, ZEnds
  <2> QED BY <2>1, <2>2, <2>3 DEF ZGoesOn
<1>3. CASE Z!Ready(s) /\ s.queue # <<>>
  <2>0. /\ ~s.hadError /\ ~s.processing /\ s \in ZStream /\ c \in ZContext
        /\ s.queue \in Seq(ZRequest) /\ s.queue # <<>>
    BY <1>0, <1>3 DEF Z!Ready, ZTyped, ZStream
  <2>1. PICK left, flush, head :
          /\ left = Tail(s.queue) /\ head = Head(s.queue)
          /\ flush = IF s.ending /\ left = <<>> THEN "finish" ELSE s.flush
    OBVIOUS
  <2>2. PICK t, d :
          /\ t = [s EXCEPT !.queue = left, !.request = head, !.flush = flush,
                           !.processing = TRUE]
          /\ d = Z!CtxWrite(c, flush, head.n, s.offset, ChunkSize - s.offset)
    OBVIOUS
  <2>3. r = [s |-> t, c |-> d]
    BY <1>3, <2>1, <2>2 DEF Z!Process
  <2>4. left \in Seq(ZRequest) /\ head \in ZRequest /\ flush \in Z!Flushes
    BY <2>0, <2>1 DEF Z!Flushes, ZStream
  <2>5. /\ t \in ZStream /\ t.queue = left /\ t.processing
        /\ t.request = head /\ t.ending = s.ending /\ t.flush = flush
        /\ t.offset = s.offset /\ ~t.hadError /\ t.done = s.done
        /\ t.ended = s.ended /\ t.late = s.late
    BY <2>0, <2>2, <2>4 DEF ZStream
  <2>6. c.work = "none" /\ h # "data" /\ ~c.inProgress /\ ~c.err
    BY <1>0, <2>0 DEF ZControl, ZTyped, ZContext, ZStream
  <2>7. /\ d \in ZContext /\ d.inProgress /\ d.work = "queued" /\ d.flush = flush
        /\ d.from = s.offset /\ d.availOut = ChunkSize - s.offset /\ d.refs = c.refs + 1
        /\ ~d.err
    <3>1. s.offset \in 0 .. ChunkSize /\ ChunkSize - s.offset \in 0 .. ChunkSize
      BY <2>0 DEF ZStream, ZlibConstants
    <3>2. head.n \in Nat
      BY <2>4 DEF ZRequest
    <3>3. c.refs + 1 \in Nat
      BY <2>0 DEF ZContext
    <3>4. d = [c EXCEPT !.inProgress = TRUE, !.work = "queued", !.flush = flush,
                        !.availIn = head.n, !.from = s.offset,
                        !.availOut = ChunkSize - s.offset, !.refs = c.refs + 1]
      BY <2>2 DEF Z!CtxWrite
    <3>5. /\ d.inProgress /\ d.work = "queued" /\ d.flush = flush
          /\ d.from = s.offset /\ d.availOut = ChunkSize - s.offset /\ d.refs = c.refs + 1
          /\ d.err = c.err
      BY <2>0, <3>4 DEF ZContext
    <3>6. d \in ZContext
      BY <2>0, <2>4, <3>1, <3>2, <3>3, <3>4 DEF ZContext
    <3> QED BY <2>6, <3>5, <3>6
  <2>8. ZTyped(t, d, h) /\ ZControl(t, d, h) /\ ZSpace(t, d, h)
    <3>1. ZTyped(t, d, h)
      BY <1>0, <2>5, <2>7 DEF ZTyped
    <3>2. ZControl(t, d, h)
      BY <1>0, <2>5, <2>6, <2>7 DEF ZControl
    <3>3. ZSpace(t, d, h)
      BY <1>0, <2>5, <2>6, <2>7 DEF ZSpace
    <3> QED BY <3>1, <3>2, <3>3
  <2>9. ZRequests(t, d, ended)
    <3>1. /\ head = s.queue[1] /\ Len(left) = Len(s.queue) - 1 /\ Len(s.queue) \in Nat \ {0}
          /\ \A j \in 1 .. Len(left) : left[j] = s.queue[j + 1] /\ j + 1 \in 1 .. Len(s.queue)
      BY <2>0, <2>1
    <3>2. \A j \in 1 .. Len(s.queue) :
            s.queue[j].last => j = Len(s.queue) /\ ended /\ s.ending
      BY <1>0 DEF ZRequests
    <3>3. ASSUME NEW j \in 1 .. Len(left), left[j].last
          PROVE  j = Len(left) /\ ended /\ s.ending
      <4>1. left[j] = s.queue[j + 1] /\ j + 1 \in 1 .. Len(s.queue)
        BY <3>1
      <4>2. s.queue[j + 1].last
        BY <3>3, <4>1
      <4>3. j + 1 = Len(s.queue) /\ ended /\ s.ending
        BY <3>2, <4>1, <4>2
      <4>4. j = Len(left)
        BY <3>1, <4>3
      <4> QED BY <4>3, <4>4
    <3>4. ASSUME head.last PROVE left = <<>> /\ ended /\ s.ending
      <4>1. 1 \in 1 .. Len(s.queue)
        BY <3>1
      <4>2. s.queue[1].last
        BY <3>1, <3>4
      <4>3. 1 = Len(s.queue) /\ ended /\ s.ending
        BY <3>2, <4>1, <4>2
      <4>4. left = <<>>
        BY <2>4, <3>1, <4>3
      <4> QED BY <4>3, <4>4
    <3> QED BY <2>1, <2>5, <2>7, <3>3, <3>4 DEF ZRequests, Ends
  <2>10. ZFinish(d, k, h) /\ ZEnds(t, d, k)
    <3>1. ~s.done
      <4>1. s.done => s.request.last
        BY <1>0 DEF ZEnds
      <4> QED BY <1>0, <2>0, <4>1 DEF ZRequests
    <3> QED BY <1>0, <2>5, <2>6, <2>7, <3>1 DEF ZFinish, ZEnds, ZTyped, ZStream
  <2> QED BY <2>3, <2>5, <2>6, <2>7, <2>8, <2>9, <2>10 DEF ZRight, ZGoesOn
<1> QED BY <1>1, <1>2, <1>3

\* What else there is of the stream does not matter.
SameStream(s, t) ==
  /\ t \in ZStream /\ t.queue = s.queue /\ t.processing = s.processing /\ t.request = s.request
  /\ t.offset = s.offset /\ t.hadError = s.hadError /\ t.done = s.done

\* flush may have been called, which is late while the last request is worked on.
FlushCalled(s, t) ==
  /\ s.late => t.late
  /\ t.flush = s.flush \/ (t.flush = "sync" /\ (s.request.last /\ s.processing => t.late))

\* Such a stream is right as well.
LEMMA StreamStaysRight ==
  ASSUME NEW s, NEW t, NEW c, NEW h, NEW k, NEW ended, NEW after,
         ZRight(s, c, h, k, ended), SameStream(s, t),
         ended => after, s.ending => t.ending, FlushCalled(s, t)
  PROVE  ZRight(t, c, h, k, after)
<1>1. ZTyped(t, c, h) /\ ZControl(t, c, h) /\ ZSpace(t, c, h)
  BY DEF ZRight, SameStream, ZTyped, ZControl, ZSpace
<1>2. ZRequests(t, c, after)
  BY DEF ZRight, SameStream, FlushCalled, ZRequests, Ends
<1>3. ZFinish(c, k, h) /\ ZEnds(t, c, k)
  BY DEF ZRight, SameStream, FlushCalled, ZEnds
<1> QED BY <1>1, <1>2, <1>3 DEF ZRight

\* The output is the same as long as nothing is done or emitted.
LEMMA OutputStays ==
  ASSUME NEW s, NEW t, NEW c, NEW d, NEW k, NEW b, NEW e, ZOutput(s, c, k, b, e),
         t.offset = s.offset,
         d = c \/ (c.work # "done" /\ d.work # "done")
  PROVE  ZOutput(t, d, k, b, e)
<1>1. ZPending(t, d) = ZPending(s, c)
  BY DEF ZPending, ZHave
<1>2. d.work = "done" => c.work = "done" /\ ZHave(t, d) = ZHave(s, c)
  BY DEF ZHave
<1> QED BY <1>1, <1>2 DEF ZOutput

\* A request is queued, and perhaps begun at once.
LEMMA EnqueueRight ==
  ASSUME ZlibConstants, ZlibInv, NEW s, NEW request \in ZRequest,
         ZRight(s, zctx, handler, codec, zs.ended), s.ended = zs.ended, s.offset = zs.offset,
         request.last => s.ending, Z!Enqueue(s, request),
         UNCHANGED <<codec, buffers, emitted, handler>>
  PROVE  ZlibInv'
<1>0. s \in ZStream /\ ZOutput(zs, zctx, codec, buffers, emitted) /\ zs \in ZStream
  BY DEF ZRight, ZTyped, ZlibInv
<1>1. CASE s.hadError \/ s.ended
  <2>1. zs' = s /\ zctx' = zctx
    BY <1>1 DEF Z!Enqueue
  <2>2. ZOutput(s, zctx, codec, buffers, emitted)
    BY <1>0, OutputStays
  <2>3. ZRight(s, zctx, handler, codec, s.ended)
    OBVIOUS
  <2> QED BY <2>1, <2>2, <2>3 DEF ZlibInv
<1>2. CASE ~(s.hadError \/ s.ended)
  <2>0. PICK atEnd \in BOOLEAN, q \in {[s EXCEPT !.queue = Append(s.queue, request)]} :
                             /\ atEnd = request.last
                             /\ q = [s EXCEPT !.queue = Append(s.queue, request)]
    BY DEF ZRequest
  <2>1. PICK p, d, z : /\ p = Z!Process(q, zctx).s /\ d = Z!Process(q, zctx).c
                       /\ z = [p EXCEPT !.needDrain = p.needDrain \/ s.queue # <<>>,
                                        !.ended = p.ended \/ request.last]
                       /\ zs' = z /\ zctx' = d
    BY <1>2, <2>0 DEF Z!Enqueue
  <2>2. /\ q \in ZStream /\ q.queue = Append(s.queue, request) /\ q.processing = s.processing
        /\ q.request = s.request /\ q.ending = s.ending /\ q.flush = s.flush
        /\ q.offset = s.offset /\ q.hadError = s.hadError /\ q.done = s.done
        /\ q.ended = s.ended /\ q.late = s.late
    <3>1. s.queue \in Seq(ZRequest)
      BY <1>0 DEF ZStream
    <3>2. Append(s.queue, request) \in Seq(ZRequest)
      BY <3>1
    <3> QED BY <1>0, <2>0, <3>2 DEF ZStream
  <2>3. ZRight(q, zctx, handler, codec, atEnd)
    <3>1. ZRequests(q, zctx, atEnd)
      <4>1. \A j \in 1 .. Len(s.queue) : ~s.queue[j].last
        BY <1>2 DEF ZRight, ZRequests
      <4>2. ~q.request.last
        BY <1>2, <2>2 DEF ZRight, ZRequests
      <4>3. ASSUME NEW j \in 1 .. Len(q.queue), q.queue[j].last
            PROVE  j = Len(q.queue) /\ atEnd /\ q.ending
        <5>1. s.queue \in Seq(ZRequest)
          BY <1>0 DEF ZStream
        <5>2. /\ Len(q.queue) = Len(s.queue) + 1 /\ Len(s.queue) \in Nat
              /\ q.queue[Len(s.queue) + 1] = request
              /\ \A m \in 1 .. Len(s.queue) : q.queue[m] = s.queue[m]
          BY <2>2, <5>1
        <5>3. j \notin 1 .. Len(s.queue)
          BY <4>1, <4>3, <5>2
        <5>4. j = Len(s.queue) + 1
          BY <5>2, <5>3
        <5> QED BY <2>0, <2>2, <4>3, <5>2, <5>4
      <4> QED BY <4>2, <4>3 DEF ZRequests
    <3>2. ZTyped(q, zctx, handler) /\ ZSpace(q, zctx, handler) /\ ZEnds(q, zctx, codec)
      BY <2>2 DEF ZRight, ZTyped, ZSpace, ZEnds
    <3>3. ZControl(q, zctx, handler)
      BY <1>2, <2>2 DEF ZRight, ZControl
    <3> QED BY <3>1, <3>2, <3>3 DEF ZRight
  <2>4. ZGoesOn(q, zctx, handler, codec, atEnd, p, d)
    BY <2>0, <2>1, <2>3, ProcessRight
  <2>5. /\ ZRight(p, d, handler, codec, atEnd) /\ p.offset = zs.offset /\ p.ended = s.ended
        /\ d = zctx \/ (zctx.work = "none" /\ d.work = "queued")
        /\ p \in ZStream
    BY <2>2, <2>4 DEF ZGoesOn, ZRight, ZTyped
  <2>6. PICK u \in BOOLEAN, v \in BOOLEAN :
          z = [p EXCEPT !.needDrain = u, !.ended = v] /\ (v <=> atEnd)
    <3>1. PICK u \in BOOLEAN : u = (p.needDrain \/ s.queue # <<>>)
      OBVIOUS
    <3>2. PICK v \in BOOLEAN : v = (p.ended \/ request.last)
      OBVIOUS
    <3>3. z = [p EXCEPT !.needDrain = u, !.ended = v]
      BY <2>1, <3>1, <3>2
    <3>4. v <=> atEnd
      BY <1>2, <2>0, <2>5, <3>2
    <3> QED BY <3>3, <3>4
  <2>7. SameStream(p, z) /\ z.ending = p.ending /\ FlushCalled(p, z) /\ z.ended = v
    BY <2>5, <2>6 DEF SameStream, ZStream, FlushCalled
  <2>8. ZRight(z, d, handler, codec, v)
    <3>1. atEnd => v
      BY <2>6
    <3>2. p.ending => z.ending
      BY <2>7
    <3>3. v = atEnd
      BY <2>6
    <3> QED BY <2>5, <2>7, <3>1, <3>2, <3>3, StreamStaysRight
  <2>9. ZOutput(z, d, codec, buffers, emitted)
    <3>1. z.offset = zs.offset
      BY <2>5, <2>7 DEF SameStream
    <3> QED BY <1>0, <2>5, <3>1, OutputStays
  <2> QED BY <2>1, <2>7, <2>8, <2>9 DEF ZlibInv
<1> QED BY <1>1, <1>2

\* A buffer is a sequence.
LEMMA BufferIsSeq ==
  ASSUME ZlibConstants, NEW f \in ZBuffer
  PROVE  f \in Seq(Nat) /\ Len(f) = ChunkSize
BY FunctionIsSeq DEF ZBuffer, ZlibConstants

\* Slices of buffers that agree up to their ends.
LEMMA CutIs ==
  ASSUME ZlibConstants, NEW f \in ZBuffer, NEW g \in ZBuffer, NEW m \in Nat, NEW n \in Nat,
         m <= n, n <= ChunkSize, \A j \in 1 .. n : f[j] = g[j]
  PROVE  SubSeq(f, m + 1, n) = SubSeq(g, m + 1, n)
<1>1. f \in Seq(Nat) /\ g \in Seq(Nat) /\ Len(f) = ChunkSize /\ Len(g) = ChunkSize
  BY BufferIsSeq
<1>2. PICK u, v, more : /\ u = SubSeq(f, m + 1, n) /\ v = SubSeq(g, m + 1, n)
                        /\ more = n - m
  OBVIOUS
<1>3. more \in Nat /\ m + more = n
  BY <1>2
<1>4. /\ u \in Seq(Nat) /\ Len(u) = more /\ \A j \in 1 .. more : u[j] = f[m + j]
      /\ v \in Seq(Nat) /\ Len(v) = more /\ \A j \in 1 .. more : v[j] = g[m + j]
  <2>1. PartWithin(f, m, more, m + 1, n) /\ PartWithin(g, m, more, m + 1, n)
    BY <1>1, <1>3 DEF PartWithin
  <2>2. /\ u \in Seq(Nat) /\ IsPart(u, f, m, more)
        /\ v \in Seq(Nat) /\ IsPart(v, g, m, more)
    BY <1>1, <1>2, <2>1, PartIs
  <2> QED BY <2>2 DEF IsPart
<1>5. ASSUME NEW j \in 1 .. more PROVE u[j] = v[j]
  <2>1. m + j \in 1 .. n
    BY <1>3
  <2>2. f[m + j] = g[m + j]
    BY <2>1
  <2>3. u[j] = f[m + j] /\ v[j] = g[m + j]
    BY <1>4
  <2> QED BY <2>2, <2>3
<1>6. u = v
  BY <1>4, <1>5, SeqsEqual
<1> QED BY <1>2, <1>6

\* What is made of the buffer that the thread writes to, and of a new one, leaves the slices.
LEMMA SlicesSame ==
  ASSUME ZlibConstants, NEW b \in Seq(ZBuffer), NEW e \in Seq(ZSlice), NEW off \in Nat,
         \A j \in 1 .. Len(e) : SliceIn(e[j], b, off),
         NEW d \in Seq(ZBuffer), Len(d) >= Len(b), NEW n \in Nat,
         \A m \in 1 .. Len(b) : m # Len(b) => d[m] = b[m],
         Len(b) # 0 => \A j \in 1 .. ChunkSize : j <= off => d[Len(b)][j] = b[Len(b)][j],
         Told(b, e, n)
  PROVE  Told(d, e, n)
<1>1. ASSUME NEW j \in 1 .. Len(e) PROVE Cut(e[j], d) = Cut(e[j], b)
  <2>1. PICK y : y = e[j] /\ y \in ZSlice /\ SliceIn(y, b, off)
    OBVIOUS
  <2>2. PICK f, g : f = b[y.buffer] /\ g = d[y.buffer] /\ f \in ZBuffer /\ g \in ZBuffer
    BY <2>1 DEF SliceIn
  <2>3. y.from \in Nat /\ y.to \in Nat /\ y.to <= ChunkSize /\ y.from <= y.to
    BY <2>1 DEF SliceIn, ZSlice
  <2>4. ASSUME NEW m \in 1 .. y.to PROVE f[m] = g[m]
    <3>1. y.buffer \in 1 .. Len(b) /\ (y.buffer = Len(b) => y.to <= off)
      BY <2>1 DEF SliceIn
    <3>2. CASE y.buffer # Len(b)
      BY <2>2, <3>1, <3>2
    <3>3. CASE y.buffer = Len(b)
      <4>1. m \in 1 .. ChunkSize /\ m <= off
        BY <2>3, <3>1, <3>3 DEF ZlibConstants
      <4>2. Len(b) # 0
        BY <3>1, <3>3
      <4> QED BY <2>2, <3>3, <4>1, <4>2
    <3> QED BY <3>2, <3>3
  <2>5. SubSeq(f, y.from + 1, y.to) = SubSeq(g, y.from + 1, y.to)
    BY <2>2, <2>3, <2>4, CutIs
  <2> QED BY <2>1, <2>2, <2>5 DEF Cut
<1>2. DOMAIN e = 1 .. Len(e)
  OBVIOUS
<1>3. Cuts(d, e) = Cuts(b, e)
  BY <1>1, <1>2 DEF Cuts
<1> QED BY <1>3 DEF Told

\* One more slice.
LEMMA SliceAdded ==
  ASSUME ZlibConstants, NEW b \in Seq(ZBuffer), NEW e \in Seq(ZSlice), NEW off \in Nat,
         \A j \in 1 .. Len(e) : SliceIn(e[j], b, off), NEW n \in Nat, Told(b, e, n),
         NEW y \in ZSlice, NEW more \in Nat, y.buffer \in 1 .. Len(b), y.to = y.from + more,
         y.to <= ChunkSize,
         \A j \in 1 .. more : b[y.buffer][y.from + j] = n + j
  PROVE  Told(b, Append(e, y), n + more)
<1>1. PICK w : w = Append(e, y)
  OBVIOUS
<1>2. /\ w \in Seq(ZSlice)
      /\ Len(w) = Len(e) + 1 /\ Len(e) \in Nat /\ w[Len(e) + 1] = y
      /\ \A j \in 1 .. Len(e) : w[j] = e[j]
  BY <1>1
<1>3. ASSUME NEW j \in 1 .. Len(w) PROVE w[j].buffer \in 1 .. Len(b) /\ w[j] \in ZSlice
  <2>1. CASE j \in 1 .. Len(e)
    BY <1>2, <2>1 DEF SliceIn
  <2>2. CASE j = Len(e) + 1
    BY <1>2, <2>2
  <2> QED BY <1>2, <2>1, <2>2
<1>4. ASSUME NEW j \in 1 .. Len(w) PROVE Cut(w[j], b) \in Seq(Nat)
  <2>1. PICK f : f = b[w[j].buffer] /\ f \in ZBuffer
    BY <1>3
  <2>2. f \in Seq(Nat) /\ Len(f) = ChunkSize
    BY <2>1, BufferIsSeq
  <2>3. PICK m \in Nat, size \in Nat : m = w[j].from /\ m + size = w[j].to
    <3>1. w[j].from \in Nat /\ w[j].to \in Nat /\ w[j].from <= w[j].to
      <4>1. CASE j \in 1 .. Len(e)
        BY <1>2, <4>1 DEF SliceIn, ZSlice
      <4>2. CASE j = Len(e) + 1
        BY <1>2, <4>2 DEF ZSlice
      <4> QED BY <1>2, <4>1, <4>2
    <3>2. w[j].to - w[j].from \in Nat /\ w[j].from + (w[j].to - w[j].from) = w[j].to
      BY <3>1
    <3> QED BY <3>1, <3>2
  <2>4. w[j].to <= ChunkSize
    <3>1. CASE j \in 1 .. Len(e)
      BY <1>2, <3>1 DEF SliceIn
    <3>2. CASE j = Len(e) + 1
      BY <1>2, <3>2
    <3> QED BY <1>2, <3>1, <3>2
  <2>5. SubSeq(f, w[j].from + 1, w[j].to) \in Seq(Nat)
    <3>1. PartWithin(f, m, size, w[j].from + 1, w[j].to)
      BY <2>2, <2>3, <2>4 DEF PartWithin
    <3> QED BY <2>2, <3>1, PartIs
  <2> QED BY <2>1, <2>3, <2>5 DEF Cut
<1> DEFINE p == Cuts(b, e)
           q == Cuts(b, w)
<1>5. /\ p \in Seq(Seq(Nat)) /\ q \in Seq(Seq(Nat)) /\ Len(p) = Len(e) /\ Len(q) = Len(e) + 1
      /\ \A j \in 1 .. Len(p) : q[j] = p[j]
      /\ q[Len(q)] = Cut(y, b)
  <2>1. DOMAIN e = 1 .. Len(e) /\ DOMAIN w = 1 .. Len(w)
    BY <1>1
  <2>2. \A j \in 1 .. Len(e) : e[j] = w[j] /\ j \in 1 .. Len(w)
    BY <1>2
  <2>3. p \in [1 .. Len(e) -> Seq(Nat)] /\ q \in [1 .. Len(w) -> Seq(Nat)]
    BY <1>4, <2>1, <2>2 DEF Cuts
  <2>4. /\ \A j \in 1 .. Len(e) : p[j] = Cut(e[j], b) /\ q[j] = Cut(w[j], b)
        /\ q[Len(w)] = Cut(w[Len(w)], b)
    BY <1>2, <2>1, <2>2 DEF Cuts
  <2> HIDE DEF p, q
  <2>5. p \in Seq(Seq(Nat)) /\ Len(p) = Len(e)
    <3>1. Len(e) \in Nat /\ p \in [1 .. Len(e) -> Seq(Nat)]
      BY <1>2, <2>3
    <3> QED BY <3>1, FunctionIsSeq
  <2>6. q \in Seq(Seq(Nat)) /\ Len(q) = Len(w)
    <3>1. Len(w) \in Nat
      BY <1>2
    <3> QED BY <2>3, <3>1, FunctionIsSeq
  <2> QED BY <1>2, <2>2, <2>4, <2>5, <2>6
<1> HIDE DEF p, q
<1>6. Z!FlattenSeq(q) = Z!FlattenSeq(p) \o Cut(y, b)
  <2>1. /\ p \in Seq(Seq(Nat)) /\ q \in Seq(Seq(Nat)) /\ Len(q) = Len(p) + 1
        /\ \A j \in 1 .. Len(p) : q[j] = p[j]
    BY <1>5
  <2>2. Longer(q, p)
    BY <2>1 DEF Longer
  <2>3. Z!FlattenSeq(q) = Z!FlattenSeq(p) \o q[Len(q)]
    BY <2>1, <2>2, FlattenStep
  <2> QED BY <1>5, <2>3
<1>7. Z!FlattenSeq(p) = UpTo(n)
  BY DEF Told, p
<1>8. PICK v : /\ v = Cut(y, b) /\ v \in Seq(Nat) /\ Len(v) = more
               /\ \A j \in 1 .. more : v[j] = n + j
  <2>1. PICK f : f = b[y.buffer] /\ f \in ZBuffer
    OBVIOUS
  <2>2. f \in Seq(Nat) /\ Len(f) = ChunkSize
    BY <2>1, BufferIsSeq
  <2>3. PICK m \in Nat : m = y.from
    BY DEF ZSlice
  <2>5. PICK v : v = SubSeq(f, y.from + 1, y.to)
    OBVIOUS
  <2>6. PartWithin(f, m, more, y.from + 1, y.to)
    BY <2>2, <2>3 DEF PartWithin
  <2>7. v \in Seq(Nat) /\ IsPart(v, f, m, more)
    BY <2>2, <2>5, <2>6, PartIs
  <2>4. v \in Seq(Nat) /\ Len(v) = more /\ \A j \in 1 .. more : v[j] = f[m + j]
    BY <2>7 DEF IsPart
  <2>8. v = Cut(y, b)
    BY <2>1, <2>5 DEF Cut
  <2>9. \A j \in 1 .. more : v[j] = n + j
    BY <2>1, <2>3, <2>4
  <2> QED BY <2>4, <2>8, <2>9
<1>9. UpTo(n) \o v = UpTo(n + more)
  BY <1>8, UpToFurther
<1> QED BY <1>1, <1>6, <1>7, <1>8, <1>9 DEF Told, q

\* What the script calls.
LEMMA ZCallsRight ==
  ASSUME ZlibConstants, ZlibInv,
         Z!ZWrite \/ Z!ZEnd \/ Z!ZFlush \/ Z!ZPause \/ Z!ZResume \/ Z!ZDestroy
  PROVE  ZlibInv'
<1>0. /\ ZRight(zs, zctx, handler, codec, zs.ended)
      /\ ZOutput(zs, zctx, codec, buffers, emitted)
      /\ zs \in ZStream /\ zs.ended \in BOOLEAN
  BY DEF ZlibInv, ZRight, ZTyped, ZStream
<1>1. CASE Z!ZWrite
  <2>1. PICK n \in Sizes : Z!Enqueue(zs, [n |-> n, last |-> FALSE])
    BY <1>1 DEF Z!ZWrite
  <2>2. PICK q : q = [n |-> n, last |-> FALSE]
    OBVIOUS
  <2>3. q \in ZRequest /\ ~q.last /\ Z!Enqueue(zs, q)
    BY <2>1, <2>2 DEF ZRequest, ZlibConstants
  <2>4. UNCHANGED <<codec, buffers, emitted, handler>>
    BY <1>1 DEF Z!ZWrite
  <2> QED BY <1>0, <2>3, <2>4, EnqueueRight
<1>2. CASE Z!ZEnd
  <2>0. PICK s : s = [zs EXCEPT !.ending = TRUE]
    OBVIOUS
  <2>1. PICK n \in Sizes \cup {0} : Z!Enqueue(s, [n |-> n, last |-> TRUE])
    BY <1>2, <2>0 DEF Z!ZEnd
  <2>2. PICK q : q = [n |-> n, last |-> TRUE]
    OBVIOUS
  <2>3. q \in ZRequest /\ Z!Enqueue(s, q)
    BY <2>1, <2>2 DEF ZRequest, ZlibConstants
  <2>4. UNCHANGED <<codec, buffers, emitted, handler>>
    BY <1>2 DEF Z!ZEnd
  <2>5. /\ SameStream(zs, s) /\ s.ending /\ FlushCalled(zs, s) /\ s.ended = zs.ended
        /\ s.offset = zs.offset
    BY <1>0, <2>0 DEF SameStream, ZStream, FlushCalled
  <2>6. ZRight(s, zctx, handler, codec, zs.ended)
    BY <1>0, <2>5, StreamStaysRight
  <2> QED BY <2>3, <2>4, <2>5, <2>6, EnqueueRight
<1>3. CASE Z!ZFlush
  <2>3. PICK late \in BOOLEAN : late = (zs.late \/ (zs.processing /\ zs.request.last))
    OBVIOUS
  <2>0. PICK s : s = [zs EXCEPT !.flush = "sync", !.late = late]
    OBVIOUS
  <2>1. Z!Enqueue(s, Z!NoRequest)
    BY <1>3, <2>0, <2>3 DEF Z!ZFlush, Z!Finishing
  <2>2. Z!NoRequest \in ZRequest /\ ~Z!NoRequest.last
    BY DEF Z!NoRequest, ZRequest
  <2>4. UNCHANGED <<codec, buffers, emitted, handler>>
    BY <1>3 DEF Z!ZFlush
  <2>5. /\ SameStream(zs, s) /\ s.ending = zs.ending /\ s.ended = zs.ended
        /\ s.offset = zs.offset /\ s.flush = "sync" /\ s.late = late
    BY <1>0, <2>0 DEF SameStream, ZStream, Z!Flushes
  <2>7. FlushCalled(zs, s)
    BY <2>3, <2>5 DEF FlushCalled
  <2>6. ZRight(s, zctx, handler, codec, zs.ended)
    BY <1>0, <2>5, <2>7, StreamStaysRight
  <2> QED BY <2>1, <2>2, <2>4, <2>5, <2>6, EnqueueRight
<1>4. CASE Z!ZPause \/ Z!ZDestroy
  <2>0. UNCHANGED <<zctx, codec, buffers, emitted, handler>>
    BY <1>4 DEF Z!ZPause, Z!ZDestroy
  <2>1. PICK s : s = zs'
    OBVIOUS
  <2>2. /\ SameStream(zs, s) /\ s.ending = zs.ending /\ FlushCalled(zs, s)
        /\ s.offset = zs.offset /\ (zs.ended => s.ended)
    <3>1. s = [zs EXCEPT !.paused = TRUE] \/ s = [zs EXCEPT !.ended = TRUE]
      BY <1>4, <2>1 DEF Z!ZPause, Z!ZDestroy
    <3> QED BY <1>0, <3>1 DEF SameStream, ZStream, FlushCalled
  <2>3. ZRight(s, zctx, handler, codec, s.ended)
    BY <1>0, <2>2, StreamStaysRight
  <2>4. ZOutput(s, zctx, codec, buffers, emitted)
    BY <1>0, <2>2, OutputStays
  <2> QED BY <2>0, <2>1, <2>3, <2>4 DEF ZlibInv
<1>5. CASE Z!ZResume
  <2>0. PICK s : s = [zs EXCEPT !.paused = FALSE]
    OBVIOUS
  <2>1. PICK p : p = Z!Process(s, zctx)
    OBVIOUS
  <2>2. /\ zs' = p.s /\ zctx' = p.c /\ UNCHANGED <<codec, buffers, emitted, handler>>
    BY <1>5, <2>0, <2>1 DEF Z!ZResume, Z!Continue
  <2>3. /\ SameStream(zs, s) /\ s.ending = zs.ending /\ FlushCalled(zs, s)
        /\ s.offset = zs.offset /\ s.ended = zs.ended
    BY <1>0, <2>0 DEF SameStream, ZStream, FlushCalled
  <2>4. ZRight(s, zctx, handler, codec, zs.ended)
    BY <1>0, <2>3, StreamStaysRight
  <2>5. ZGoesOn(s, zctx, handler, codec, zs.ended, p.s, p.c)
    BY <1>0, <2>1, <2>4, ProcessRight
  <2>6. /\ ZRight(p.s, p.c, handler, codec, zs.ended) /\ p.s.offset = zs.offset
        /\ p.s.ended = zs.ended
        /\ p.c = zctx \/ (zctx.work = "none" /\ p.c.work = "queued")
    BY <2>3, <2>5 DEF ZGoesOn
  <2>7. ZOutput(p.s, p.c, codec, buffers, emitted)
    BY <1>0, <2>6, OutputStays
  <2> QED BY <2>2, <2>6, <2>7 DEF ZlibInv
<1> QED BY <1>1, <1>2, <1>3, <1>4, <1>5

\* The thread.
LEMMA ZThreadRight ==
  ASSUME ZlibConstants, ZlibInv, Z!ThreadProcess
  PROVE  ZlibInv'
<1>0. /\ ZTyped(zs, zctx, handler) /\ ZControl(zs, zctx, handler)
      /\ ZRequests(zs, zctx, zs.ended) /\ ZSpace(zs, zctx, handler)
      /\ ZFinish(zctx, codec, handler) /\ ZEnds(zs, zctx, codec)
      /\ ZOutput(zs, zctx, codec, buffers, emitted)
      /\ zs \in ZStream /\ zctx \in ZContext
  BY DEF ZlibInv, ZRight, ZTyped
<1>1. zctx.work = "queued" /\ UNCHANGED <<zs, emitted, handler>>
  BY DEF Z!ThreadProcess
<1>2. /\ zctx.from = zs.offset /\ zctx.availOut = ChunkSize - zs.offset /\ handler # "data"
      /\ ~zctx.err /\ zs.processing /\ ~zs.done /\ zs.offset \in Nat /\ zs.offset < ChunkSize
      /\ zctx.availIn \in Nat
  BY <1>0, <1>1 DEF ZSpace, ZControl, ZEnds, ZStream, ZContext
<1>3. /\ codec \in ZCodec /\ buffers \in Seq(ZBuffer) /\ Len(buffers) # 0
      /\ emitted \in Seq(ZSlice)
      /\ \A j \in 1 .. Len(emitted) : SliceIn(emitted[j], buffers, zs.offset)
      /\ Told(buffers, emitted, codec.made)
      /\ codec.made \in Nat /\ codec.fed \in Nat /\ codec.made <= codec.fed + 1
  BY <1>0, <1>1 DEF ZOutput, ZPending, ZCodec, ZFinish
<1>4. CASE Z!Deflate
  <2>0. PICK k \in 0 .. zctx.availIn, e \in 0 .. zctx.availOut :
          LET fed   == codec.fed + k
              whole == IF zctx.flush = "finish" /\ k = zctx.availIn THEN fed + 1 ELSE fed
              made  == codec.made + e
          IN  /\ made <= whole \/ e = 0
              /\ e = zctx.availOut \/
                   (k = zctx.availIn /\ (zctx.flush = "none" \/ made >= whole))
              /\ codec' = [fed |-> fed, made |-> made]
              /\ buffers' = [buffers EXCEPT ![Len(buffers)] =
                   [x \in 1 .. ChunkSize |->
                      IF x \in zctx.from + 1 .. zctx.from + e
                      THEN codec.made + x - zctx.from ELSE buffers[Len(buffers)][x]]]
              /\ zctx' = [zctx EXCEPT !.work = "done", !.availIn = zctx.availIn - k,
                                      !.availOut = zctx.availOut - e]
    BY <1>4 DEF Z!Deflate
  <2>14. PICK whole \in Nat :
          whole = IF zctx.flush = "finish" /\ k = zctx.availIn THEN codec.fed + k + 1
                  ELSE codec.fed + k
    BY <1>2, <1>3
  <2>15. PICK piece : piece = [x \in 1 .. ChunkSize |->
                                IF x \in zctx.from + 1 .. zctx.from + e
                                THEN codec.made + x - zctx.from ELSE buffers[Len(buffers)][x]]
    OBVIOUS
  <2>1. PICK d :
          /\ codec.made + e <= whole \/ e = 0
          /\ e = zctx.availOut \/
               (k = zctx.availIn /\ (zctx.flush = "none" \/ codec.made + e >= whole))
          /\ codec' = [fed |-> codec.fed + k, made |-> codec.made + e]
          /\ buffers' = [buffers EXCEPT ![Len(buffers)] = piece]
          /\ d = zctx'
          /\ d = [zctx EXCEPT !.work = "done", !.availIn = zctx.availIn - k,
                              !.availOut = zctx.availOut - e]
    BY <2>0, <2>14, <2>15
  <2>2. PICK f : f = buffers[Len(buffers)] /\ f \in ZBuffer
    BY <1>3
  <2>3. /\ piece \in ZBuffer
        /\ \A j \in 1 .. ChunkSize : j <= zs.offset => piece[j] = f[j]
        /\ \A j \in 1 .. e : piece[zs.offset + j] = codec.made + j
    <3>1. zctx.from = zs.offset /\ zctx.availOut = ChunkSize - zs.offset /\ zs.offset \in Nat
      BY <1>2
    <3>2. zs.offset + e <= ChunkSize /\ e \in Nat
      <4>1. e \in 0 .. ChunkSize - zs.offset
        BY <2>0, <3>1
      <4>2. ChunkSize \in Nat
        BY DEF ZlibConstants
      <4> QED BY <3>1, <4>1, <4>2
    <3>4. ASSUME NEW x \in 1 .. ChunkSize
          PROVE  (IF x \in zctx.from + 1 .. zctx.from + e
                  THEN codec.made + x - zctx.from ELSE buffers[Len(buffers)][x]) \in Nat
      <4>1. buffers[Len(buffers)][x] \in Nat
        BY <2>2 DEF ZBuffer
      <4>2. CASE x \in zctx.from + 1 .. zctx.from + e
        <5>1. codec.made \in Nat /\ zctx.from \in Nat /\ e \in Nat
          BY <1>3, <3>1, <3>2
        <5>2. codec.made + x - zctx.from \in Nat
          BY <4>2, <5>1
        <5> QED BY <4>2, <5>2
      <4>3. CASE ~(x \in zctx.from + 1 .. zctx.from + e)
        BY <4>1, <4>3
      <4> QED BY <4>2, <4>3
    <3>5. piece \in ZBuffer
      BY <2>15, <3>4 DEF ZBuffer
    <3>6. \A j \in 1 .. ChunkSize : j <= zs.offset => piece[j] = f[j]
      BY <2>15, <2>2, <3>1
    <3>7. ASSUME NEW j \in 1 .. e PROVE piece[zs.offset + j] = codec.made + j
      <4>1. zs.offset + j \in 1 .. ChunkSize /\ zs.offset + j \in zs.offset + 1 .. zs.offset + e
        BY <3>1, <3>2 DEF ZlibConstants
      <4>2. piece[zs.offset + j] = codec.made + (zs.offset + j) - zs.offset
        BY <2>15, <3>1, <4>1
      <4> QED BY <1>2, <1>3, <4>2
    <3> QED BY <3>5, <3>6, <3>7
  <2>4. /\ buffers' \in Seq(ZBuffer) /\ Len(buffers') = Len(buffers)
        /\ buffers'[Len(buffers)] = piece
        /\ \A m \in 1 .. Len(buffers) : m # Len(buffers) => buffers'[m] = buffers[m]
    <3>1. buffers \in Seq(ZBuffer) /\ Len(buffers) \in 1 .. Len(buffers)
      BY <1>3
    <3>2. buffers' = [buffers EXCEPT ![Len(buffers)] = piece]
      BY <2>1
    <3> QED BY <2>3, <3>1, <3>2
  <2>5. /\ d \in ZContext /\ d.work = "done" /\ d.flush = zctx.flush /\ d.from = zs.offset
        /\ d.availOut = ChunkSize - zs.offset - e /\ ~d.err /\ d.refs = zctx.refs
        /\ d.inProgress = zctx.inProgress /\ e \in Nat /\ d.availIn = zctx.availIn - k
    <3>1. zctx.availIn - k \in Nat /\ zctx.availOut - e \in 0 .. ChunkSize
      BY <1>2, <2>1 DEF ZlibConstants
    <3>2. d = [zctx EXCEPT !.work = "done", !.availIn = zctx.availIn - k,
                           !.availOut = zctx.availOut - e]
      BY <2>1
    <3>3. zctx \in ZContext /\ zctx.from = zs.offset /\ ~zctx.err
          /\ zctx.availOut = ChunkSize - zs.offset /\ e \in Nat
      BY <1>0, <1>2
    <3>4. d \in ZContext
      BY <3>1, <3>2, <3>3 DEF ZContext
    <3>5. /\ d.work = "done" /\ d.flush = zctx.flush /\ d.from = zctx.from
          /\ d.availOut = zctx.availOut - e /\ d.err = zctx.err /\ d.refs = zctx.refs
          /\ d.inProgress = zctx.inProgress /\ d.availIn = zctx.availIn - k
      BY <3>2, <3>3 DEF ZContext
    <3> QED BY <3>3, <3>4, <3>5
  <2>6. codec' \in ZCodec /\ codec'.made = codec.made + e /\ codec'.fed = codec.fed + k
    BY <1>3, <2>1 DEF ZCodec
  <2>7. ZTyped(zs, d, handler) /\ ZControl(zs, d, handler) /\ ZSpace(zs, d, handler)
    <3>1. ZTyped(zs, d, handler)
      BY <1>0, <2>5 DEF ZTyped
    <3>2. ZControl(zs, d, handler)
      BY <1>0, <1>1, <2>5 DEF ZControl
    <3>3. ZSpace(zs, d, handler)
      BY <1>2, <2>5 DEF ZSpace, ZlibConstants
    <3> QED BY <3>1, <3>2, <3>3
  <2>8. ZRequests(zs, d, zs.ended) /\ ZEnds(zs, d, codec')
    BY <1>0, <1>2, <2>5 DEF ZRequests, ZEnds
  <2>9. ZFinish(d, codec', handler)
    <3>1. codec'.made <= codec'.fed + 1
      BY <1>2, <1>3, <2>1, <2>6, <2>14
    <3>2. ASSUME d.flush # "none", d.availOut # 0
          PROVE  /\ d.availIn = 0 /\ codec'.made >= codec'.fed
                 /\ d.flush = "finish" => codec'.made = codec'.fed + 1
      <4>1. e # zctx.availOut
        BY <1>2, <2>5, <3>2
      <4>2. k = zctx.availIn /\ codec.made + e >= whole
        BY <2>1, <2>5, <3>2, <4>1
      <4>3. d.availIn = 0
        BY <1>2, <2>5, <4>2
      <4>4. /\ whole >= codec.fed + k
            /\ d.flush = "finish" => whole = codec.fed + k + 1
        BY <1>2, <1>3, <2>5, <2>14, <4>2
      <4> QED BY <1>2, <1>3, <2>6, <3>1, <4>2, <4>3, <4>4
    <3> QED BY <1>2, <2>5, <3>1, <3>2 DEF ZFinish
  <2>10. ZHave(zs, d) = e
    BY <1>2, <2>5 DEF ZHave, ZlibConstants
  <2>11. Told(buffers', emitted, codec.made)
    <3>1. \A j \in 1 .. ChunkSize :
            j <= zs.offset => buffers'[Len(buffers)][j] = buffers[Len(buffers)][j]
      BY <2>2, <2>3, <2>4
    <3>2. Len(buffers') >= Len(buffers)
      BY <2>4
    <3> QED BY <1>2, <1>3, <2>4, <3>1, <3>2, SlicesSame
  <2>12. ZOutput(zs, d, codec', buffers', emitted)
    <3>1. \A j \in 1 .. Len(emitted) : SliceIn(emitted[j], buffers', zs.offset)
      BY <1>3, <2>4 DEF SliceIn
    <3>2. ZPending(zs, d) = e /\ codec'.made - e = codec.made
      BY <1>3, <2>5, <2>6, <2>10 DEF ZPending
    <3>3. \A j \in 1 .. ZHave(zs, d) :
            buffers'[Len(buffers')][zs.offset + j] = codec'.made - ZHave(zs, d) + j
      BY <2>3, <2>4, <2>10, <3>2
    <3> QED BY <1>3, <2>4, <2>6, <2>11, <3>1, <3>2, <3>3 DEF ZOutput
  <2> QED BY <1>1, <2>1, <2>7, <2>8, <2>9, <2>12 DEF ZlibInv, ZRight
<1>5. CASE Z!DeflateFails
  <2>1. PICK d : d = zctx' /\ d = [zctx EXCEPT !.work = "done", !.err = TRUE]
    BY <1>5 DEF Z!DeflateFails
  <2>2. UNCHANGED <<codec, buffers>>
    BY <1>5 DEF Z!DeflateFails
  <2>3. /\ d \in ZContext /\ d.work = "done" /\ d.flush = zctx.flush /\ d.from = zctx.from
        /\ d.availOut = zctx.availOut /\ d.err /\ d.refs = zctx.refs
        /\ d.inProgress = zctx.inProgress
    BY <1>0, <2>1 DEF ZContext
  <2>4. ZTyped(zs, d, handler) /\ ZControl(zs, d, handler) /\ ZSpace(zs, d, handler)
    <3>1. ZTyped(zs, d, handler)
      BY <1>0, <2>3 DEF ZTyped
    <3>2. ZControl(zs, d, handler)
      BY <1>0, <1>1, <2>3 DEF ZControl
    <3>3. ZSpace(zs, d, handler)
      BY <1>2, <2>3 DEF ZSpace, ZlibConstants
    <3> QED BY <3>1, <3>2, <3>3
  <2>5. ZRequests(zs, d, zs.ended) /\ ZFinish(d, codec, handler)
    BY <1>0, <1>2, <2>3 DEF ZRequests, ZFinish
  <2>6. ZHave(zs, d) = 0
    BY <1>2, <2>3 DEF ZHave, ZlibConstants
  <2>7. ZOutput(zs, d, codec, buffers, emitted)
    <3>1. ZPending(zs, d) = 0 /\ codec.made - 0 = codec.made
      BY <1>3, <2>6 DEF ZPending
    <3>2. \A j \in 1 .. ZHave(zs, d) : FALSE
      BY <2>6
    <3> QED BY <1>3, <3>1, <3>2 DEF ZOutput
  <2>8. ZEnds(zs, d, codec)
    BY <1>2 DEF ZEnds
  <2> QED BY <1>0, <1>1, <2>1, <2>2, <2>4, <2>5, <2>7, <2>8 DEF ZlibInv, ZRight
<1> QED BY <1>4, <1>5 DEF Z!ThreadProcess

\* The loop, when the thread has met an error.
LEMMA ZAfterErrorRight ==
  ASSUME ZlibConstants, ZlibInv, Z!AfterError
  PROVE  ZlibInv'
<1>0. /\ ZTyped(zs, zctx, handler) /\ ZControl(zs, zctx, handler)
      /\ ZRequests(zs, zctx, zs.ended) /\ ZSpace(zs, zctx, handler)
      /\ ZFinish(zctx, codec, handler) /\ ZEnds(zs, zctx, codec)
      /\ ZOutput(zs, zctx, codec, buffers, emitted)
      /\ zs \in ZStream /\ zctx \in ZContext
  BY DEF ZlibInv, ZRight, ZTyped
<1>1. /\ handler = "none" /\ zctx.work = "done" /\ zctx.err
      /\ UNCHANGED <<codec, buffers, emitted, handler>>
  BY DEF Z!AfterError
<1>2. PICK s, c : /\ s = zs' /\ c = zctx'
                  /\ s = [zs EXCEPT !.hadError = TRUE, !.queue = <<>>, !.processing = FALSE]
                  /\ c = [zctx EXCEPT !.work = "none", !.refs = zctx.refs - 1]
  BY DEF Z!AfterError
<1>3. /\ zctx.refs = 1 /\ zctx.inProgress /\ zctx.availOut = ChunkSize - zs.offset
      /\ zs.offset < ChunkSize /\ zs.processing /\ ~zs.done
  BY <1>0, <1>1 DEF ZControl, ZSpace, ZEnds
<1>4. /\ s \in ZStream /\ s.hadError /\ s.queue = <<>> /\ ~s.processing
      /\ s.request = zs.request /\ s.offset = zs.offset /\ s.flush = zs.flush
      /\ s.ended = zs.ended /\ ~s.done /\ s.late = zs.late
  <2>1. <<>> \in Seq(ZRequest)
    OBVIOUS
  <2>2. /\ zs \in ZStream /\ ~zs.done
        /\ s = [zs EXCEPT !.hadError = TRUE, !.queue = <<>>, !.processing = FALSE]
    BY <1>0, <1>2, <1>3
  <2>3. s \in ZStream
    BY <2>1, <2>2 DEF ZStream
  <2> QED BY <2>2, <2>3 DEF ZStream
<1>5. c \in ZContext /\ c.work = "none" /\ c.refs = 0 /\ c.inProgress
  <2>1. c = [zctx EXCEPT !.work = "none", !.refs = 0] /\ zctx \in ZContext /\ zctx.inProgress
    BY <1>0, <1>2, <1>3
  <2> QED BY <2>1 DEF ZContext
<1>6. ZTyped(s, c, handler) /\ ZControl(s, c, handler) /\ ZSpace(s, c, handler)
  BY <1>0, <1>1, <1>3, <1>4, <1>5 DEF ZTyped, ZControl, ZSpace
<1>7. ZRequests(s, c, s.ended) /\ ZFinish(c, codec, handler) /\ ZEnds(s, c, codec)
  BY <1>0, <1>1, <1>4, <1>5 DEF ZRequests, ZFinish, ZEnds
<1>8. ZOutput(s, c, codec, buffers, emitted)
  <2>1. ZPending(zs, zctx) = 0 /\ ZPending(s, c) = 0
    <3>1. zs.offset \in Nat
      BY <1>0 DEF ZStream
    <3> QED BY <1>1, <1>3, <1>5, <3>1 DEF ZPending, ZHave, ZlibConstants
  <2> QED BY <1>0, <1>4, <1>5, <2>1 DEF ZOutput
<1> QED BY <1>1, <1>2, <1>6, <1>7, <1>8 DEF ZlibInv, ZRight

\* The loop: what was made is emitted.
LEMMA ZAfterRight ==
  ASSUME ZlibConstants, ZlibInv, Z!After
  PROVE  ZlibInv'
<1>0. /\ ZTyped(zs, zctx, handler) /\ ZControl(zs, zctx, handler)
      /\ ZRequests(zs, zctx, zs.ended) /\ ZSpace(zs, zctx, handler)
      /\ ZFinish(zctx, codec, handler) /\ ZEnds(zs, zctx, codec)
      /\ ZOutput(zs, zctx, codec, buffers, emitted)
      /\ zs \in ZStream /\ zctx \in ZContext
  BY DEF ZlibInv, ZRight, ZTyped
<1>1. /\ handler = "none" /\ zctx.work = "done" /\ ~zctx.err /\ handler' = "data"
      /\ UNCHANGED <<codec, buffers>>
  BY DEF Z!After
<1>2. PICK s, c, h, have :
          /\ s = zs' /\ c = zctx' /\ h = handler' /\ have = (ChunkSize - zs.offset) - zctx.availOut
          /\ c = [zctx EXCEPT !.work = "none", !.inProgress = FALSE]
          /\ s = [zs EXCEPT !.offset = zs.offset + have]
          /\ emitted' = IF have > 0
                        THEN Append(emitted, [buffer |-> Len(buffers), from |-> zs.offset,
                                              to |-> zs.offset + have])
                        ELSE emitted
  BY DEF Z!After
<1>3. /\ zctx.refs = 1 /\ zs.processing /\ ~zs.hadError /\ ~zs.done
      /\ zctx.availOut <= ChunkSize - zs.offset
      /\ zs.offset \in Nat /\ zctx.availOut \in Nat
  BY <1>0, <1>1 DEF ZControl, ZSpace, ZEnds, ZStream, ZContext
<1>4. /\ have \in Nat /\ zs.offset + have \in 0 .. ChunkSize
      /\ zctx.availOut = ChunkSize - (zs.offset + have)
      /\ have = ZHave(zs, zctx)
  BY <1>2, <1>3 DEF ZHave, ZlibConstants
<1>5. /\ s \in ZStream /\ s.offset = zs.offset + have /\ s.queue = zs.queue /\ s.processing
      /\ s.request = zs.request /\ ~s.hadError /\ s.flush = zs.flush /\ s.ended = zs.ended
      /\ ~s.done /\ s.ending = zs.ending /\ s.late = zs.late
  BY <1>0, <1>2, <1>3, <1>4 DEF ZStream
<1>6. /\ c \in ZContext /\ c.work = "none" /\ c.refs = 1 /\ ~c.inProgress /\ ~c.err
      /\ c.availOut = zctx.availOut /\ c.flush = zctx.flush /\ c.availIn = zctx.availIn
  BY <1>0, <1>1, <1>2, <1>3 DEF ZContext
<1>7. ZTyped(s, c, h) /\ ZControl(s, c, h) /\ ZSpace(s, c, h)
  BY <1>1, <1>2, <1>4, <1>5, <1>6 DEF ZTyped, ZControl, ZSpace
<1>8. ZRequests(s, c, s.ended) /\ ZFinish(c, codec, h) /\ ZEnds(s, c, codec)
  BY <1>0, <1>1, <1>2, <1>5, <1>6 DEF ZRequests, ZFinish, ZEnds
<1>9. /\ codec \in ZCodec /\ codec.made \in Nat /\ buffers \in Seq(ZBuffer)
      /\ Len(buffers) # 0 /\ Len(buffers) \in Nat /\ emitted \in Seq(ZSlice)
      /\ \A j \in 1 .. Len(emitted) : SliceIn(emitted[j], buffers, zs.offset)
      /\ codec.made - have \in Nat /\ Told(buffers, emitted, codec.made - have)
      /\ \A j \in 1 .. have : buffers[Len(buffers)][zs.offset + j] = codec.made - have + j
  BY <1>0, <1>1, <1>4 DEF ZOutput, ZPending, ZCodec
<1>10. ZPending(s, c) = 0 /\ codec.made - 0 = codec.made
  BY <1>6, <1>9 DEF ZPending
<1>11. ASSUME NEW x, SliceIn(x, buffers, zs.offset) PROVE SliceIn(x, buffers, s.offset)
  <2>1. x \in ZSlice /\ x.to \in Nat
    BY <1>11 DEF SliceIn, ZSlice
  <2> QED BY <1>3, <1>4, <1>5, <1>11, <2>1 DEF SliceIn
<1>12. CASE have = 0
  <2>1. emitted' = emitted /\ codec.made - have = codec.made
    BY <1>2, <1>9, <1>12
  <2>2. \A j \in 1 .. Len(emitted') : SliceIn(emitted'[j], buffers, s.offset)
    BY <1>9, <1>11, <2>1
  <2>3. ZOutput(s, c, codec, buffers, emitted')
    BY <1>6, <1>9, <1>10, <2>1, <2>2 DEF ZOutput
  <2> QED BY <1>1, <1>2, <1>7, <1>8, <2>3 DEF ZlibInv, ZRight
<1>13. CASE have # 0
  <2>1. PICK y : y = [buffer |-> Len(buffers), from |-> zs.offset, to |-> zs.offset + have]
    OBVIOUS
  <2>2. /\ y \in ZSlice /\ y.buffer = Len(buffers) /\ y.from = zs.offset
        /\ y.to = zs.offset + have
    BY <1>3, <1>4, <1>9, <2>1 DEF ZSlice
  <2>3. emitted' = Append(emitted, y)
    BY <1>2, <1>4, <1>13, <2>1
  <2>4. PICK n \in Nat : n = codec.made - have
    BY <1>9
  <2>5. Told(buffers, emitted', n + have)
    <3>1. y.buffer \in 1 .. Len(buffers) /\ y.to = y.from + have /\ y.to <= ChunkSize
      BY <1>4, <1>9, <2>2 DEF ZlibConstants
    <3>2. \A j \in 1 .. have : buffers[y.buffer][y.from + j] = n + j
      BY <1>9, <2>2, <2>4
    <3>3. Told(buffers, Append(emitted, y), n + have)
      BY <1>3, <1>4, <1>9, <2>2, <2>4, <3>1, <3>2, SliceAdded
    <3> QED BY <2>3, <3>3
  <2>6. n + have = codec.made
    BY <1>4, <1>9, <2>4
  <2>7. /\ emitted' \in Seq(ZSlice) /\ Len(emitted') = Len(emitted) + 1
        /\ Len(emitted) \in Nat
        /\ emitted'[Len(emitted) + 1] = y
        /\ \A j \in 1 .. Len(emitted) : emitted'[j] = emitted[j]
    BY <1>9, <2>2, <2>3
  <2>8. ASSUME NEW j \in 1 .. Len(emitted') PROVE SliceIn(emitted'[j], buffers, s.offset)
    <3>1. CASE j \in 1 .. Len(emitted)
      <4>1. SliceIn(emitted[j], buffers, zs.offset)
        BY <1>9, <3>1
      <4>2. SliceIn(emitted[j], buffers, s.offset)
        BY <1>11, <4>1
      <4>3. emitted'[j] = emitted[j]
        BY <2>7, <3>1
      <4> QED BY <4>2, <4>3
    <3>2. CASE j = Len(emitted) + 1
      <4>1. Len(buffers) \in 1 .. Len(buffers)
        BY <1>9
      <4>2. zs.offset <= zs.offset + have /\ zs.offset + have <= ChunkSize
        BY <1>3, <1>4 DEF ZlibConstants
      <4>3. /\ y.buffer \in 1 .. Len(buffers) /\ y.from <= y.to /\ y.to <= ChunkSize
            /\ y.to <= s.offset
        <5>1. y.to = s.offset /\ s.offset <= s.offset
          BY <1>3, <1>4, <1>5, <2>2
        <5> QED BY <2>2, <4>1, <4>2, <5>1
      <4>4. SliceIn(y, buffers, s.offset)
        BY <2>2, <4>3 DEF SliceIn
      <4> QED BY <2>7, <3>2, <4>4
    <3> QED BY <2>7, <3>1, <3>2
  <2>9. ZOutput(s, c, codec, buffers, emitted')
    BY <1>6, <1>9, <1>10, <2>5, <2>6, <2>7, <2>8 DEF ZOutput
  <2> QED BY <1>1, <1>2, <1>7, <1>8, <2>9 DEF ZlibInv, ZRight
<1> QED BY <1>12, <1>13

\* The listeners return: the rest of the chunk, or its callback.
LEMMA ZDataRight ==
  ASSUME ZlibConstants, ZlibInv, Z!DataReturns
  PROVE  ZlibInv'
<1>0. /\ ZTyped(zs, zctx, handler) /\ ZControl(zs, zctx, handler)
      /\ ZRequests(zs, zctx, zs.ended) /\ ZSpace(zs, zctx, handler)
      /\ ZFinish(zctx, codec, handler) /\ ZEnds(zs, zctx, codec)
      /\ ZOutput(zs, zctx, codec, buffers, emitted)
      /\ zs \in ZStream /\ zctx \in ZContext
  BY DEF ZlibInv, ZRight, ZTyped
<1>1. handler = "data" /\ UNCHANGED <<codec, emitted>>
  BY DEF Z!DataReturns
<1>2. /\ zctx.work = "none" /\ zctx.refs = 1 /\ zs.processing /\ ~zs.hadError /\ ~zs.done
      /\ ~zctx.inProgress /\ ~zctx.err /\ zctx.availOut = ChunkSize - zs.offset
      /\ zs.offset \in 0 .. ChunkSize /\ zctx.availIn \in Nat
  BY <1>0, <1>1 DEF ZControl, ZSpace, ZEnds, ZStream, ZContext
<1>3. /\ codec \in ZCodec /\ codec.made \in Nat /\ buffers \in Seq(ZBuffer)
      /\ Len(buffers) # 0 /\ Len(buffers) \in Nat /\ emitted \in Seq(ZSlice)
      /\ \A j \in 1 .. Len(emitted) : SliceIn(emitted[j], buffers, zs.offset)
      /\ codec.made - 0 = codec.made /\ Told(buffers, emitted, codec.made)
  BY <1>0, <1>2 DEF ZOutput, ZPending, ZCodec
<1>4. CASE Z!FullPiece
  <2>1. zs.offset = ChunkSize /\ 0 \in 0 .. ChunkSize /\ ChunkSize \in 0 .. ChunkSize
        /\ 0 < ChunkSize
    BY <1>2, <1>4 DEF Z!FullPiece, ZlibConstants
  <2>2. PICK s, c, b, d :
          /\ s = zs' /\ c = zctx' /\ b = buffers' /\ handler' = "none"
          /\ s = [zs EXCEPT !.offset = 0]
          /\ d = [zctx EXCEPT !.inProgress = TRUE, !.work = "queued", !.flush = zs.flush,
                              !.availIn = zctx.availIn, !.from = 0, !.availOut = ChunkSize,
                              !.refs = zctx.refs + 1]
          /\ c = [d EXCEPT !.refs = d.refs - 1]
          /\ b = Append(buffers, Z!Blank)
    BY <1>4 DEF Z!DataReturns, Z!CtxWrite, Z!Renewed
  <2>3. /\ s \in ZStream /\ s.offset = 0 /\ s.queue = zs.queue /\ s.processing
        /\ s.request = zs.request /\ ~s.hadError /\ s.flush = zs.flush /\ s.ended = zs.ended
        /\ ~s.done /\ s.ending = zs.ending /\ s.late = zs.late
    <3>1. /\ s = [zs EXCEPT !.offset = 0] /\ zs \in ZStream /\ 0 \in 0 .. ChunkSize
          /\ zs.processing /\ ~zs.hadError /\ ~zs.done
      BY <1>0, <1>2, <2>1, <2>2
    <3> QED BY <3>1 DEF ZStream
  <2>4. zs.flush \in Z!Flushes
    BY <1>0 DEF ZStream
  <2>5. d \in ZContext /\ d.refs = 2 /\ d.inProgress /\ d.work = "queued" /\ d.from = 0
        /\ d.flush = zs.flush /\ d.availOut = ChunkSize /\ ~d.err
    <3>1. d = [zctx EXCEPT !.inProgress = TRUE, !.work = "queued", !.flush = zs.flush,
                           !.availIn = zctx.availIn, !.from = 0, !.availOut = ChunkSize,
                           !.refs = 2]
      BY <1>2, <2>2
    <3>2. zctx \in ZContext /\ ~zctx.err /\ zctx.availIn \in Nat /\ 0 \in 0 .. ChunkSize
          /\ ChunkSize \in 0 .. ChunkSize
      BY <1>0, <1>2, <2>1
    <3>3. d \in ZContext
      BY <2>4, <3>1, <3>2 DEF ZContext
    <3>4. /\ d.refs = 2 /\ d.inProgress /\ d.work = "queued" /\ d.from = 0
          /\ d.flush = zs.flush /\ d.availOut = ChunkSize /\ d.err = zctx.err
      BY <3>1, <3>2 DEF ZContext
    <3> QED BY <3>2, <3>3, <3>4
  <2>6. c \in ZContext /\ c.refs = 1 /\ c.inProgress /\ c.work = "queued" /\ c.from = 0
        /\ c.flush = zs.flush /\ c.availOut = ChunkSize /\ ~c.err
    <3>0. d.refs - 1 = 1
      BY <2>5
    <3>1. c = [d EXCEPT !.refs = 1] /\ d \in ZContext
      BY <2>2, <2>5, <3>0
    <3>2. c \in ZContext
      BY <3>1 DEF ZContext
    <3>3. /\ c.refs = 1 /\ c.inProgress = d.inProgress /\ c.work = d.work
          /\ c.from = d.from /\ c.flush = d.flush /\ c.availOut = d.availOut
          /\ c.err = d.err
      BY <3>1 DEF ZContext
    <3> QED BY <2>5, <3>2, <3>3
  <2>7. ZTyped(s, c, "none") /\ ZControl(s, c, "none") /\ ZSpace(s, c, "none")
    <3>1. ChunkSize - 0 = ChunkSize
      BY DEF ZlibConstants
    <3> QED BY <2>1, <2>3, <2>6, <3>1 DEF ZTyped, ZControl, ZSpace
  <2>8. ZRequests(s, c, s.ended) /\ ZFinish(c, codec, "none") /\ ZEnds(s, c, codec)
    <3>1. ZEnds(s, c, codec)
      BY <2>3 DEF ZEnds
    <3>2. ZFinish(c, codec, "none")
      BY <1>0, <2>6 DEF ZFinish
    <3>3. ZRequests(s, c, s.ended)
      BY <1>0, <1>2, <2>3, <2>6 DEF ZRequests
    <3> QED BY <3>1, <3>2, <3>3
  <2>9. Z!Blank \in ZBuffer
    BY DEF Z!Blank, ZBuffer
  <2>10. /\ b \in Seq(ZBuffer) /\ Len(b) = Len(buffers) + 1
         /\ \A m \in 1 .. Len(buffers) : b[m] = buffers[m]
    BY <1>3, <2>2, <2>9
  <2>11. Told(b, emitted, codec.made)
    <3>1. /\ Len(b) >= Len(buffers)
          /\ \A m \in 1 .. Len(buffers) : m # Len(buffers) => b[m] = buffers[m]
          /\ \A j \in 1 .. ChunkSize :
               j <= zs.offset => b[Len(buffers)][j] = buffers[Len(buffers)][j]
      BY <1>3, <2>10
    <3>2. zs.offset \in Nat
      BY <1>2
    <3> QED BY <1>3, <2>10, <3>1, <3>2, SlicesSame
  <2>12. \A j \in 1 .. Len(emitted) : SliceIn(emitted[j], b, 0)
    BY <1>3, <2>10 DEF SliceIn
  <2>13. ZOutput(s, c, codec, b, emitted)
    <3>1. ZPending(s, c) = 0 /\ c.work # "done" /\ Len(b) # 0
      BY <1>3, <2>6, <2>10 DEF ZPending
    <3> QED BY <1>3, <2>3, <2>10, <2>11, <2>12, <3>1 DEF ZOutput
  <2> QED BY <1>1, <2>2, <2>7, <2>8, <2>13 DEF ZlibInv, ZRight
<1>5. CASE ~Z!FullPiece
  <2>1. zs.offset < ChunkSize /\ ~(zs.offset >= ChunkSize) /\ zctx.availOut # 0
    BY <1>2, <1>5 DEF Z!FullPiece, ZlibConstants
  <2>2. PICK s : /\ s = zs' /\ handler' = "chunk" /\ UNCHANGED <<zctx, buffers>>
                 /\ s = [zs EXCEPT !.offset = zs.offset, !.processing = FALSE,
                                   !.done = zs.done \/ zs.request.last]
    BY <1>5, <2>1 DEF Z!DataReturns, Z!Renewed
  <2>3. PICK ends \in BOOLEAN : ends = (zs.done \/ zs.request.last)
    OBVIOUS
  <2>4. /\ s \in ZStream /\ s.offset = zs.offset /\ s.queue = zs.queue /\ ~s.processing
        /\ s.request = zs.request /\ ~s.hadError /\ s.flush = zs.flush /\ s.ended = zs.ended
        /\ s.done = ends /\ s.ending = zs.ending /\ s.late = zs.late
    <3>1. s = [zs EXCEPT !.offset = zs.offset, !.processing = FALSE, !.done = ends]
      BY <2>2, <2>3
    <3> QED BY <1>0, <1>2, <3>1 DEF ZStream
  <2>5. ZTyped(s, zctx, "chunk") /\ ZControl(s, zctx, "chunk") /\ ZSpace(s, zctx, "chunk")
    BY <1>0, <1>2, <2>1, <2>4 DEF ZTyped, ZControl, ZSpace
  <2>6. ZRequests(s, zctx, s.ended) /\ ZFinish(zctx, codec, "chunk")
    BY <1>0, <1>2, <2>4 DEF ZRequests, ZFinish
  <2>7. ZEnds(s, zctx, codec)
    <3>1. SUFFICES ASSUME s.done
                   PROVE  /\ s.request.last /\ zctx.availIn = 0
                          /\ codec.made = codec.fed + 1 \/ (s.late /\ codec.made = codec.fed)
      BY <2>4 DEF ZEnds
    <3>2. zs.request.last
      BY <1>2, <2>3, <2>4, <3>1
    <3>3. Ends(zctx.flush, zs.late)
      BY <1>0, <1>2, <3>2 DEF ZRequests
    <3>4. zctx.availIn = 0 /\ codec.made >= codec.fed /\ codec.made <= codec.fed + 1
          /\ (zctx.flush = "finish" => codec.made = codec.fed + 1)
      BY <1>0, <1>1, <2>1, <3>3 DEF ZFinish, Ends
    <3>5. codec.made = codec.fed \/ codec.made = codec.fed + 1
      BY <1>3, <3>4 DEF ZCodec
    <3> QED BY <2>4, <3>2, <3>3, <3>4, <3>5 DEF Ends
  <2>8. ZOutput(s, zctx, codec, buffers, emitted)
    BY <1>0, <2>4, OutputStays
  <2> QED BY <1>1, <2>2, <2>5, <2>6, <2>7, <2>8 DEF ZlibInv, ZRight
<1> QED BY <1>4, <1>5

\* The callback of a chunk returns.
LEMMA ZChunkRight ==
  ASSUME ZlibConstants, ZlibInv, Z!ChunkReturns
  PROVE  ZlibInv'
<1>1. PICK p : p = Z!Process(zs, zctx)
  OBVIOUS
<1>2. PICK c : /\ zs' = p.s /\ zctx' = c /\ c = [p.c EXCEPT !.refs = p.c.refs - 1]
               /\ handler = "chunk" /\ handler' = "none"
               /\ UNCHANGED <<codec, buffers, emitted>>
  BY <1>1 DEF Z!ChunkReturns
<1>3. /\ ZRight(zs, zctx, "chunk", codec, zs.ended) /\ zs.ended \in BOOLEAN
      /\ ZOutput(zs, zctx, codec, buffers, emitted)
  BY <1>2 DEF ZlibInv, ZRight, ZTyped, ZStream
<1>4. ZGoesOn(zs, zctx, "chunk", codec, zs.ended, p.s, p.c)
  BY <1>1, <1>3, ProcessRight
<1>5. PICK s, d : /\ s = p.s /\ d = p.c /\ ZRight(s, d, "chunk", codec, zs.ended)
                  /\ s.offset = zs.offset /\ s.ended = zs.ended
                  /\ d = zctx \/ (zctx.work = "none" /\ d.work = "queued")
  BY <1>4 DEF ZGoesOn
<1>6. /\ ZTyped(s, d, "chunk") /\ ZControl(s, d, "chunk") /\ ZRequests(s, d, zs.ended)
      /\ ZSpace(s, d, "chunk") /\ ZFinish(d, codec, "chunk") /\ ZEnds(s, d, codec)
      /\ d \in ZContext /\ s \in ZStream
  BY <1>5 DEF ZRight, ZTyped
<1>7. d.refs = (IF d.work # "none" THEN 1 ELSE 0) + 1 /\ d.refs - 1 \in Nat
  BY <1>6 DEF ZControl
<1>8. /\ c \in ZContext /\ c.refs = (IF d.work # "none" THEN 1 ELSE 0) /\ c.work = d.work
      /\ c.inProgress = d.inProgress /\ c.flush = d.flush /\ c.from = d.from
      /\ c.availOut = d.availOut /\ c.err = d.err /\ c.availIn = d.availIn
  BY <1>2, <1>5, <1>6, <1>7 DEF ZContext
<1>9. ZTyped(s, c, "none") /\ ZControl(s, c, "none") /\ ZSpace(s, c, "none")
  BY <1>6, <1>8 DEF ZTyped, ZControl, ZSpace
<1>10. ZRequests(s, c, s.ended) /\ ZFinish(c, codec, "none") /\ ZEnds(s, c, codec)
  BY <1>5, <1>6, <1>8 DEF ZRequests, ZFinish, ZEnds
<1>11. ZOutput(s, c, codec, buffers, emitted)
  <2>1. ZOutput(s, d, codec, buffers, emitted)
    BY <1>3, <1>5, OutputStays
  <2>2. ZPending(s, c) = ZPending(s, d) /\ ZHave(s, c) = ZHave(s, d)
    BY <1>8 DEF ZPending, ZHave
  <2> QED BY <1>8, <2>1, <2>2 DEF ZOutput
<1> QED BY <1>2, <1>5, <1>9, <1>10, <1>11 DEF ZlibInv, ZRight

\* Each step.
LEMMA ZlibStep == ZlibConstants /\ ZlibInv /\ [Z!ZlibNext]_zVars => ZlibInv'
<1> SUFFICES ASSUME ZlibConstants, ZlibInv, Z!ZlibNext \/ UNCHANGED zVars PROVE ZlibInv'
  OBVIOUS
<1>1. CASE Z!ZWrite \/ Z!ZEnd \/ Z!ZFlush \/ Z!ZPause \/ Z!ZResume \/ Z!ZDestroy
  BY <1>1, ZCallsRight
<1>2. CASE Z!ThreadProcess
  BY <1>2, ZThreadRight
<1>3. CASE Z!AfterError
  BY <1>3, ZAfterErrorRight
<1>4. CASE Z!After
  BY <1>4, ZAfterRight
<1>5. CASE Z!DataReturns
  BY <1>5, ZDataRight
<1>6. CASE Z!ChunkReturns
  BY <1>6, ZChunkRight
<1>7. CASE UNCHANGED zVars
  BY <1>7 DEF zVars, ZlibInv
<1> QED BY <1>1, <1>2, <1>3, <1>4, <1>5, <1>6, <1>7 DEF Z!ZlibNext

\* What the invariant says to the script.
LEMMA ZlibFacts ==
  ASSUME ZlibConstants, ZlibInv
  PROVE  Z!SlicesStay /\ Z!EndIsWhole /\ Z!OneRequest
<1>0. /\ ZTyped(zs, zctx, handler) /\ ZControl(zs, zctx, handler)
      /\ ZEnds(zs, zctx, codec) /\ ZOutput(zs, zctx, codec, buffers, emitted)
      /\ zs \in ZStream /\ zctx \in ZContext
  BY DEF ZlibInv, ZRight, ZTyped
<1>1. PICK n \in Nat : n = codec.made - ZPending(zs, zctx) /\ Told(buffers, emitted, n)
  BY <1>0 DEF ZOutput
<1>2. Z!Given = UpTo(n)
  BY <1>1 DEF Told, Z!Given, Z!Slice, Cuts, Cut
<1>3. Len(Z!Given) = n
  <2>1. UpTo(n) \in [1 .. n -> Nat]
    BY DEF UpTo
  <2> QED BY <1>2, <2>1, FunctionIsSeq
<1>4. codec.made \in Nat
  BY <1>0 DEF ZOutput, ZCodec
<1>5. zctx.work # "done" => n = codec.made
  BY <1>1, <1>4 DEF ZPending
<1>6. Z!SlicesStay
  <2>1. Z!Given = [j \in 1 .. Len(Z!Given) |-> j]
    BY <1>2, <1>3 DEF UpTo
  <2>2. ~zctx.inProgress => zctx.work # "done"
    BY <1>0 DEF ZControl
  <2> QED BY <1>3, <1>5, <2>1, <2>2 DEF Z!SlicesStay
<1>7. Z!EndIsWhole
  <2>1. zs.done => /\ zctx.availIn = 0 /\ ~zs.processing
                   /\ codec.made = codec.fed + 1 \/ (zs.late /\ codec.made = codec.fed)
    BY <1>0 DEF ZEnds
  <2>2. ~zs.processing => zctx.work # "done"
    BY <1>0 DEF ZControl
  <2> QED BY <1>3, <1>5, <2>1, <2>2 DEF Z!EndIsWhole
<1>8. Z!OneRequest
  BY <1>0 DEF ZControl, Z!OneRequest
<1> QED BY <1>6, <1>7, <1>8

\* A stream of lib/zlib.js emits, in order and once, what the compressor made, in slices that
\* nothing is written over; at 'end' that is all there was and the trailer, without which a
\* stream ends only if flush was called while its last request was worked on; and the object
\* is referenced exactly while the pool or a callback needs it, one request at a time.
THEOREM ZlibIsWhole == ASSUME ZlibConstants PROVE Spec => []ZlibWhole
<1>1. Init => ZlibInv
  BY ZlibStart DEF Init
<1>2. ZlibInv /\ [Next]_vars => ZlibInv'
  <2>1. [Next]_vars => [Z!ZlibNext]_zVars
    BY DEF Next, vars, zVars
  <2> QED BY <2>1, ZlibStep
<1>3. ZlibInv => ZlibWhole
  BY ZlibFacts DEF ZlibWhole
<1> QED BY <1>1, <1>2, <1>3, PTL DEF Spec

=============================================================================
