----------------------------- MODULE RadioProofs -----------------------------
(***************************************************************************)
(* What the radio decodes, for all nodes, channels, kinds of bursts and      *)
(* bounds: no burst that was garbled, every burst that was not, and no       *)
(* descriptor of a burst under way is dropped.                               *)
(***************************************************************************)
EXTENDS Radio, WellFoundedInduction, TLAPS

-----------------------------------------------------------------------------
(* The inductive invariant. *)

Age0 == 0 - OldAge

Descriptor == [src : Source, channel : Channel, type : {"DATA", "DSCH"}, start : Age0 .. 0,
               finish : Int, burst : BOOLEAN, error : BOOLEAN, lost : BOOLEAN,
               garbled : BOOLEAN, crossed : BOOLEAN]

Typed == /\ setup \in Setups
         /\ channel \in Channel
         /\ mode \in {"RX", "TX"}
         /\ rxBursts \subseteq Descriptor

\* A descriptor lies in a window of time that is not cut off before it ends.
Window(d) == /\ d.finish >= Age0
             /\ d.finish >= 0 => d.finish - d.start < OldAge

\* A burst comes from a neighbour and has not ended.
Live(d) == d.burst => d.src \in Neighbor /\ d.finish >= 0 /\ d.start < d.finish

\* A node sends one burst after another.
Apart(d, e) == d.src = e.src => d = e \/ d.finish <= e.start \/ e.finish <= d.start

\* Two neighbours on the air on one channel.
Clash(d, cur) == /\ d.src # cur.src /\ d.channel = cur.channel /\ Overlap(d, cur)
                 /\ d.src \in Neighbor /\ cur.src \in Neighbor

\* The radio is elsewhere: the switch has spoiled the burst.
Spoiled(d) ==
    d.burst /\ d.finish > 0 /\ (d.channel # channel \/ mode # "RX") => d.error /\ d.garbled

\* The error flag is there for a reason.
Founded(d) == d.burst /\ d.error => d.garbled \/ d.lost

\* What garbles a burst can be told when it ends.
Told(descs, cur) ==
    cur.burst /\ cur.garbled /\ ~cur.crossed => cur.error \/ \E d \in descs : Clash(d, cur)

Each == \A d \in rxBursts : Window(d) /\ Live(d) /\ Spoiled(d) /\ Founded(d) /\ Told(rxBursts, d)

Pairs == \A d, e \in rxBursts : Apart(d, e) /\ (e.burst /\ Clash(d, e) => e.garbled)

RInv == Typed /\ Each /\ Pairs

-----------------------------------------------------------------------------
(* Times. *)

LEMMA Ages == OldAge \in Nat /\ OldAge >= 2 /\ \A k \in Kinds : k.duration \in 1 .. OldAge - 1
  <1>1. PICK k \in Kinds : TRUE BY RadioAssumption
  <1>2. \A l \in Kinds : l.duration \in Nat \ {0} BY RadioAssumption
  <1> QED BY <1>1, <1>2, RadioAssumption

\* Some start is the latest one.
LEMMA Latest ==
    ASSUME NEW S \in SUBSET (Age0 .. 0), S # {}
    PROVE  Max(S) \in S /\ \A x \in S : Max(S) >= x
  <1> DEFINE T == {0 - x : x \in S}
             R == OpToRel(<, Nat)
  <1>0. \A x \in S : x \in Int /\ 0 - x \in Nat BY Ages DEF Age0
  <1>1. T \in SUBSET Nat /\ T # {} BY <1>0
  <1>2. IsWellFoundedOn(R, Nat) BY NatLessThanWellFounded
  <1>3. \A x, y \in Nat : x < y => <<x, y>> \in R BY DEF OpToRel
  <1> HIDE DEF R
  <1>4. PICK m \in T : \A y \in T : ~(<<y, m>> \in R) BY <1>1, <1>2, WFMin
  <1>5. \A y \in T : ~(y < m) BY <1>1, <1>3, <1>4
  <1>6. PICK x \in S : m = 0 - x BY <1>4
  <1>7. ASSUME NEW y \in S PROVE x >= y
    <2>1. 0 - y \in T OBVIOUS
    <2>2. ~(0 - y < 0 - x) BY <1>5, <1>6, <2>1
    <2> QED BY <1>0, <2>2
  <1> QED BY <1>7 DEF Max

\* Growing older keeps the order, and what is not old grows by one.
LEMMA Aging ==
    /\ \A t \in Int : t >= Age0 => Older(t) \in Int /\ Older(t) >= Age0 /\ Older(t) <= t
    /\ \A t \in Int : t > Age0 => Older(t) = t - 1
    /\ \A t, u \in Int : t >= Age0 /\ u >= Age0 /\ t <= u => Older(t) <= Older(u)
  BY Ages, SMT DEF Age0, Older

\* Bursts of different nodes that are both on the air clash.
LEMMA OnAirClash ==
    ASSUME NEW d \in Descriptor, NEW e \in Descriptor, Apart(d, e), d # e,
           d.finish > 0, e.finish > 0, d.channel = e.channel, d.src \in Neighbor, e.src \in Neighbor
    PROVE  Clash(d, e)
  BY Ages, SMT DEF Descriptor, Apart, Clash, Overlap, Age0

\* What interferes with a burst clashes with it.
LEMMA InterferersClash ==
    ASSUME NEW d \in Descriptor, NEW e \in Descriptor, Apart(d, e)
    PROVE  Interferes(d, e) => Clash(d, e)
  BY SMT DEF Descriptor, Apart, Clash, Overlap, Interferes, Age0

\* What changes flags only leaves clashes as they are.
Placed(e, d) == /\ e.src = d.src /\ e.channel = d.channel
                /\ e.start = d.start /\ e.finish = d.finish

Alike(e, d) == Placed(e, d) /\ e.burst = d.burst /\ e.lost = d.lost

LEMMA PlacedClash ==
    ASSUME NEW d, NEW e, NEW f, NEW g, Placed(e, d), Placed(f, g)
    PROVE  Clash(e, f) <=> Clash(d, g)
  BY DEF Placed, Clash, Overlap

-----------------------------------------------------------------------------
LEMMA InitRInv == Init => RInv
  BY DEF Init, RInv, Typed, Each, Pairs

\* A burst begins: it garbles those on the air, and they it.
LEMMA SendRInv ==
    ASSUME RInv, NEW n \in Source, NEW c \in Channel, NEW kind \in Kinds, NEW lost \in BOOLEAN,
           Send(n, c, kind, lost)
    PROVE  RInv'
  <1> DEFINE new == Desc(n, kind, lost)
             S == rxBursts \cup {new}
             OnAir == {d \in S : d.channel = channel /\ d.finish > 0 /\ d.src \in Neighbor}
             g(d) == [d EXCEPT !.garbled = @ \/ (d \in OnAir /\ d.burst /\ OnAir # {d})]
  <1>1. rxBursts' = {g(d) : d \in S} /\ mode = "RX" /\ mode' = mode /\ channel' = channel
        /\ setup' = setup
    BY DEF Send, Garble
  <1>2. /\ new \in Descriptor
        /\ new.src = n /\ new.channel = channel /\ new.start = 0 /\ new.finish = kind.duration
        /\ (new.burst <=> n \in Neighbor) /\ (new.error => new.lost) /\ ~new.garbled
        /\ kind.duration \in 1 .. OldAge - 1
    <2>1. kind.type \in {"DATA", "DSCH"} BY RadioAssumption
    <2>2. kind.duration \in 1 .. OldAge - 1 BY Ages
    <2>3. channel \in Channel BY DEF RInv, Typed
    <2>4. 0 \in Age0 .. 0 /\ kind.duration \in Int BY <2>2, Ages DEF Age0
    <2>5. new \in Descriptor BY <2>1, <2>3, <2>4 DEF Desc, Descriptor
    <2> QED BY <2>2, <2>5 DEF Desc
  <1>3. \A d \in rxBursts : d \in Descriptor /\ Window(d) /\ Live(d) /\ Spoiled(d) /\ Founded(d)
                            /\ Told(rxBursts, d)
    BY DEF RInv, Typed, Each
  <1>4. \A d \in rxBursts : d.src = n => d.finish <= 0 BY DEF Send
  <1>5. \A d, e \in S : Apart(d, e)
    <2>1. \A d, e \in rxBursts : Apart(d, e) BY DEF RInv, Pairs
    <2>2. \A d \in rxBursts : Apart(d, new) /\ Apart(new, d) BY <1>2, <1>3, <1>4, SMT DEF Apart
    <2> QED BY <2>1, <2>2 DEF Apart
  <1>6. \A d \in S : d \in Descriptor BY <1>2, <1>3
  <1> HIDE DEF new
  <1>7. \A d \in S : /\ g(d) \in Descriptor /\ Alike(g(d), d)
                     /\ g(d).error = d.error /\ g(d).crossed = d.crossed
                     /\ g(d).garbled = (d.garbled \/ (d \in OnAir /\ d.burst /\ OnAir # {d}))
    BY <1>6 DEF Descriptor, Alike, Placed
  <1> HIDE DEF g
  <1>8. \A d \in S : Window(d) /\ Live(d) /\ Founded(d)
    BY <1>2, <1>3, Ages, SMT DEF Window, Live, Founded, Age0
  <1>9. \A d, e \in S : e.burst /\ Clash(d, e) => g(e).garbled
    <2> SUFFICES ASSUME NEW d \in S, NEW e \in S, e.burst, Clash(d, e) PROVE g(e).garbled
      OBVIOUS
    <2>1. CASE d \in rxBursts /\ e \in rxBursts BY <1>7, <2>1 DEF RInv, Pairs
    <2>2. CASE d = new \/ e = new
      <3>1. d \in Descriptor /\ e \in Descriptor BY <1>6
      <3>2. d \in OnAir /\ e \in OnAir
        BY <1>2, <2>2, <3>1, SMT DEF Clash, Overlap, Descriptor
      <3>3. d # e BY DEF Clash
      <3> QED BY <1>7, <3>2, <3>3
    <2> QED BY <2>1, <2>2
  <1>10. \A d \in S : Told(rxBursts', g(d))
    <2> SUFFICES ASSUME NEW d \in S, g(d).burst, g(d).garbled, ~g(d).crossed, ~g(d).error
                 PROVE  \E w \in rxBursts' : Clash(w, g(d))
      BY DEF Told
    <2>1. d.burst /\ ~d.crossed /\ ~d.error BY <1>7 DEF Alike, Placed
    <2>2. \E o \in S : Clash(o, d)
      <3>1. CASE d.garbled
        <4>1. d \in rxBursts BY <1>2, <3>1
        <4> QED BY <1>3, <2>1, <3>1, <4>1 DEF Told
      <3>2. CASE ~d.garbled
        <4>1. d \in OnAir /\ OnAir # {d} BY <1>7, <3>2
        <4>2. \E o \in OnAir : o # d
          <5> HIDE DEF OnAir
          <5> QED BY <4>1
        <4>3. PICK o \in OnAir : o # d BY <4>2
        <4> QED BY <1>5, <1>6, <4>1, <4>3, OnAirClash
      <3> QED BY <3>1, <3>2
    <2>3. PICK o \in S : Clash(o, d) BY <2>2
    <2>4. Clash(g(o), g(d)) BY <1>7, <2>3, PlacedClash DEF Alike, Placed
    <2> QED BY <1>1, <2>4
  <1>11. \A d \in S : g(d).burst /\ g(d).finish > 0 /\ (g(d).channel # channel \/ mode # "RX")
                        => g(d).error /\ g(d).garbled
    <2>1. \A d \in S : d.burst /\ d.finish > 0 /\ (d.channel # channel \/ mode # "RX")
                        => d.error /\ d.garbled
      BY <1>1, <1>2, <1>3 DEF Spoiled
    <2>2. \A d \in S : d.garbled => g(d).garbled BY <1>7
    <2> HIDE DEF S
    <2> QED BY <1>7, <2>1, <2>2 DEF Alike, Placed
  <1>12. \A d \in S : Window(g(d)) /\ Live(g(d)) /\ Founded(g(d))
    BY <1>7, <1>8 DEF Window, Live, Founded, Alike, Placed
  <1>13. \A d, e \in S : /\ Apart(g(d), g(e))
                         /\ g(e).burst /\ Clash(g(d), g(e)) => g(e).garbled
    <2> SUFFICES ASSUME NEW d \in S, NEW e \in S
                 PROVE  /\ Apart(g(d), g(e))
                        /\ g(e).burst /\ Clash(g(d), g(e)) => g(e).garbled
      OBVIOUS
    <2>1. Alike(g(d), d) /\ Alike(g(e), e) BY <1>7
    <2>2. g(e).burst /\ Clash(g(d), g(e)) => g(e).garbled
      BY <1>9, <2>1, PlacedClash DEF Alike, Placed
    <2>3. d = e => g(d) = g(e) OBVIOUS
    <2>4. Apart(d, e) BY <1>5
    <2> QED BY <2>1, <2>2, <2>3, <2>4 DEF Alike, Placed, Apart
  <1> HIDE DEF S
  <1>14. Typed' BY <1>1, <1>7 DEF RInv, Typed
  <1>15. Each' BY <1>1, <1>10, <1>11, <1>12 DEF Each, Spoiled
  <1>16. Pairs' BY <1>1, <1>13 DEF Pairs
  <1> QED BY <1>14, <1>15, <1>16 DEF RInv

\* The MAC switches channel or mode: what that garbles, it flags.
LEMMA SetModeRInv ==
    ASSUME RInv, NEW s \in {"RX", "TX"}, NEW c \in Channel, setMode(s, c)
    PROVE  RInv'
  <1> DEFINE g(d) == [d EXCEPT !.error = @ \/ (Spoils(s, c) /\ d.finish > 0 /\ d.burst),
                               !.garbled = @ \/ (d.finish > 0 /\ d.burst
                                                 /\ (s # "RX" \/ d.channel # c))]
  <1>1. rxBursts' = {g(d) : d \in rxBursts} /\ mode' = s /\ channel' = c /\ setup' = setup
    BY DEF setMode
  <1>2. \A d \in rxBursts : d \in Descriptor /\ Window(d) /\ Live(d) /\ Spoiled(d) /\ Founded(d)
                            /\ Told(rxBursts, d)
    BY DEF RInv, Typed, Each
  <1>3. \A d \in rxBursts :
           /\ g(d) \in Descriptor /\ Alike(g(d), d) /\ g(d).crossed = d.crossed
           /\ g(d).error = (d.error \/ (Spoils(s, c) /\ d.finish > 0 /\ d.burst))
           /\ g(d).garbled = (d.garbled \/ (d.finish > 0 /\ d.burst /\ (s # "RX" \/ d.channel # c)))
    BY <1>2 DEF Descriptor, Alike, Placed
  <1> HIDE DEF g
  <1>4. \A d \in rxBursts : d.finish > 0 /\ d.burst /\ (s # "RX" \/ d.channel # c) =>
           g(d).error /\ g(d).garbled
    <2> SUFFICES ASSUME NEW d \in rxBursts, d.finish > 0, d.burst, s # "RX" \/ d.channel # c
                 PROVE  g(d).error
      BY <1>3
    <2>1. CASE Spoils(s, c) BY <1>3, <2>1
    <2>2. CASE ~Spoils(s, c)
      <3>1. c = channel /\ ~(mode = "RX" /\ s = "TX") BY <2>2 DEF Spoils
      <3>2. mode # "RX" BY <3>1 DEF setMode, RInv, Typed
      <3> QED BY <1>2, <1>3, <3>2 DEF Spoiled
    <2> QED BY <2>1, <2>2
  <1>5. \A d \in rxBursts : d.finish > 0 /\ d.burst /\ Spoils(s, c) => g(d).garbled
    <2> SUFFICES ASSUME NEW d \in rxBursts, d.finish > 0, d.burst, Spoils(s, c), s = "RX",
                        d.channel = c
                 PROVE  d.garbled
      BY <1>3
    <2>1. c # channel BY DEF Spoils
    <2> QED BY <1>2, <2>1 DEF Spoiled
  <1>6. \A d \in rxBursts : Window(g(d)) /\ Live(g(d))
    BY <1>2, <1>3 DEF Window, Live, Alike, Placed
  <1>7. \A d \in rxBursts : g(d).burst /\ g(d).finish > 0 /\ (g(d).channel # c \/ s # "RX")
                               => g(d).error /\ g(d).garbled
    BY <1>3, <1>4 DEF Alike, Placed
  <1>8. \A d \in rxBursts : Founded(g(d))
    <2> SUFFICES ASSUME NEW d \in rxBursts, d.burst, g(d).error PROVE g(d).garbled \/ d.lost
      BY <1>3 DEF Founded, Alike
    <2>1. CASE d.error BY <1>2, <1>3, <2>1 DEF Founded
    <2>2. CASE ~d.error BY <1>3, <1>5, <2>2
    <2> QED BY <2>1, <2>2
  <1>9. \A d \in rxBursts : Told(rxBursts', g(d))
    <2> SUFFICES ASSUME NEW d \in rxBursts, g(d).burst, g(d).garbled, ~g(d).crossed, ~g(d).error
                 PROVE  \E w \in rxBursts' : Clash(w, g(d))
      BY DEF Told
    <2>1. d.burst /\ d.garbled /\ ~d.crossed /\ ~d.error BY <1>3, <1>4 DEF Alike
    <2>2. PICK o \in rxBursts : Clash(o, d) BY <1>2, <2>1 DEF Told
    <2>3. Clash(g(o), g(d)) BY <1>3, <2>2, PlacedClash DEF Alike
    <2> QED BY <1>1, <2>3
  <1>10. \A d, e \in rxBursts : /\ Apart(g(d), g(e))
                                /\ g(e).burst /\ Clash(g(d), g(e)) => g(e).garbled
    <2> SUFFICES ASSUME NEW d \in rxBursts, NEW e \in rxBursts
                 PROVE  /\ Apart(g(d), g(e))
                        /\ g(e).burst /\ Clash(g(d), g(e)) => g(e).garbled
      OBVIOUS
    <2>1. Alike(g(d), d) /\ Alike(g(e), e) /\ (e.garbled => g(e).garbled) BY <1>3
    <2>2. Apart(d, e) /\ (e.burst /\ Clash(d, e) => e.garbled) BY DEF RInv, Pairs
    <2>3. Clash(g(d), g(e)) <=> Clash(d, e) BY <2>1, PlacedClash DEF Alike
    <2>4. d = e => g(d) = g(e) OBVIOUS
    <2>5. Apart(g(d), g(e)) BY <2>1, <2>2, <2>4 DEF Alike, Placed, Apart
    <2> QED BY <2>1, <2>2, <2>3, <2>5 DEF Alike
  <1>11. Typed' BY <1>1, <1>3 DEF RInv, Typed
  <1>12. Each' BY <1>1, <1>6, <1>7, <1>8, <1>9 DEF Each, Spoiled
  <1>13. Pairs' BY <1>1, <1>10 DEF Pairs
  <1> QED BY <1>11, <1>12, <1>13 DEF RInv

\* handle drops no descriptor that has not ended.
LEMMA CleanedKeeps ==
    ASSUME NEW D \in SUBSET Descriptor
    PROVE  /\ Cleaned(D) \subseteq D
           /\ \A d \in D : d.finish >= 0 => d \in Cleaned(D)
  <1> DEFINE U == {d \in D : d.finish >= 0}
             T == {e.start : e \in U}
  <1>1. Cleaned(D) \subseteq D BY DEF Cleaned
  <1>2. ASSUME NEW d \in D, d.finish >= 0 PROVE d \in Cleaned(D)
    <2>1. d \in U BY <1>2
    <2>2. T \in SUBSET (Age0 .. 0) /\ T # {} BY <2>1 DEF Descriptor
    <2>3. Max(T) \in Age0 .. 0 BY <2>2, Latest
    <2>4. d.finish \in Int /\ d.finish >= Max(T)
      <3> HIDE DEF T
      <3> QED BY <1>2, <2>3, Ages, SMT DEF Descriptor, Age0
    <2> QED BY <2>1, <2>4 DEF Cleaned
  <1> QED BY <1>1, <1>2

\* A burst ends: what garbled the others can still be told, as the descriptor
\* of this one stays.
LEMMA EndRInv ==
    ASSUME RInv, NEW cur \in rxBursts, End(cur)
    PROVE  RInv'
  <1> DEFINE x(d) == [d EXCEPT !.crossed = @ \/ (d.burst /\ d.channel # cur.channel)]
             g(d) == IF d = cur THEN Dispatched(cur) ELSE x(d)
             D == {g(d) : d \in rxBursts}
  <1>1. /\ rxBursts' = Cleaned(D)
        /\ mode' = mode /\ channel' = channel /\ setup' = setup
        /\ cur.burst /\ cur.finish = 0
    <2>1. Cross(rxBursts \ {cur}, cur) \cup {Dispatched(cur)} = D BY DEF Cross
    <2> QED BY <2>1 DEF End
  <1>2. \A d \in rxBursts : d \in Descriptor /\ Window(d) /\ Live(d) /\ Spoiled(d) /\ Founded(d)
                            /\ Told(rxBursts, d)
    BY DEF RInv, Typed, Each
  <1>3. \A d \in rxBursts : g(d) \in Descriptor /\ Placed(g(d), d)
    <2>1. \A d \in rxBursts : x(d) \in Descriptor /\ Placed(x(d), d)
      BY <1>2 DEF Descriptor, Placed
    <2>2. Dispatched(cur) \in Descriptor /\ Placed(Dispatched(cur), cur)
      BY <1>2 DEF Dispatched, Descriptor, Placed
    <2> QED BY <2>1, <2>2
  <1>4. \A d \in rxBursts : g(d).burst =>
           /\ d # cur /\ d.burst /\ g(d).error = d.error /\ g(d).garbled = d.garbled
           /\ g(d).lost = d.lost
           /\ ~g(d).crossed => ~d.crossed /\ d.channel = cur.channel
    <2>1. \A d \in rxBursts :
             /\ x(d).burst = d.burst /\ x(d).error = d.error /\ x(d).garbled = d.garbled
             /\ x(d).lost = d.lost
             /\ x(d).crossed = (d.crossed \/ (d.burst /\ d.channel # cur.channel))
      BY <1>2 DEF Descriptor
    <2>2. ~Dispatched(cur).burst BY <1>2 DEF Dispatched, Descriptor
    <2> QED BY <2>1, <2>2
  <1> HIDE DEF x, g
  <1>5. \A d, e \in rxBursts : Apart(d, e) /\ (e.burst /\ Clash(d, e) => e.garbled)
    BY DEF RInv, Pairs
  <1>6. /\ rxBursts' \subseteq D
        /\ \A d \in rxBursts : d.finish >= 0 => g(d) \in rxBursts'
    <2>1. D \in SUBSET Descriptor BY <1>3
    <2>2. \A d \in rxBursts : g(d) \in D /\ g(d).finish = d.finish BY <1>3 DEF Placed
    <2> HIDE DEF D
    <2> QED BY <1>1, <2>1, <2>2, CleanedKeeps
  <1>7. \A d \in rxBursts : Window(g(d)) /\ Live(g(d)) /\ Founded(g(d))
    BY <1>2, <1>3, <1>4 DEF Window, Live, Founded, Placed
  <1>8. \A d \in rxBursts : g(d).burst /\ g(d).finish > 0 /\ (g(d).channel # channel \/ mode # "RX")
                               => g(d).error /\ g(d).garbled
    BY <1>2, <1>3, <1>4 DEF Spoiled, Placed
  <1>9. \A d \in rxBursts : Told(rxBursts', g(d))
    <2> SUFFICES ASSUME NEW d \in rxBursts, g(d).burst, g(d).garbled, ~g(d).crossed, ~g(d).error
                 PROVE  \E w \in rxBursts' : Clash(w, g(d))
      BY DEF Told
    <2>1. /\ d # cur /\ d.burst /\ d.garbled /\ ~d.crossed /\ ~d.error
          /\ d.channel = cur.channel
      BY <1>4
    <2>2. PICK w \in rxBursts : Clash(w, d) BY <1>2, <2>1 DEF Told
    <2>3. CASE w.finish >= 0
      <3>1. Clash(g(w), g(d)) BY <1>3, <2>2, PlacedClash
      <3> QED BY <1>6, <2>3, <3>1
    <2>4. CASE w.finish < 0
      <3>1. d.start < 0 /\ d.finish >= 0 /\ d.src \in Neighbor
        BY <1>2, <2>1, <2>2, <2>4, Ages, SMT DEF Clash, Overlap, Live, Descriptor, Age0
      <3>2. cur.start < 0 /\ cur.finish = 0 /\ cur.src \in Neighbor
        BY <1>1, <1>2 DEF Live
      <3>3. d.start \in Int /\ d.finish \in Int /\ cur.start \in Int
        BY <1>2, Ages DEF Descriptor, Age0
      <3>4. Overlap(cur, d) BY <3>1, <3>2, <3>3, SMT DEF Overlap
      <3>5. cur.src # d.src BY <1>5, <2>1, <3>1, <3>2, <3>3, SMT DEF Apart
      <3>6. Clash(cur, d) BY <2>1, <3>1, <3>2, <3>4, <3>5 DEF Clash
      <3>7. Clash(g(cur), g(d)) BY <1>3, <3>6, PlacedClash
      <3>8. g(cur) \in rxBursts' BY <1>6, <3>2
      <3> QED BY <3>7, <3>8
    <2>5. w.finish \in Int BY <1>2 DEF Descriptor
    <2> QED BY <2>3, <2>4, <2>5
  <1>10. \A d, e \in rxBursts : /\ Apart(g(d), g(e))
                                /\ g(e).burst /\ Clash(g(d), g(e)) => g(e).garbled
    <2> SUFFICES ASSUME NEW d \in rxBursts, NEW e \in rxBursts
                 PROVE  /\ Apart(g(d), g(e))
                        /\ g(e).burst /\ Clash(g(d), g(e)) => g(e).garbled
      OBVIOUS
    <2>1. Placed(g(d), d) /\ Placed(g(e), e) BY <1>3
    <2>2. Clash(g(d), g(e)) <=> Clash(d, e) BY <2>1, PlacedClash
    <2>3. g(e).burst /\ Clash(g(d), g(e)) => g(e).garbled BY <1>4, <1>5, <2>2
    <2>4. d = e => g(d) = g(e) OBVIOUS
    <2>5. Apart(g(d), g(e)) BY <1>5, <2>1, <2>4 DEF Placed, Apart
    <2> QED BY <2>3, <2>5
  <1>11. Typed' BY <1>1, <1>3, <1>6 DEF RInv, Typed
  <1>12. Each' BY <1>1, <1>6, <1>7, <1>8, <1>9 DEF Each, Spoiled
  <1>13. Pairs' BY <1>6, <1>10 DEF Pairs
  <1> QED BY <1>11, <1>12, <1>13 DEF RInv

\* Time passes: what clashes with a burst under way still does.
LEMMA TickRInv == ASSUME RInv, Tick PROVE RInv'
  <1> DEFINE g(d) == [d EXCEPT !.start = Older(@), !.finish = Older(@)]
  <1>1. /\ rxBursts' = {g(d) : d \in rxBursts}
        /\ mode' = mode /\ channel' = channel /\ setup' = setup
    BY DEF Tick
  <1>2. \A d \in rxBursts : d \in Descriptor /\ Window(d) /\ Live(d) /\ Spoiled(d) /\ Founded(d)
                            /\ Told(rxBursts, d)
    BY DEF RInv, Typed, Each
  <1>3. \A d \in rxBursts : /\ d.start \in Int /\ d.start >= Age0 /\ d.start <= 0
                            /\ d.finish \in Int /\ d.finish >= Age0
    BY <1>2, Ages, SMT DEF Descriptor, Window, Age0
  <1>4. \A d \in rxBursts : /\ g(d) \in Descriptor
                            /\ g(d).src = d.src /\ g(d).channel = d.channel
                            /\ g(d).burst = d.burst /\ g(d).lost = d.lost
                            /\ g(d).error = d.error /\ g(d).garbled = d.garbled
                            /\ g(d).crossed = d.crossed
                            /\ g(d).start = Older(d.start) /\ g(d).finish = Older(d.finish)
    <2> SUFFICES ASSUME NEW d \in rxBursts PROVE /\ g(d) \in Descriptor
                            /\ g(d).src = d.src /\ g(d).channel = d.channel
                            /\ g(d).burst = d.burst /\ g(d).lost = d.lost
                            /\ g(d).error = d.error /\ g(d).garbled = d.garbled
                            /\ g(d).crossed = d.crossed
                            /\ g(d).start = Older(d.start) /\ g(d).finish = Older(d.finish)
      OBVIOUS
    <2>1. Older(d.start) \in Int /\ Older(d.start) >= Age0 /\ Older(d.start) <= d.start
          /\ Older(d.finish) \in Int
      BY <1>3, Aging
    <2>2. Age0 \in Int BY Ages DEF Age0
    <2>3. Older(d.start) \in Age0 .. 0 BY <1>3, <2>1, <2>2
    <2> QED BY <1>2, <2>1, <2>3 DEF Descriptor
  <1> HIDE DEF g
  <1>5. \A d \in rxBursts : d.burst =>
           /\ d.src \in Neighbor /\ d.finish >= 1
           /\ g(d).finish = d.finish - 1 /\ g(d).start = d.start - 1 /\ d.start > Age0
    <2> SUFFICES ASSUME NEW d \in rxBursts, d.burst
                 PROVE  /\ d.src \in Neighbor /\ d.finish >= 1
                        /\ g(d).finish = d.finish - 1 /\ g(d).start = d.start - 1 /\ d.start > Age0
      OBVIOUS
    <2>0. d.finish > 0 BY DEF Tick
    <2>1. d.finish >= 1 BY <1>3, <2>0
    <2>2. d.src \in Neighbor BY <1>2 DEF Live
    <2>3. d.start > Age0 /\ d.finish > Age0
      BY <1>2, <1>3, <2>1, Ages, SMT DEF Window, Age0
    <2> QED BY <1>3, <1>4, <2>1, <2>2, <2>3, Aging
  <1>6. \A d \in rxBursts : Window(g(d))
    <2> SUFFICES ASSUME NEW d \in rxBursts PROVE Window(g(d)) OBVIOUS
    <2>1. g(d).finish >= Age0 BY <1>3, <1>4, Aging
    <2>2. ASSUME g(d).finish >= 0 PROVE g(d).finish - g(d).start < OldAge
      <3>1. d.finish > Age0 BY <1>3, <1>4, <2>2, Ages, SMT DEF Older, Age0
      <3>2. g(d).finish = d.finish - 1 BY <1>3, <1>4, <3>1, Aging
      <3>3. d.start > Age0 BY <1>2, <1>3, <2>2, <3>2, Ages, SMT DEF Window, Age0
      <3>4. g(d).start = d.start - 1 BY <1>3, <1>4, <3>3, Aging
      <3> QED BY <1>2, <1>3, <2>2, <3>2, <3>4, Ages, SMT DEF Window
    <2> QED BY <2>1, <2>2 DEF Window
  <1>7. \A d \in rxBursts : Live(g(d)) /\ Founded(g(d))
    BY <1>2, <1>3, <1>4, <1>5, SMT DEF Live, Founded
  <1>8. \A d \in rxBursts : g(d).burst /\ g(d).finish > 0 /\ (g(d).channel # channel \/ mode # "RX")
                               => g(d).error /\ g(d).garbled
    BY <1>2, <1>3, <1>4, <1>5, SMT DEF Spoiled
  <1>9. \A d, e \in rxBursts : e.burst => (Clash(d, e) <=> Clash(g(d), g(e)))
    <2> SUFFICES ASSUME NEW d \in rxBursts, NEW e \in rxBursts, e.burst
                 PROVE  Overlap(d, e) <=> Overlap(g(d), g(e))
      BY <1>4 DEF Clash
    <2>1. (d.finish > e.start) <=> (g(d).finish > g(e).start)
      BY <1>3, <1>4, <1>5, Ages, SMT DEF Older, Age0
    <2>2. (e.finish > d.start) <=> (g(e).finish > g(d).start)
      BY <1>3, <1>4, <1>5, Ages, SMT DEF Older, Age0
    <2> QED BY <2>1, <2>2 DEF Overlap
  <1>10. \A d \in rxBursts : Told(rxBursts', g(d))
    <2> SUFFICES ASSUME NEW d \in rxBursts, g(d).burst, g(d).garbled, ~g(d).crossed, ~g(d).error
                 PROVE  \E w \in rxBursts' : Clash(w, g(d))
      BY DEF Told
    <2>1. d.burst /\ d.garbled /\ ~d.crossed /\ ~d.error BY <1>4
    <2>2. PICK o \in rxBursts : Clash(o, d) BY <1>2, <2>1 DEF Told
    <2> QED BY <1>1, <1>9, <2>1, <2>2
  <1>11. \A d, e \in rxBursts : /\ Apart(g(d), g(e))
                                /\ g(e).burst /\ Clash(g(d), g(e)) => g(e).garbled
    <2> SUFFICES ASSUME NEW d \in rxBursts, NEW e \in rxBursts
                 PROVE  /\ Apart(g(d), g(e))
                        /\ g(e).burst /\ Clash(g(d), g(e)) => g(e).garbled
      OBVIOUS
    <2>1. Apart(d, e) /\ (e.burst /\ Clash(d, e) => e.garbled) BY DEF RInv, Pairs
    <2>2. g(e).burst /\ Clash(g(d), g(e)) => g(e).garbled BY <1>4, <1>9, <2>1
    <2>3. d = e => g(d) = g(e) OBVIOUS
    <2>4. /\ d.finish <= e.start => g(d).finish <= g(e).start
          /\ e.finish <= d.start => g(e).finish <= g(d).start
      BY <1>3, <1>4, Aging
    <2>5. Apart(g(d), g(e)) BY <1>4, <2>1, <2>3, <2>4 DEF Apart
    <2> QED BY <2>2, <2>5
  <1>12. Typed' BY <1>1, <1>4 DEF RInv, Typed
  <1>13. Each' BY <1>1, <1>6, <1>7, <1>8, <1>10 DEF Each, Spoiled
  <1>14. Pairs' BY <1>1, <1>11 DEF Pairs
  <1> QED BY <1>12, <1>13, <1>14 DEF RInv

LEMMA NextRInv == RInv /\ [Next]_vars => RInv'
  <1> SUFFICES ASSUME RInv, [Next]_vars PROVE RInv' OBVIOUS
  <1>1. CASE UNCHANGED vars
    BY <1>1 DEF vars, RInv, Typed, Each, Pairs, Spoiled
  <1>2. CASE Next BY <1>2, SendRInv, SetModeRInv, EndRInv, TickRInv DEF Next
  <1> QED BY <1>1, <1>2

-----------------------------------------------------------------------------
(* Theorems. *)

\* What WimshMac::recvBurst gets from WimshPhy::handle: an end that decodes is
\* of a burst that was not garbled, and one that was neither garbled nor broken
\* by the channel decodes.
LEMMA EndTells ==
    ASSUME RInv, NEW cur \in rxBursts, End(cur)
    PROVE  GarbledIsDropped' /\ WholeIsDecoded'
  <1>1. /\ decoded' = [type |-> cur.type, ok |-> Decodes(cur),
                       garbled |-> cur.garbled, lost |-> cur.lost, crossed |-> cur.crossed,
                       good |-> link[cur.src].good]
        /\ setup' = setup /\ cur.burst
    BY DEF End
  <1>2. /\ cur \in Descriptor /\ Founded(cur) /\ Told(rxBursts, cur)
        /\ \A d \in rxBursts : d \in Descriptor /\ Apart(d, cur)
                               /\ (Clash(d, cur) => cur.garbled)
    BY <1>1 DEF RInv, Typed, Each, Pairs
  <1>3. \A d \in rxBursts : Clash(d, cur) => Interferes(d, cur)
    BY DEF Clash, Interferes
  <1>4. cur.garbled /\ ~cur.crossed => Error(cur) BY <1>1, <1>2, <1>3 DEF Told, Error
  <1>5. Error(cur) => cur.garbled \/ cur.lost
    BY <1>1, <1>2, InterferersClash DEF Error, Founded
  <1>6. cur.type = "DATA" => (Decodes(cur) <=> ~Error(cur)) BY DEF Decodes
  <1>7. cur.type = "DSCH" => (Decodes(cur) <=> (setup.links => ~Error(cur) /\ link[cur.src].good))
    BY DEF Decodes
  <1>8. cur.type \in {"DATA", "DSCH"} BY <1>2 DEF Descriptor
  <1> HIDE DEF Error, Decodes
  <1>9. /\ decoded'.type = cur.type /\ decoded'.ok = Decodes(cur)
        /\ decoded'.garbled = cur.garbled /\ decoded'.lost = cur.lost
        /\ decoded'.crossed = cur.crossed /\ decoded'.good = link[cur.src].good
    BY <1>1
  <1>10. GarbledIsDropped'
    BY <1>1, <1>4, <1>6, <1>7, <1>8, <1>9 DEF GarbledIsDropped, FlagCounts, Ended
  <1>11. WholeIsDecoded'
    BY <1>5, <1>6, <1>7, <1>8, <1>9 DEF WholeIsDecoded, Ended
  <1> QED BY <1>10, <1>11

LEMMA NextDecoded == RInv /\ GarbledIsDropped /\ WholeIsDecoded /\ [Next]_vars
                => GarbledIsDropped' /\ WholeIsDecoded'
  <1> SUFFICES ASSUME RInv, GarbledIsDropped, WholeIsDecoded, [Next]_vars
               PROVE  GarbledIsDropped' /\ WholeIsDecoded'
    OBVIOUS
  <1>1. CASE UNCHANGED vars
    BY <1>1 DEF vars, GarbledIsDropped, WholeIsDecoded, Ended, FlagCounts
  <1>2. CASE decoded' = Nothing BY <1>2 DEF GarbledIsDropped, WholeIsDecoded, Ended
  <1>3. CASE \E d \in rxBursts : End(d) BY <1>3, EndTells
  <1>4. ASSUME Next PROVE decoded' = Nothing \/ \E d \in rxBursts : End(d)
    BY <1>4 DEF Next, Send, setMode, Tick
  <1> QED BY <1>1, <1>2, <1>3, <1>4

LEMMA RadioInvariant == Spec => []RInv
  BY InitRInv, NextRInv, PTL DEF Spec

LEMMA DecodedInvariant == Spec => [](GarbledIsDropped /\ WholeIsDecoded)
  <1>1. Init => GarbledIsDropped /\ WholeIsDecoded
    BY DEF Init, GarbledIsDropped, WholeIsDecoded, Ended
  <1> QED BY <1>1, NextDecoded, RadioInvariant, PTL DEF Spec

\* Nothing is decoded of a garbled burst, but when a switch of channel has mixed
\* the bursts of two channels (WimshPhy::handle).
THEOREM DropsGarbled == Spec => []GarbledIsDropped
  BY DecodedInvariant, PTL

\* What nothing interfered with is decoded (WimshPhy::handle,
\* WimshMac::recvBurst).
THEOREM DecodesWhole == Spec => []WholeIsDecoded
  BY DecodedInvariant, PTL

\* The burst whose end the timer announces is in the list (WimshPhy::handle).
THEOREM KeepsPending == Spec => PendingKept
  <1> DEFINE Kept == \A d \in rxBursts : d.burst /\ d.finish > 0 =>
                        \E e \in rxBursts' : e.src = d.src /\ e.burst
  <1>1. RInv /\ [Next]_vars => [Kept]_rxBursts
    <2> SUFFICES ASSUME RInv, [Next]_vars, rxBursts' # rxBursts,
                        NEW d \in rxBursts, d.burst, d.finish > 0
                 PROVE  \E e \in rxBursts' : e.src = d.src /\ e.burst
      OBVIOUS
    <2>1. Next BY DEF vars
    <2>2. d \in Descriptor BY DEF RInv, Typed
    <2>3. CASE \E n \in Source, c \in Channel, kind \in Kinds, lost \in BOOLEAN :
                  Send(n, c, kind, lost)
      <3>1. PICK n \in Source, kind \in Kinds, lost \in BOOLEAN :
               rxBursts' = Garble(rxBursts \cup {Desc(n, kind, lost)})
        BY <2>3 DEF Send
      <3> DEFINE S == rxBursts \cup {Desc(n, kind, lost)}
                 OnAir == {o \in S : o.channel = channel /\ o.finish > 0 /\ o.src \in Neighbor}
                 g(o) == [o EXCEPT !.garbled = @ \/ (o \in OnAir /\ o.burst /\ OnAir # {o})]
      <3>2. g(d) \in rxBursts' BY <3>1 DEF Garble
      <3>3. g(d).src = d.src /\ g(d).burst = d.burst BY <2>2 DEF Descriptor
      <3> QED BY <3>2, <3>3
    <2>4. CASE \E s \in {"RX", "TX"}, c \in Channel : setMode(s, c)
      <3>1. PICK s \in {"RX", "TX"}, c \in Channel : setMode(s, c) BY <2>4
      <3> DEFINE g(o) == [o EXCEPT !.error = @ \/ (Spoils(s, c) /\ o.finish > 0 /\ o.burst),
                                   !.garbled = @ \/ (o.finish > 0 /\ o.burst
                                                     /\ (s # "RX" \/ o.channel # c))]
      <3>2. g(d) \in rxBursts' BY <3>1 DEF setMode
      <3>3. g(d).src = d.src /\ g(d).burst = d.burst BY <2>2 DEF Descriptor
      <3> QED BY <3>2, <3>3
    <2>5. CASE \E cur \in rxBursts : End(cur)
      <3>1. PICK cur \in rxBursts : End(cur) BY <2>5
      <3> DEFINE x(e) == [e EXCEPT !.crossed = @ \/ (e.burst /\ e.channel # cur.channel)]
                 D == Cross(rxBursts \ {cur}, cur) \cup {Dispatched(cur)}
      <3>2. rxBursts' = Cleaned(D) /\ cur.finish = 0 BY <3>1 DEF End
      <3>3. x(d) \in D BY <3>2 DEF Cross
      <3>4. x(d).src = d.src /\ x(d).burst = d.burst /\ x(d).finish = d.finish
        BY <2>2 DEF Descriptor
      <3>5. D \in SUBSET Descriptor
        <4>1. \A e \in rxBursts : x(e) \in Descriptor BY DEF RInv, Typed, Descriptor
        <4>2. Dispatched(cur) \in Descriptor BY DEF RInv, Typed, Dispatched, Descriptor
        <4> QED BY <4>1, <4>2 DEF Cross
      <3> HIDE DEF D, x
      <3>6. x(d).finish >= 0 BY <2>2, <3>4, SMT DEF Descriptor
      <3>7. x(d) \in rxBursts' BY <3>2, <3>3, <3>5, <3>6, CleanedKeeps
      <3> QED BY <3>4, <3>7
    <2>6. CASE Tick
      <3> DEFINE g(o) == [o EXCEPT !.start = Older(@), !.finish = Older(@)]
      <3>1. g(d) \in rxBursts' BY <2>6 DEF Tick
      <3>2. g(d).src = d.src /\ g(d).burst = d.burst BY <2>2 DEF Descriptor
      <3> QED BY <3>1, <3>2
    <2> QED BY <2>1, <2>3, <2>4, <2>5, <2>6 DEF Next
  <1> QED BY <1>1, RadioInvariant, PTL DEF Spec, PendingKept

=============================================================================
