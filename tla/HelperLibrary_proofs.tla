------------------------ MODULE HelperLibrary_proofs ------------------------
(***************************************************************************)
(* Proofs about verified helpers, for every set of names, of sources and   *)
(* of seeds, every number of layers, rebuilds and retries.                 *)
(***************************************************************************)
EXTENDS HelperLibrary, FiniteSetTheorems, TLAPS

USE NamesAssumption, SourcesAssumption, SeedAssumption, BoundsAssumption
    DEF NamesAssumption, SourcesAssumption, SeedAssumption, BoundsAssumption

-----------------------------------------------------------------------------
(* The largest member of a bounded set, from the well-foundedness of the   *)
(* inclusion of finite sets.                                               *)

LEMMA SmallestSet ==
    ASSUME NEW S, NEW F \in SUBSET FiniteSubsetsOf(S), F # {}
    PROVE  \E T \in F : \A U \in F : U \subseteq T => U = T
<1>1. \E T \in F : \A U \in F : ~ (<<U, T>> \in StrictSubsetOrdering(S))
  BY FS_StrictSubsetOrderingWellFounded, WFMin
<1>2. QED
  BY <1>1 DEF StrictSubsetOrdering, FiniteSubsetsOf

LEMMA LeastNat ==
    ASSUME NEW S \in SUBSET Nat, S # {}
    PROVE  \E m \in S : \A n \in S : m <= n
<1> DEFINE F == {0..n : n \in S}
<1>1. ASSUME NEW n \in S PROVE 0..n \in FiniteSubsetsOf(Nat)
  <2>1. IsFiniteSet(0..n) /\ 0..n \in SUBSET Nat
    BY FS_Interval
  <2>2. QED
    BY <2>1 DEF FiniteSubsetsOf
<1>2. F \in SUBSET FiniteSubsetsOf(Nat) /\ F # {}
  BY <1>1
<1>3. \E T \in F : \A U \in F : U \subseteq T => U = T
  <2> HIDE DEF F
  <2> QED
    BY <1>2, SmallestSet
<1>4. PICK m \in S : \A U \in F : U \subseteq 0..m => U = 0..m
  BY <1>3
<1>5. ASSUME NEW n \in S, n < m PROVE FALSE
  <2>1. 0..n \subseteq 0..m /\ m \in 0..m /\ m \notin 0..n
    BY <1>5
  <2>2. QED
    BY <1>4, <2>1
<1>6. QED
  BY <1>5

LEMMA MaxOfBounded ==
    ASSUME NEW S \in SUBSET Nat, S # {}, NEW b \in Nat, \A n \in S : n <= b
    PROVE  Max(S) \in S /\ \A n \in S : n <= Max(S)
<1> DEFINE B == {u \in Nat : \A n \in S : n <= u}
<1>1. PICK u \in B : \A v \in B : u <= v
  <2>1. B \in SUBSET Nat /\ B # {}
    BY DEF B
  <2> HIDE DEF B
  <2>2. QED
    BY <2>1, LeastNat
<1>2. ASSUME u \notin S PROVE FALSE
  <2>1. \A n \in S : n < u
    BY <1>2
  <2>2. u - 1 \in Nat
    <3>1. PICK n \in S : TRUE
      OBVIOUS
    <3>2. QED
      BY <2>1, <3>1
  <2>3. \A n \in S : n <= u - 1
    BY <2>1
  <2>4. QED
    BY <1>1, <2>2, <2>3
<1>3. u \in S /\ \A n \in S : u >= n
  BY <1>2
<1>4. \E x \in S : \A y \in S : x >= y
  BY <1>3
<1>5. QED
  BY <1>4 DEF Max

-----------------------------------------------------------------------------
(* Merging and reachability *)

Layers == [lib : Libraries, verified : SUBSET Names, seed : BOOLEAN]

LEMMA LibraryShape ==
    ASSUME NEW lib \in Libraries
    PROVE  /\ DOMAIN lib \subseteq Names
           /\ lib = [n \in DOMAIN lib |-> lib[n]]
           /\ \A n \in DOMAIN lib : lib[n] \in Sources /\ lib[n].calls \subseteq Names
<1>1. PICK S \in SUBSET Names : lib \in [S -> Sources]
  BY DEF Libraries
<1>2. QED
  BY <1>1

\* A merged library holds exactly the names of its layers, each from the
\* last layer that defines it.
LEMMA SuppliedIsLast ==
    ASSUME NEW codes \in Seq(Layers), NEW layers \in SUBSET (DOMAIN codes)
    PROVE  /\ DOMAIN Supplied(codes, layers) = UNION {DOMAIN codes[i].lib : i \in layers}
           /\ \A n \in DOMAIN Supplied(codes, layers) :
                 LET top == Supplied(codes, layers)[n]
                 IN  /\ top \in layers
                     /\ n \in DOMAIN codes[top].lib
                     /\ \A i \in layers : n \in DOMAIN codes[i].lib => i <= top
<1>1. ASSUME NEW n \in UNION {DOMAIN codes[i].lib : i \in layers}
      PROVE  LET top == Supplied(codes, layers)[n]
             IN  /\ top \in layers
                 /\ n \in DOMAIN codes[top].lib
                 /\ \A i \in layers : n \in DOMAIN codes[i].lib => i <= top
  <2> DEFINE S == {i \in layers : n \in DOMAIN codes[i].lib}
  <2>1. S \in SUBSET Nat /\ S # {} /\ Len(codes) \in Nat /\ \A i \in S : i <= Len(codes)
    BY <1>1
  <2>2. Max(S) \in S /\ \A i \in S : i <= Max(S)
    <3> HIDE DEF S
    <3> QED
      BY <2>1, MaxOfBounded
  <2>3. Supplied(codes, layers)[n] = Max(S)
    BY <1>1 DEF Supplied
  <2>4. QED
    BY <2>2, <2>3
<1>2. DOMAIN Supplied(codes, layers) = UNION {DOMAIN codes[i].lib : i \in layers}
  BY DEF Supplied
<1>3. QED
  BY <1>1, <1>2

\* The environment of a layer is a library over the names of the layers up
\* to it.
LEMMA EnvShape ==
    ASSUME NEW codes \in Seq(Layers), NEW i \in 0..Len(codes)
    PROVE  /\ VerifyEnv(codes, i) \in Libraries
           /\ DOMAIN VerifyEnv(codes, i) = UNION {DOMAIN codes[j].lib : j \in 1..i}
           /\ \A n \in DOMAIN VerifyEnv(codes, i) :
                 \E j \in 1..i :
                     /\ n \in DOMAIN codes[j].lib
                     /\ VerifyEnv(codes, i)[n] = codes[j].lib[n]
                     /\ \A k \in 1..i : n \in DOMAIN codes[k].lib => k <= j
<1> DEFINE env == VerifyEnv(codes, i)
           below == Supplied(codes, 1..i)
<1>1. 1..i \in SUBSET (DOMAIN codes)
  OBVIOUS
<1>2. /\ DOMAIN below = UNION {DOMAIN codes[j].lib : j \in 1..i}
      /\ \A n \in DOMAIN below :
            /\ below[n] \in 1..i
            /\ n \in DOMAIN codes[below[n]].lib
            /\ \A k \in 1..i : n \in DOMAIN codes[k].lib => k <= below[n]
  BY <1>1, SuppliedIsLast
<1> HIDE DEF below
<1>3. /\ DOMAIN env = DOMAIN below
      /\ env = [n \in DOMAIN below |-> codes[below[n]].lib[n]]
  BY DEF VerifyEnv, below
<1>4. \A j \in 1..i : codes[j].lib \in Libraries
  <2>1. \A j \in 1..i : codes[j] \in Layers
    BY <1>1
  <2>2. QED
    BY <2>1 DEF Layers
<1>5. DOMAIN below \in SUBSET Names
  BY <1>2, <1>4, LibraryShape
<1>6. \A n \in DOMAIN below : codes[below[n]].lib[n] \in Sources
  BY <1>2, <1>4, LibraryShape
<1>7. env \in [DOMAIN below -> Sources]
  BY <1>3, <1>6
<1>8. env \in Libraries
  BY <1>5, <1>7 DEF Libraries
<1>9. QED
  BY <1>2, <1>3, <1>8

\* What is reached holds where it starts and whatever its members call ...
LEMMA ReachIsClosed ==
    ASSUME NEW lib \in Libraries, NEW S \in SUBSET Names
    PROVE  /\ S \subseteq Reach(S, lib)
           /\ Reach(S, lib) \subseteq Names
           /\ \A n \in Reach(S, lib) \cap DOMAIN lib : lib[n].calls \subseteq Reach(S, lib)
<1>1. S \subseteq Reach(S, lib) /\ Reach(S, lib) \subseteq Names
  BY DEF Reach
<1>2. ASSUME NEW n \in Reach(S, lib) \cap DOMAIN lib, NEW m \in lib[n].calls
      PROVE  m \in Reach(S, lib)
  <2>1. m \in Names
    BY LibraryShape
  <2>2. ASSUME NEW R \in SUBSET Names, S \subseteq R,
               \A k \in R \cap DOMAIN lib : lib[k].calls \subseteq R
        PROVE  m \in R
    <3>1. n \in R
      BY <2>2 DEF Reach
    <3>2. QED
      BY <2>2, <3>1
  <2>3. QED
    BY <2>1, <2>2 DEF Reach
<1>3. QED
  BY <1>1, <1>2

\* ... and nothing more.
LEMMA ReachIsLeast ==
    ASSUME NEW lib, NEW S, NEW R \in SUBSET Names, S \subseteq R,
           \A n \in R \cap DOMAIN lib : lib[n].calls \subseteq R
    PROVE  Reach(S, lib) \subseteq R
BY DEF Reach

\* Helpers that can pass reach only what the environment defines, together
\* as well as one by one.
LEMMA PassedReachTheirs ==
    ASSUME NEW env \in Libraries, NEW P \in SUBSET Names,
           \A p \in P : Reach({p}, env) \subseteq DOMAIN env
    PROVE  Reach(P, env) \subseteq DOMAIN env
<1> DEFINE R == UNION {Reach({p}, env) : p \in P}
<1>1. \A p \in P : /\ p \in Reach({p}, env)
                   /\ Reach({p}, env) \subseteq Names
                   /\ \A n \in Reach({p}, env) \cap DOMAIN env :
                         env[n].calls \subseteq Reach({p}, env)
  BY ReachIsClosed
<1>2. R \in SUBSET Names /\ P \subseteq R
  BY <1>1
<1>3. \A n \in R \cap DOMAIN env : env[n].calls \subseteq R
  BY <1>1
<1>4. R \subseteq DOMAIN env
  OBVIOUS
<1>5. Reach(P, env) \subseteq R
  <2> HIDE DEF R
  <2> QED
    BY <1>2, <1>3, ReachIsLeast
<1>6. QED
  BY <1>4, <1>5

-----------------------------------------------------------------------------
(* The inductive invariant *)

Judgeable == {"built", "solving", "stamped"}

TypeOK ==
    /\ conf \in Configurations
    /\ chain \in Seq(Layers)
    /\ at \in 0..Len(chain)
    /\ rebuilds \in 0..MaxRebuilds
    /\ phase \in {"authored", "archived"} \cup Judgeable
    /\ tries \in 0..(MaxRetries + 1)
    /\ phase \in {"authored", "built"} => tries = 0
    /\ phase = "solving" => tries <= MaxRetries
    /\ answer \in [score : Nat, script : Scripts]
    /\ barred \in BOOLEAN

\* Only the first layer is the seed's, and a layer that was just written is
\* neither the seed's nor verified.
Written ==
    /\ \A i \in DOMAIN chain : chain[i].seed => i = 1
    /\ phase = "authored" =>
          at > 0 /\ ~chain[at].seed /\ chain[at].verified = {}

\* With a harness, what the gate let through is not broken; without one,
\* nothing ever ran.
Vetted ==
    /\ conf.oracle =>
          \A i \in DOMAIN chain :
              ~chain[i].seed /\ ~(phase = "authored" /\ i = at) =>
                  \A n \in DOMAIN chain[i].lib : ~chain[i].lib[n].broken
    /\ ~conf.oracle => \A i \in DOMAIN chain : chain[i].verified = {}

\* What was verified in the layer written last reaches, in the environment
\* that is staged, only helpers this environment defines; and the seed's
\* were no obstacle.
Whole(codes, i) ==
    codes[i].verified # {} =>
        /\ \A j \in 1..i : \A n \in DOMAIN codes[j].lib : ~codes[j].lib[n].broken
        /\ SelfContained(codes, i - 1) =>
              \A n \in codes[i].verified :
                  Reach({n}, VerifyEnv(codes, i)) \subseteq DOMAIN VerifyEnv(codes, i)

Gated == phase \in Judgeable => at > 0 /\ Whole(chain, at)

BarStands == barred => phase = "archived" /\ Barred

IInv == TypeOK /\ Written /\ Vetted /\ Gated /\ BarStands

-----------------------------------------------------------------------------
(* The dependency-aware keep *)

LEMMA ReplacedInSeq ==
    ASSUME NEW S, NEW s \in Seq(S), NEW i \in DOMAIN s, NEW x \in S
    PROVE  LET t == [s EXCEPT ![i] = x]
           IN  /\ t \in Seq(S)
               /\ Len(t) = Len(s)
               /\ DOMAIN t = DOMAIN s
               /\ t[i] = x
               /\ \A j \in DOMAIN s \ {i} : t[j] = s[j]
OBVIOUS

\* Rebuilding a layer from what passed and what that calls strands nothing,
\* over layers that are self-contained.
LEMMA KeptIsWhole ==
    ASSUME NEW codes \in Seq(Layers), NEW i \in 1..Len(codes),
           NEW new \in Seq(Layers), Len(new) = Len(codes),
           \A j \in 1..(i - 1) : new[j] = codes[j],
           NEW P \in SUBSET (DOMAIN codes[i].lib),
           new[i].lib = [n \in Kept(codes[i].lib, P) |-> codes[i].lib[n]],
           \A p \in P : Reach({p}, VerifyEnv(codes, i)) \subseteq DOMAIN VerifyEnv(codes, i),
           SelfContained(new, i - 1)
    PROVE  \A n \in P : Reach({n}, VerifyEnv(new, i)) \subseteq DOMAIN VerifyEnv(new, i)
<1> DEFINE lib == codes[i].lib
           K == Kept(lib, P)
           env == VerifyEnv(codes, i)
           env2 == VerifyEnv(new, i)
           low == VerifyEnv(new, i - 1)
<1>1. i \in 0..Len(codes) /\ i \in 0..Len(new) /\ i - 1 \in 0..Len(new)
  OBVIOUS
<1>2. lib \in Libraries /\ DOMAIN lib \subseteq Names /\ P \in SUBSET Names
  <2>1. codes[i] \in Layers
    OBVIOUS
  <2>2. lib \in Libraries
    BY <2>1 DEF Layers
  <2>3. QED
    BY <2>2, LibraryShape
<1>3. /\ env \in Libraries
      /\ DOMAIN env = UNION {DOMAIN codes[j].lib : j \in 1..i}
      /\ \A n \in DOMAIN env :
            \E j \in 1..i :
                /\ n \in DOMAIN codes[j].lib
                /\ env[n] = codes[j].lib[n]
                /\ \A k \in 1..i : n \in DOMAIN codes[k].lib => k <= j
  BY <1>1, EnvShape
<1>4. /\ env2 \in Libraries
      /\ DOMAIN env2 = UNION {DOMAIN new[j].lib : j \in 1..i}
      /\ \A n \in DOMAIN env2 :
            \E j \in 1..i :
                /\ n \in DOMAIN new[j].lib
                /\ env2[n] = new[j].lib[n]
                /\ \A k \in 1..i : n \in DOMAIN new[k].lib => k <= j
  BY <1>1, EnvShape
<1>5. /\ low \in Libraries
      /\ DOMAIN low = UNION {DOMAIN new[j].lib : j \in 1..(i - 1)}
      /\ \A n \in DOMAIN low :
            \E j \in 1..(i - 1) :
                /\ n \in DOMAIN new[j].lib
                /\ low[n] = new[j].lib[n]
                /\ \A k \in 1..(i - 1) : n \in DOMAIN new[k].lib => k <= j
  BY <1>1, EnvShape
<1>6. DOMAIN new[i].lib = K /\ \A n \in K : new[i].lib[n] = lib[n]
  OBVIOUS
<1>7. P \subseteq K /\ K \subseteq DOMAIN lib /\ K = Reach(P, lib) \cap DOMAIN lib
  BY <1>2, ReachIsClosed DEF Kept
<1>8. SelfContained(new, i - 1) <=> \A n \in DOMAIN low : low[n].calls \subseteq DOMAIN low
  BY DEF SelfContained
<1> HIDE DEF env, env2, low, K, lib
<1>9. DOMAIN env2 = DOMAIN low \cup K
  <2>1. \A j \in 1..i : j = i \/ j \in 1..(i - 1)
    OBVIOUS
  <2>2. QED
    BY <1>4, <1>5, <1>6, <2>1
<1>10. DOMAIN env \subseteq DOMAIN low \cup DOMAIN lib
  <2>1. \A j \in 1..i : j = i \/ j \in 1..(i - 1)
    OBVIOUS
  <2>2. QED
    BY <1>3, <1>5, <2>1 DEF lib
<1>11. ASSUME NEW n \in DOMAIN lib PROVE n \in DOMAIN env /\ env[n] = lib[n]
  <2>1. i \in 1..i /\ n \in DOMAIN codes[i].lib
    BY DEF lib
  <2>2. n \in DOMAIN env
    BY <1>3, <2>1
  <2>3. PICK j \in 1..i : env[n] = codes[j].lib[n] /\ i <= j
    BY <1>3, <2>1, <2>2
  <2>4. QED
    BY <2>2, <2>3 DEF lib
<1>12. ASSUME NEW n \in K PROVE env2[n] = lib[n]
  <2>1. n \in DOMAIN env2 /\ n \in DOMAIN new[i].lib /\ i \in 1..i
    BY <1>6, <1>9
  <2>2. PICK j \in 1..i : env2[n] = new[j].lib[n] /\ i <= j
    BY <1>4, <2>1
  <2>3. j = i
    BY <2>2
  <2>4. QED
    BY <1>6, <2>2, <2>3
<1>13. ASSUME NEW n \in DOMAIN low, n \notin K PROVE env2[n] = low[n]
  <2>1. n \in DOMAIN env2 /\ n \notin DOMAIN new[i].lib
    BY <1>6, <1>9, <1>13
  <2>2. PICK j \in 1..i : /\ n \in DOMAIN new[j].lib
                          /\ env2[n] = new[j].lib[n]
                          /\ \A k \in 1..i : n \in DOMAIN new[k].lib => k <= j
    BY <1>4, <2>1
  <2>3. PICK l \in 1..(i - 1) : /\ n \in DOMAIN new[l].lib
                                /\ low[n] = new[l].lib[n]
                                /\ \A k \in 1..(i - 1) : n \in DOMAIN new[k].lib => k <= l
    BY <1>5
  <2>4. j # i
    BY <2>1, <2>2
  <2>5. j \in 1..(i - 1) /\ l \in 1..i
    BY <2>4
  <2>6. j <= l /\ l <= j
    BY <2>2, <2>3, <2>5
  <2>7. j = l
    BY <2>6
  <2>8. QED
    BY <2>2, <2>3, <2>7
<1>14. Reach(P, lib) \subseteq DOMAIN env
  <2>1. Reach(P, env) \in SUBSET Names /\ P \subseteq Reach(P, env)
    BY <1>2, <1>3, ReachIsClosed
  <2>2. \A n \in Reach(P, env) \cap DOMAIN lib : lib[n].calls \subseteq Reach(P, env)
    BY <1>2, <1>3, <1>11, ReachIsClosed
  <2>3. Reach(P, lib) \subseteq Reach(P, env)
    BY <2>1, <2>2, ReachIsLeast
  <2>4. \A p \in P : Reach({p}, env) \subseteq DOMAIN env
    BY DEF env
  <2>5. Reach(P, env) \subseteq DOMAIN env
    BY <1>2, <1>3, <2>4, PassedReachTheirs
  <2>6. QED
    BY <2>3, <2>5
<1>15. \A n \in DOMAIN env2 : env2[n].calls \subseteq DOMAIN env2
  <2>1. ASSUME NEW n \in K PROVE lib[n].calls \subseteq DOMAIN env2
    <3>1. lib[n].calls \subseteq Reach(P, lib)
      BY <1>2, <1>7, ReachIsClosed
    <3>2. QED
      BY <1>7, <1>9, <1>10, <1>14, <3>1
  <2>2. ASSUME NEW n \in DOMAIN low PROVE low[n].calls \subseteq DOMAIN env2
    BY <1>8, <1>9
  <2>3. QED
    BY <1>9, <1>12, <1>13, <2>1, <2>2
<1>16. ASSUME NEW n \in P PROVE Reach({n}, env2) \subseteq DOMAIN env2
  <2>1. {n} \subseteq DOMAIN env2
    BY <1>7, <1>9
  <2>2. DOMAIN env2 \in SUBSET Names
    BY <1>4, LibraryShape
  <2>3. QED
    BY <1>15, <2>1, <2>2, ReachIsLeast
<1>17. QED
  BY <1>16 DEF env2

-----------------------------------------------------------------------------
(* Every step keeps the invariant *)

LEMMA InitIInv == Init => IInv
<1> SUFFICES ASSUME Init PROVE IInv
  OBVIOUS
<1>1. PICK seeds \in SeedLibraries :
          chain = IF seeds = <<>> THEN <<>> ELSE <<Layer(seeds, {}, TRUE)>>
  BY DEF Init
<1>2. Layer(seeds, {}, TRUE) \in Layers
  BY DEF Layer, Layers
<1>3. chain \in Seq(Layers) /\ Len(chain) \in {0, 1} /\ DOMAIN chain \subseteq {1}
  <2>1. chain = <<>> \/ chain = <<Layer(seeds, {}, TRUE)>>
    BY <1>1
  <2>2. CASE chain = <<>>
    BY <2>2
  <2>3. CASE chain = <<Layer(seeds, {}, TRUE)>>
    <3> DEFINE x == Layer(seeds, {}, TRUE)
    <3> HIDE DEF x
    <3>1. x \in Layers /\ chain = <<x>>
      BY <1>2, <2>3 DEF x
    <3>2. QED
      BY <3>1
  <2>4. QED
    BY <2>1, <2>2, <2>3
<1>4. \A i \in DOMAIN chain : chain[i].seed /\ chain[i].verified = {}
  BY <1>1 DEF Layer
<1>5. NoTrace \in [score : Nat, script : Scripts]
  BY DEF NoTrace, Blank, Scripts
<1>6. TypeOK
  <2>1. at \in 0..Len(chain) /\ rebuilds \in 0..MaxRebuilds /\ tries \in 0..(MaxRetries + 1)
    BY <1>3 DEF Init
  <2>2. QED
    BY <1>3, <1>5, <2>1 DEF Init, TypeOK, Judgeable
<1>7. Written /\ Vetted /\ Gated /\ BarStands
  BY <1>3, <1>4 DEF Init, Written, Vetted, Gated, BarStands, Judgeable
<1>8. QED
  BY <1>6, <1>7 DEF IInv

\* Generate, Refine and Repropagate write one layer and keep the others.
LEMMA WriteKeepsIInv ==
    ASSUME IInv, phase # "authored",
           NEW lib \in Libraries, NEW codes \in Seq(Layers), NEW i \in DOMAIN codes,
           \A j \in DOMAIN codes \ {i} : j \in DOMAIN chain /\ codes[j] = chain[j],
           Write(i, lib, codes), rebuilds' \in 0..MaxRebuilds
    PROVE  IInv'
<1> USE DEF IInv
<1>1. Layer(lib, {}, FALSE) \in Layers
  BY DEF Layer, Layers
<1>2. /\ chain' \in Seq(Layers)
      /\ Len(chain') = Len(codes)
      /\ DOMAIN chain' = DOMAIN codes
      /\ chain'[i] = Layer(lib, {}, FALSE)
      /\ \A j \in DOMAIN chain' \ {i} : j \in DOMAIN chain /\ chain'[j] = chain[j]
  <2> DEFINE x == Layer(lib, {}, FALSE)
  <2>1. chain' = [codes EXCEPT ![i] = x]
    BY DEF Write
  <2>2. x \in Layers
    BY <1>1
  <2> HIDE DEF x
  <2> DEFINE t == [codes EXCEPT ![i] = x]
  <2>3. /\ t \in Seq(Layers)
        /\ Len(t) = Len(codes)
        /\ DOMAIN t = DOMAIN codes
        /\ t[i] = x
        /\ \A j \in DOMAIN codes \ {i} : t[j] = codes[j]
    BY <2>2, ReplacedInSeq
  <2> HIDE DEF t
  <2>4. /\ chain' \in Seq(Layers)
        /\ Len(chain') = Len(codes)
        /\ DOMAIN chain' = DOMAIN codes
        /\ chain'[i] = x
        /\ \A j \in DOMAIN codes \ {i} : chain'[j] = codes[j]
    BY <2>1, <2>3 DEF t
  <2>5. QED
    BY <2>4 DEF x
<1>3. conf' = conf /\ at' = i /\ i > 0 /\ phase' = "authored" /\ ~barred'
  BY DEF Write
<1>4. TypeOK'
  <2>1. NoTrace \in [score : Nat, script : Scripts]
    BY DEF NoTrace, Blank, Scripts
  <2>2. i \in 0..Len(chain') /\ 0 \in 0..(MaxRetries + 1)
    BY <1>2
  <2>3. tries' = 0 /\ answer' = NoTrace /\ barred' = FALSE
    BY DEF Write
  <2>4. conf' \in Configurations
    BY <1>3 DEF TypeOK
  <2>5. QED
    BY <1>2, <1>3, <2>1, <2>2, <2>3, <2>4 DEF TypeOK, Judgeable
<1>5. ~chain'[i].seed /\ chain'[i].verified = {}
  BY <1>2 DEF Layer
<1>6. Written'
  BY <1>2, <1>3, <1>5 DEF Written
<1>7. Vetted'
  BY <1>2, <1>3, <1>5 DEF Vetted
<1>8. Gated' /\ BarStands'
  BY <1>3 DEF Gated, BarStands, Judgeable
<1>9. QED
  BY <1>4, <1>6, <1>7, <1>8

LEMMA GenerateKeepsIInv == IInv /\ Generate => IInv'
<1> SUFFICES ASSUME IInv, Generate PROVE IInv'
  OBVIOUS
<1>1. PICK lib \in Libraries :
          Write(Len(chain) + 1, lib, Append(chain, Layer(lib, {}, FALSE)))
  BY DEF Generate
<1> DEFINE codes == Append(chain, Layer(lib, {}, FALSE))
<1>2. chain \in Seq(Layers) /\ phase # "authored" /\ rebuilds' \in 0..MaxRebuilds
  BY DEF IInv, TypeOK, Generate
<1>3. Layer(lib, {}, FALSE) \in Layers
  BY DEF Layer, Layers
<1>4. /\ codes \in Seq(Layers)
      /\ Len(chain) + 1 \in DOMAIN codes
      /\ \A j \in DOMAIN codes \ {Len(chain) + 1} : j \in DOMAIN chain /\ codes[j] = chain[j]
  <2> DEFINE x == Layer(lib, {}, FALSE)
  <2>1. x \in Layers /\ codes = Append(chain, x)
    BY <1>3
  <2> HIDE DEF x, codes
  <2>2. codes \in Seq(Layers) /\ Len(codes) = Len(chain) + 1
    BY <1>2, <2>1
  <2>3. \A j \in 1..Len(chain) : codes[j] = chain[j]
    BY <1>2, <2>1
  <2>4. QED
    BY <1>2, <2>2, <2>3
<1>5. QED
  BY <1>1, <1>2, <1>4, WriteKeepsIInv

LEMMA RefineKeepsIInv == IInv /\ Refine => IInv'
<1> SUFFICES ASSUME IInv, Refine PROVE IInv'
  OBVIOUS
<1>1. PICK lib \in Libraries : Write(at, lib, chain)
  BY DEF Refine
<1>2. chain \in Seq(Layers) /\ phase # "authored" /\ rebuilds' \in 0..MaxRebuilds
  BY DEF IInv, TypeOK, Refine
<1>3. at \in DOMAIN chain
  BY DEF IInv, TypeOK, Gated, Judgeable, Refine
<1>4. QED
  BY <1>1, <1>2, <1>3, WriteKeepsIInv

LEMMA RepropagateKeepsIInv == IInv /\ Repropagate => IInv'
<1> SUFFICES ASSUME IInv, Repropagate PROVE IInv'
  OBVIOUS
<1>1. PICK lib \in Libraries : Write(Len(chain) - 1, lib, chain)
  BY DEF Repropagate
<1>2. chain \in Seq(Layers) /\ phase # "authored" /\ rebuilds' \in 0..MaxRebuilds
  BY DEF IInv, TypeOK, Repropagate
<1>3. Len(chain) - 1 \in DOMAIN chain
  BY <1>2 DEF Repropagate
<1>4. QED
  BY <1>1, <1>2, <1>3, WriteKeepsIInv

LEMMA VerifyKeepsIInv == IInv /\ Verify => IInv'
<1> SUFFICES ASSUME IInv, Verify PROVE IInv'
  OBVIOUS
<1>1. PICK verdict \in Verdicts(chain, at) :
          chain' = [chain EXCEPT ![at] = Filtered(chain[at], verdict)]
  BY DEF Verify
<1> DEFINE lib == chain[at].lib
           P == verdict.passed
           kept == Kept(lib, P)
           new == Filtered(chain[at], verdict)
<1>2. /\ chain \in Seq(Layers)
      /\ at \in DOMAIN chain
      /\ at \in 1..Len(chain)
      /\ chain[at] \in Layers
      /\ ~chain[at].seed
      /\ phase = "authored"
  BY DEF IInv, TypeOK, Written, Verify
<1>3. lib \in Libraries
  BY <1>2 DEF Layers
<1>4. DOMAIN lib \subseteq Names /\ \A n \in DOMAIN lib : lib[n] \in Sources
  BY <1>3, LibraryShape
<1>5. /\ P \in SUBSET (DOMAIN lib)
      /\ conf.oracle => P \subseteq CanPass(chain, at) /\ verdict.ran = P
      /\ ~conf.oracle => verdict.ran = {}
  <2>1. CASE conf.oracle
    <3>1. CanPass(chain, at) \subseteq DOMAIN lib
      BY DEF CanPass
    <3>2. PICK Q \in SUBSET CanPass(chain, at) : verdict = [passed |-> Q, ran |-> Q]
      BY <2>1 DEF Verdicts
    <3>3. QED
      BY <2>1, <3>1, <3>2
  <2>2. CASE ~conf.oracle
    <3>1. verdict = [passed |-> DOMAIN lib, ran |-> {}]
      BY <2>2 DEF Verdicts
    <3>2. QED
      BY <2>2, <3>1
  <2>3. QED
    BY <2>1, <2>2
<1>6. kept \subseteq DOMAIN lib
  BY DEF Kept
<1>7. /\ new.lib = [n \in kept |-> lib[n]]
      /\ new.verified = verdict.ran
      /\ new.seed = FALSE
  BY DEF Filtered, Layer
<1>8. new \in Layers
  <2>1. [n \in kept |-> lib[n]] \in [kept -> Sources]
    BY <1>4, <1>6
  <2>2. [n \in kept |-> lib[n]] \in Libraries
    BY <1>4, <1>6, <2>1 DEF Libraries
  <2>3. verdict.ran \in SUBSET Names
    BY <1>4, <1>5
  <2>4. QED
    BY <2>2, <2>3 DEF Layers, Filtered, Layer
<1>9. /\ chain' \in Seq(Layers)
      /\ Len(chain') = Len(chain)
      /\ DOMAIN chain' = DOMAIN chain
      /\ chain'[at] = new
      /\ \A j \in DOMAIN chain \ {at} : chain'[j] = chain[j]
  <2> HIDE DEF new
  <2> QED
    BY <1>1, <1>2, <1>8, ReplacedInSeq DEF new
<1>10. /\ conf' = conf /\ at' = at /\ rebuilds' = rebuilds /\ tries' = tries
       /\ answer' = answer /\ barred' = barred /\ phase' = "built"
  BY DEF Verify
<1>11. TypeOK'
  <2>1. tries = 0
    BY <1>2 DEF IInv, TypeOK
  <2>2. QED
    BY <1>9, <1>10, <2>1 DEF IInv, TypeOK, Judgeable
<1>12. Written'
  BY <1>2, <1>7, <1>9, <1>10 DEF IInv, Written
<1>13. ASSUME conf.oracle, P # {}
       PROVE  \A j \in 1..at : \A n \in DOMAIN chain[j].lib : ~chain[j].lib[n].broken
  <2>1. PICK p \in P : p \in CanPass(chain, at)
    BY <1>5, <1>13
  <2>2. QED
    BY <2>1 DEF CanPass
<1>14. ASSUME conf.oracle, NEW n \in kept PROVE ~lib[n].broken
  <2>1. CASE P = {}
    <3>1. {} \in SUBSET Names
      OBVIOUS
    <3>2. Reach({}, lib) \subseteq {}
      BY <3>1, ReachIsLeast
    <3>3. QED
      BY <2>1, <3>2 DEF Kept
  <2>2. CASE P # {}
    BY <1>2, <1>6, <1>13, <1>14, <2>2
  <2>3. QED
    BY <2>1, <2>2
<1>15. Vetted'
  <2>1. ASSUME conf.oracle, NEW j \in DOMAIN chain, ~chain'[j].seed,
               NEW n \in DOMAIN chain'[j].lib
        PROVE  ~chain'[j].lib[n].broken
    <3>1. CASE j = at
      BY <1>7, <1>9, <1>14, <2>1, <3>1
    <3>2. CASE j # at
      BY <1>9, <2>1, <3>2 DEF IInv, Vetted
    <3>3. QED
      BY <3>1, <3>2
  <2>2. ASSUME ~conf.oracle, NEW j \in DOMAIN chain PROVE chain'[j].verified = {}
    BY <1>5, <1>7, <1>9, <2>2 DEF IInv, Vetted
  <2>3. QED
    BY <1>9, <1>10, <2>1, <2>2 DEF Vetted
<1>16. Whole(chain', at)
  <2> SUFFICES ASSUME new.verified # {} PROVE
          /\ \A j \in 1..at : \A n \in DOMAIN chain'[j].lib : ~chain'[j].lib[n].broken
          /\ SelfContained(chain', at - 1) =>
                \A n \in new.verified :
                    Reach({n}, VerifyEnv(chain', at)) \subseteq DOMAIN VerifyEnv(chain', at)
    BY <1>9 DEF Whole
  <2>1. conf.oracle /\ new.verified = P /\ P # {} /\ P \subseteq CanPass(chain, at)
    BY <1>5, <1>7
  <2>2. ASSUME NEW j \in 1..at, NEW n \in DOMAIN chain'[j].lib
        PROVE  ~chain'[j].lib[n].broken
    <3>1. CASE j = at
      BY <1>7, <1>9, <1>14, <2>1, <3>1
    <3>2. CASE j # at
      BY <1>2, <1>9, <1>13, <2>1, <3>2
    <3>3. QED
      BY <3>1, <3>2
  <2>3. ASSUME SelfContained(chain', at - 1)
        PROVE  \A n \in P : Reach({n}, VerifyEnv(chain', at)) \subseteq DOMAIN VerifyEnv(chain', at)
    <3>1. \A j \in 1..(at - 1) : chain'[j] = chain[j]
      BY <1>2, <1>9
    <3>2. \A p \in P : Reach({p}, VerifyEnv(chain, at)) \subseteq DOMAIN VerifyEnv(chain, at)
      BY <2>1 DEF CanPass
    <3>3. chain'[at].lib = [n \in Kept(chain[at].lib, P) |-> chain[at].lib[n]]
      BY <1>7, <1>9
    <3> HIDE DEF P
    <3>4. QED
      BY <1>2, <1>5, <1>9, <2>3, <3>1, <3>2, <3>3, KeptIsWhole
  <2>4. QED
    BY <2>1, <2>2, <2>3
<1>17. Gated'
  BY <1>2, <1>10, <1>16 DEF Gated
<1>18. BarStands'
  BY <1>2, <1>10 DEF IInv, BarStands
<1>19. QED
  BY <1>11, <1>12, <1>15, <1>17, <1>18 DEF IInv

LEMMA AttemptKeepsIInv == IInv /\ Attempt => IInv'
<1> SUFFICES ASSUME IInv, Attempt PROVE IInv'
  OBVIOUS
<1>1. PICK script \in Scripts, score \in Scores :
          answer' = IF tries = 0 \/ score > answer.score
                    THEN [score |-> score, script |-> Deployed(script)] ELSE answer
  BY DEF Attempt
<1>2. Deployed(script) \in Scripts
  BY DEF Deployed, Blank, Scripts
<1>3. answer' \in [score : Nat, script : Scripts]
  BY <1>1, <1>2 DEF IInv, TypeOK
<1>4. /\ conf' = conf /\ chain' = chain /\ at' = at /\ rebuilds' = rebuilds
      /\ barred' = barred /\ tries' = tries + 1
      /\ phase \in {"built", "solving"} /\ phase' \in {"solving", "stamped"}
      /\ phase' = "solving" => tries < MaxRetries
  BY DEF Attempt
<1>5. TypeOK'
  BY <1>3, <1>4 DEF IInv, TypeOK, Judgeable
<1>6. Written' /\ Vetted' /\ Gated'
  BY <1>4 DEF IInv, Written, Vetted, Gated, Judgeable
<1>7. BarStands'
  BY <1>4 DEF IInv, BarStands
<1>8. QED
  BY <1>5, <1>6, <1>7 DEF IInv

\* A verdict on a trace reads nothing but the chain, the trace and how the
\* run was started.
LEMMA BarredReads ==
    ASSUME chain' = chain, conf' = conf, answer' = answer
    PROVE  Barred' = Barred
BY DEF Barred, VerifiedNames, Counted, Called, Offered, Merged, Demoted, Source, Loads

LEMMA AddKeepsIInv == IInv /\ Add => IInv'
<1> SUFFICES ASSUME IInv, Add PROVE IInv'
  OBVIOUS
<1>1. /\ conf' = conf /\ chain' = chain /\ at' = at /\ rebuilds' = rebuilds
      /\ tries' = tries /\ answer' = answer /\ barred' = Barred
      /\ phase = "stamped" /\ phase' = "archived"
  BY DEF Add
<1>2. Barred \in BOOLEAN
  BY DEF Barred
<1>3. TypeOK'
  BY <1>1, <1>2 DEF IInv, TypeOK, Judgeable
<1>4. Written' /\ Vetted' /\ Gated'
  BY <1>1 DEF IInv, Written, Vetted, Gated, Judgeable
<1>5. BarStands'
  BY <1>1, BarredReads DEF BarStands
<1>6. QED
  BY <1>3, <1>4, <1>5 DEF IInv

LEMMA StutterKeepsIInv == IInv /\ UNCHANGED vars => IInv'
<1> SUFFICES ASSUME IInv, UNCHANGED vars PROVE IInv'
  OBVIOUS
<1>1. TypeOK' /\ Written' /\ Vetted' /\ Gated'
  BY DEF vars, IInv, TypeOK, Written, Vetted, Gated
<1>2. BarStands'
  BY BarredReads DEF vars, IInv, BarStands
<1>3. QED
  BY <1>1, <1>2 DEF IInv

LEMMA IInvHolds == Spec => []IInv
<1>1. IInv /\ [Next]_vars => IInv'
  BY GenerateKeepsIInv, RefineKeepsIInv, RepropagateKeepsIInv, VerifyKeepsIInv,
     AttemptKeepsIInv, AddKeepsIInv, StutterKeepsIInv DEF Next
<1>2. QED
  BY <1>1, InitIInv, PTL DEF Spec

-----------------------------------------------------------------------------
(* The theorems *)

\* Every variable keeps its type; a trace stands for at most one execution
\* more than the configured retries (MetaLayer.execute).
THEOREM HelpersAreWellTyped == Spec => []TypeOK
<1>1. IInv => TypeOK
  BY DEF IInv
<1>2. QED
  BY <1>1, IInvHolds, PTL

\* What the sandbox passed finds all it reached where it is staged, for any
\* sources and over any number of self-contained layers (the
\* dependency-aware keep of the held-out gate): on the paths that prepend the
\* helpers to one script always, elsewhere when it calls no other.
THEOREM VerifiedHelpersAreWhole == Spec => []VerifiedHelpersFindTheirCalls
<1>1. IInv => VerifiedHelpersFindTheirCalls
  <2> SUFFICES ASSUME IInv, phase \in Judgeable, at > 0, SelfContained(chain, at - 1),
                      conf.path = "spine" \/ (Live /\ conf.sandboxed),
                      NEW n \in chain[at].verified,
                      Shared \/ Reach({n}, VerifyEnv(chain, at)) = {n}
               PROVE  Reach({n}, VerifyEnv(chain, at)) \subseteq Visible(n)
    BY DEF VerifiedHelpersFindTheirCalls, Judgeable
  <2>1. chain \in Seq(Layers) /\ at \in DOMAIN chain /\ at \in 0..Len(chain)
    BY DEF IInv, TypeOK
  <2>2. /\ \A j \in 1..at : \A m \in DOMAIN chain[j].lib : ~chain[j].lib[m].broken
        /\ Reach({n}, VerifyEnv(chain, at)) \subseteq DOMAIN VerifyEnv(chain, at)
    BY DEF IInv, Gated, Whole
  <2>3. conf.oracle
    BY <2>1 DEF IInv, Vetted
  <2>4. \A j \in DOMAIN chain : \A m \in DOMAIN chain[j].lib : ~chain[j].lib[m].broken
    <3>1. phase # "authored"
      BY DEF Judgeable
    <3>2. ASSUME NEW j \in DOMAIN chain, j \notin 1..at PROVE ~chain[j].seed
      BY <2>1, <3>2 DEF IInv, Written
    <3>3. QED
      BY <2>2, <2>3, <3>1, <3>2 DEF IInv, Vetted
  <2>5. Offered = Merged(chain)
    BY DEF Offered
  <2>6. /\ DOMAIN Offered = UNION {DOMAIN chain[i].lib : i \in DOMAIN chain}
        /\ \A m \in DOMAIN Offered :
              Offered[m] \in DOMAIN chain /\ m \in DOMAIN chain[Offered[m]].lib
    BY <2>1, <2>5, SuppliedIsLast DEF Merged
  <2>7. \A m \in DOMAIN Offered : ~Source(m).broken
    BY <2>4, <2>6 DEF Source
  <2>8. DOMAIN Offered \subseteq Staged
    BY <2>7 DEF Staged, Importable, Loads
  <2>9. DOMAIN VerifyEnv(chain, at) \subseteq DOMAIN Offered
    <3>1. DOMAIN VerifyEnv(chain, at) = UNION {DOMAIN chain[j].lib : j \in 1..at}
      BY <2>1, EnvShape
    <3>2. 1..at \subseteq DOMAIN chain
      BY <2>1
    <3>3. QED
      BY <2>6, <3>1, <3>2
  <2>10. Reach({n}, VerifyEnv(chain, at)) \subseteq Staged
    BY <2>2, <2>8, <2>9
  <2>11. QED
    BY <2>10 DEF Visible
<1>2. QED
  BY <1>1, IInvHolds, PTL

\* On a live family only a helper that was shown, could be called, ran and
\* passed in this very source bars a task from the per-task best
\* (_nonadopting_verified_tasks).
THEOREM BarsAreEarnedWhenLive ==
    ASSUME Live
    PROVE  Spec => []BarsAreEarned
<1>1. IInv => BarsAreEarned
  <2> SUFFICES ASSUME IInv, barred
               PROVE  \E n \in Advertised \cap Staged :
                         /\ \E i \in DOMAIN chain :
                               n \in chain[i].verified /\ chain[i].lib[n] = Source(n)
                         /\ answer.script[n] # "called"
    BY DEF BarsAreEarned
  <2>1. conf.path # "spine" /\ chain \in Seq(Layers)
    BY DEF IInv, BarStands, Barred, TypeOK
  <2>2. PICK n \in VerifiedNames(chain) \cap Counted : n \notin Called(answer.script, Counted)
    BY DEF IInv, BarStands, Barred
  <2>3. Offered = Merged(chain)
    BY DEF Offered
  <2>4. n \in DOMAIN Offered /\ n \in chain[Offered[n]].verified
    BY <2>2, <2>3 DEF VerifiedNames
  <2>5. Offered[n] \in DOMAIN chain
    BY <2>1, <2>3, <2>4, SuppliedIsLast DEF Merged
  <2>6. Loads(Source(n), conf.sandboxed, conf.path # "bash")
    BY <2>2 DEF Counted
  <2>7. n \in Advertised
    <3>1. CASE conf.path = "bash"
      BY <2>4, <2>6, <3>1 DEF Advertised, Loads
    <3>2. CASE conf.path # "bash"
      BY <2>1, <2>4, <2>6, <3>2 DEF Advertised, Loads
    <3>3. QED
      BY <3>1, <3>2
  <2>8. n \in Staged
    BY <2>1, <2>4, <2>6 DEF Staged, Loads
  <2>9. answer.script[n] # "called"
    BY <2>2 DEF Called
  <2>10. QED
    BY <2>4, <2>5, <2>7, <2>8, <2>9 DEF Source
<1>2. QED
  BY <1>1, IInvHolds, PTL
=============================================================================
