----------------------------- MODULE Searching -----------------------------
(***************************************************************************)
(* What the maximizers do in one iteration of the drawing thread              *)
(* (DrawTimer::Maximization, MLDemos/drawTimer.cpp): their Train and Test        *)
(* (Maximizers/maximizeRandom.cpp, maximizeGradient.cpp, maximizePower.cpp,       *)
(* maximizeDonut.cpp, maximizeGA.cpp, and the base class, MLDemos/maximize.h).     *)
(* An iteration and the two slots that interfere, Maximize and MaximizeContinue,    *)
(* all hold mutex: each is one step here.  When they may happen is the matter of     *)
(* modules DrawTimer and Processing.                                                *)
(*                                                                           *)
(* Abstractions: a point is the pixel that GetValue finds for it, its reward a       *)
(* small number; where a method looks next is left open, and so is the mean of the     *)
(* best points, which PoWER and Donut take for the maximum.  The random walk is the     *)
(* random search with other draws.  Particles and Swarm, whose state is weights and       *)
(* speeds, are left out.                                                                   *)
(***************************************************************************)
EXTENDS Genetic

CONSTANTS
    Methods,        \* those that are tried
    Targets,        \* where the user may drop one, which the search starts from
    Origin,         \* the pixel of (0,0)
    None,           \* no method, no starting point
    K,              \* kSpin
    Unmoving,       \* 10
    MaxAge,         \* iterationsSpin
    StopValue,      \* stoppingSpin
    MaxVisited      \* bounds what is visited, and the history

AllMethods == {"random", "gradient", "power", "adaptive", "donut", "GA"}
ASSUME SearchingAssumption ==
    /\ Methods \subseteq AllMethods /\ None \notin AllMethods /\ None \notin DOMAIN Value
    /\ Targets \cup {Origin} \subseteq DOMAIN Value
    /\ K \in Nat \ {0} /\ {Unmoving, MaxAge, StopValue, MaxVisited} \subseteq Nat

VARIABLES
    method,         \* of the maximizer, or None
    maximum,
    maximumValue,
    visited,        \* history: the rewards of the points visited, in order
    best,           \* PoWER, Donut: the rewards of the best points, in order
    history,        \* history and historyValue
    unmoving,       \* gradient: steps that led nowhere
    age,
    converged,
    alive           \* the program runs

vars == <<method, maximum, maximumValue, visited, best, history, unmoving, age,
          converged, alive, population, bred>>

Points == DOMAIN Value
Rewards == Range(Value)
Lowest == -1        \* -FLT_MAX
Record(p) == [at |-> p, value |-> Value[p]]
\* std::sort of rewards: the k-th is the one that fewer than k are below
Below(s, v) == Cardinality({i \in DOMAIN s : s[i] < v})
Sorted(s) ==
    [k \in 1 .. Len(s) |-> CHOOSE v \in Range(s) : Below(s, v) < k /\ Below(s, v + 1) >= k]
GA == <<population, bred>>

Init ==
    /\ method = None /\ maximum = Origin /\ maximumValue = Lowest
    /\ visited = <<>> /\ best = <<>> /\ history = <<>>
    /\ unmoving = 0 /\ age = 0 /\ converged = TRUE /\ alive = TRUE
    /\ population = <<>> /\ bred = <<>>

-----------------------------------------------------------------------------
\* Train.  Without a target on the canvas the gradient starts anywhere; the others have
\* no history then, and the maximum they are constructed with.
Start(p) == maximum' = p /\ maximumValue' = Value[p] /\ history' = <<Record(p)>>
StartNowhere(ps) == maximum' \in ps /\ maximumValue' = Lowest /\ history' = <<>>
Train(m, start) ==
    /\ visited' = <<>> /\ best' = <<>> /\ unmoving' = 0 /\ age' = 0 /\ converged' = FALSE
    /\ CASE start # None -> Start(start)
         [] start = None /\ m = "gradient" -> \E p \in Points : Start(p)
         [] start = None /\ m = "random" -> StartNowhere({Origin})
         [] OTHER -> StartNowhere(Points)

\* The old maximizer is deleted.
Maximize(m, start) ==
    /\ method' = m
    /\ Train(m, start)
    /\ IF m = "GA" THEN Generate ELSE population' = <<>> /\ bred' = <<>>
    /\ UNCHANGED alive

MaximizeContinue ==
    /\ method # None /\ converged' = ~converged
    /\ UNCHANGED <<method, maximum, maximumValue, visited, best, history, unmoving, age, alive, GA>>

-----------------------------------------------------------------------------
(* Test                                                                      *)

Visit(rewards) ==
    /\ Len(visited) + Len(rewards) <= MaxVisited
    /\ visited' = Sorted(visited \o rewards)

\* mutant: the value that is to be beaten stays
TakeBetterOnly(p) ==
    /\ maximum' = IF Value[p] > maximumValue THEN p ELSE maximum
    /\ maximumValue' = IF maximumValue = Lowest THEN Value[p] ELSE maximumValue

TakeBetter(p) ==
    IF Value[p] > maximumValue THEN maximum' = p /\ maximumValue' = Value[p]
    ELSE UNCHANGED <<maximum, maximumValue>>

Explore ==
    /\ method = "random"
    /\ \E p \in Points : Visit(<<Value[p]>>) /\ TakeBetter(p)
    /\ history' = Append(history, Record(maximum'))
    /\ UNCHANGED <<best, unmoving, GA>>

\* history grows with the maximum.  A step that leads nowhere is counted, and one
\* too many ends the search without being visited.
Stuck == method = "gradient" /\ unmoving = Unmoving
Climb ==
    /\ method = "gradient"
    /\ \E p \in Points :
         /\ Visit(<<Value[p]>>) /\ TakeBetter(p)
         /\ history' = IF Value[p] > maximumValue THEN Append(history, Record(p)) ELSE history
         /\ \/ unmoving' = 0
            \/ p = maximum /\ unmoving < Unmoving /\ unmoving' = unmoving + 1
    /\ UNCHANGED <<best, GA>>
ClimbNoMore ==
    /\ Stuck
    /\ UNCHANGED <<visited, best, maximum, maximumValue, history, unmoving, GA>>

\* mutant: what replaces the worst is not sorted in
KeptUnsorted(s, v) ==
    IF Len(s) < K THEN Sorted(Append(s, v))
    ELSE IF v > s[1] THEN [s EXCEPT ![1] = v] ELSE s

\* the best K after a visit to v
Kept(s, v) ==
    IF Len(s) < K THEN Sorted(Append(s, v))
    ELSE IF v > s[1] THEN Sorted([s EXCEPT ![1] = v]) ELSE s

\* PoWER and Donut; the adaptive PoWER and Donut first fill up the best, and sort them.
\* Nobody reads the maximumValue they set.
SampleBest ==
    /\ \/ /\ method = "power"
          /\ \E v \in Rewards : Visit(<<v>>) /\ best' = Kept(best, v)
       \/ /\ method \in {"adaptive", "donut"}
          /\ \E more \in [1 .. K - Len(best) -> Rewards], v \in Rewards :
               Visit(Append(more, v)) /\ best' = Kept(Sorted(best \o more), v)
    /\ maximum' \in Points
    /\ history' = Append(history, Record(maximum'))
    /\ UNCHANGED <<maximumValue, unmoving, GA>>

Breed ==
    /\ method = "GA" /\ Len(history) < MaxVisited
    /\ NextGen
    /\ maximum' = Fittest(population) /\ maximumValue' = Value[maximum']
    /\ history' = Append(history, Record(maximum'))
    /\ UNCHANGED <<visited, best, unmoving>>

Test ==
    IF converged
    THEN UNCHANGED <<visited, best, maximum, maximumValue, history, unmoving, GA>>
    ELSE Explore \/ Climb \/ ClimbNoMore \/ SampleBest \/ Breed

\* mutant: the age is always counted
AgedAlways == age + 1
Aged == IF age >= MaxAge THEN age ELSE age + 1

\* One iteration, which ends with Draw: it reads the last of the history, and crashes
\* when there is none (no target, and stopped before the first Test).
Maximization ==
    /\ method # None
    /\ Test
    /\ converged' = (converged \/ Stuck \/ Value[maximum'] >= StopValue \/ age >= MaxAge)
    /\ age' = Aged
    /\ alive' = (history' # <<>>)
    /\ UNCHANGED method

Next ==
    /\ alive
    /\ \/ \E m \in Methods, start \in Targets \cup {None} : Maximize(m, start)
       \/ MaximizeContinue
       \/ Maximization

Spec == Init /\ [][Next]_vars

-----------------------------------------------------------------------------
(* Properties                                                                *)

(* The type invariant. *)
SearchTypes ==
    /\ method \in Methods \cup {None} /\ maximum \in Points /\ maximumValue \in Rewards \cup {Lowest}
    /\ visited \in Seq(Rewards) /\ best \in Seq(Rewards)
    /\ history \in Seq([at : Points, value : Rewards])
    /\ unmoving \in 0 .. Unmoving /\ age \in 0 .. MaxAge /\ {converged, alive} \subseteq BOOLEAN
    /\ population \in Seq(Genes) /\ bred \in Seq(Genes)

\* Random search and gradient, stopped, resumed and restarted: the maximum is the best
\* of the points visited and the one started from, and the last of the history.
RecordIsBest ==
    (method \in {"random", "gradient"} /\ history # <<>>) =>
        /\ maximumValue = Value[maximum] /\ maximum = Last(history).at
        /\ maximumValue = Max(Range(visited) \cup {history[1].value})

\* PoWER and Donut: the best points are the K best of all those visited since Train,
\* though only the worst of them is ever compared with a new one.
AtLeast(s, v) == Cardinality({i \in DOMAIN s : s[i] >= v})
EliteIsBestVisited ==
    method \in {"power", "adaptive", "donut"} =>
        \A v \in Rewards : AtLeast(best, v) = Min({K, AtLeast(visited, v)})

\* The genetic algorithm reports a point as good as any in the generation it ranks.
FittestIsReported ==
    [][(bred' # <<>> /\ history' # history) =>
          \A g \in Range(population) : Value[maximum'] >= Value[g]]_vars

\* Between generations the population is what was bred, in order, without the clones
\* beyond the third: Kill moves the others up while they are being searched, and
\* none is lost or passed over.
OnlyClonesDie == bred # <<>> => population = FirstOfEach(bred)
=============================================================================
