------------------------------ MODULE Genetic ------------------------------
(***************************************************************************)
(* The population of the genetic algorithm among the maximizers              *)
(* (GATrain of Maximizers/gaTrainer.cpp, GAPeon of gaPeon.cpp): one            *)
(* generation after the other is ranked, filled up, bred and freed of clones.   *)
(* The states are changed by module Searching, whose maximizer owns them.       *)
(*                                                                           *)
(* Abstractions: a genome is a pair of numbers of a small set, which holds with  *)
(* two genomes their crossings; fitness is a number; which parents are drawn,     *)
(* whether they are crossed and how their children mutate is left open.           *)
(***************************************************************************)
EXTENDS Integers, SequencesExt

CONSTANTS
    Value,          \* the reward at each point
    Genes,          \* the genomes, points too
    PopSize,        \* populationSpin
    Survivors,      \* survivalSpin, as a fraction <<part, whole>>
    Reach           \* how far a mutation moves a coordinate

ASSUME GeneticAssumption ==
    /\ Value \in [DOMAIN Value -> Nat] /\ Genes \subseteq DOMAIN Value
    /\ \A g, h \in Genes : <<g[1], h[2]>> \in Genes
    /\ PopSize \in Nat \ {0, 1} /\ Reach \in Nat
    /\ Survivors \in Nat \X (Nat \ {0}) /\ Survivors[1] <= Survivors[2]

VARIABLES
    population,     \* sequence of genomes
    bred            \* newPop, at the end of the last generation

Elite(n) == Max({1, (n * Survivors[1]) \div Survivors[2]})
\* the loop over max(1, survivors * popSize) counts by two
Pairs == Max({1, (PopSize * Survivors[1] + 2 * Survivors[2] - 1) \div (2 * Survivors[2])})

\* std::sort: the numbers up to n in an order, given as a set of pairs
Pred(n, before, i) == {j \in 1 .. n : <<j, i>> \in before}
Ordering(n, before) ==
    [k \in 1 .. n |-> CHOOSE i \in 1 .. n : Cardinality(Pred(n, before, i)) = k - 1]

\* mutant: the least fit come first
RankedUp(pop) ==
    LET n == Len(pop) IN
    Ordering(n, {p \in (1 .. n) \X (1 .. n) :
        LET a == Value[pop[p[1]]]
            b == Value[pop[p[2]]] IN a < b \/ (a = b /\ p[1] > p[2])})

\* the indices of a population, the fittest first
Fitter(pop) ==
    {p \in (1 .. Len(pop)) \X (1 .. Len(pop)) :
        LET a == Value[pop[p[1]]]
            b == Value[pop[p[2]]] IN a > b \/ (a = b /\ p[1] > p[2])}
Ranked(pop) == Ordering(Len(pop), Fitter(pop))

Fittest(pop) == pop[Ranked(pop)[1]]

\* the elite, and random genomes up to PopSize
Filled(pop) ==
    LET ranked == Ranked(pop)
        elite == [i \in 1 .. Elite(Len(pop)) |-> pop[ranked[i]]] IN
    {elite \o rest : rest \in [1 .. PopSize - Len(elite) -> Genes]}

\* The draw of the mother is undone: the loop that looks for the interval r lies in
\* stops at the first one, or runs off the end and is put back to it.  That of the
\* father has a counter of its own and leaves him the mother's: it is the second, or
\* the last.
Mother(pop) == pop[1]
Fathers(pop) == {pop[2], pop[Len(pop)]}

\* Cross exchanges the second coordinates (or digits too small to matter)
Children(mother, father) ==
    {<<mother, father>>, <<<<mother[1], father[2]>>, <<father[1], mother[2]>>>>}

Near(g) == {n \in Genes : \A d \in 1 .. 2 : n[d] - g[d] \in -Reach .. Reach}

\* the children of all pairs, mutated
Bred(pop) ==
    LET couples == UNION {Children(Mother(pop), f) : f \in Fathers(pop)}
        families == {f \in Genes \X Genes :
                       \E c \in couples : f[1] \in Near(c[1]) /\ f[2] \in Near(c[2])} IN
    {[i \in 1 .. 2 * Pairs |-> fs[(i + 1) \div 2][IF i % 2 = 1 THEN 1 ELSE 2]] :
        fs \in [1 .. Pairs -> families]}

-----------------------------------------------------------------------------
MaxClones == 2

\* mutant: the one that moves up is passed over
AfterKillOnwards(j) == j + 1
\* where the search for clones goes on after Kill(j), which moves the rest up
AfterKill(j) == j

\* the loop over j, after each pass: it ends when j has run through what is left
Searched(i, s) ==
    LET next == [s EXCEPT !.j = @ + 1] IN
    IF s.j > Len(s.pop) THEN s
    ELSE IF s.pop[i] # s.pop[s.j] THEN next
    ELSE IF s.clones < MaxClones THEN [next EXCEPT !.clones = @ + 1]
    ELSE [j |-> AfterKill(s.j), clones |-> s.clones + 1, pop |-> RemoveAt(s.pop, s.j)]

\* the clones of i are found, and those beyond MaxClones killed
WithoutClonesOf(i, pop) ==
    LET after[n \in 0 .. Len(pop) - i] ==
            IF n = 0 THEN [j |-> i + 1, clones |-> 0, pop |-> pop]
            ELSE Searched(i, after[n - 1]) IN
    after[Len(pop) - i].pop

\* the loop over i, up to the last but one of those left
Pruned(pop) ==
    LET after[i \in 0 .. Len(pop) - 1] ==
            IF i = 0 THEN pop
            ELSE IF i >= Len(after[i - 1]) THEN after[i - 1]
            ELSE WithoutClonesOf(i, after[i - 1]) IN
    after[Len(pop) - 1]

Generate == population' \in [1 .. PopSize -> Genes] /\ bred' = <<>>

\* the random offspring that are to replace the clones are added to newPop, after
\* it has been copied
NextGen ==
    /\ bred' \in UNION {Bred(filled) : filled \in Filled(population)}
    /\ population' = Pruned(bred')

\* What is to be left of the genomes bred: those at the places of the first three of each.
First(pop) ==
    {j \in DOMAIN pop : Cardinality({i \in 1 .. j : pop[i] = pop[j]}) <= MaxClones + 1}
Place(D, j) == Cardinality({i \in D : i <= j})
Those(pop, D) == [k \in 1 .. Cardinality(D) |-> pop[CHOOSE j \in D : Place(D, j) = k]]
FirstOfEach(pop) == Those(pop, First(pop))
=============================================================================
