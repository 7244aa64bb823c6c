----------------------------- MODULE Comparing -----------------------------
(***************************************************************************)
(* The comparison of algorithms (CompareAdd, CompareRemove, CompareClear of *)
(* MLDemos/mldemos.cpp, Compare of MLDemos/mlprocessing.cpp and the window   *)
(* of results, MLDemos/compare.cpp), composed with the input plugins, whose   *)
(* timer may replace the data in the middle: after every fold Compare runs     *)
(* the event loop, for everything but the user's input.                        *)
(*                                                                           *)
(* The list on screen (algoList) and the parameters that go with it            *)
(* (compareOptions) are two lists edited in step.  A comparison loads each      *)
(* entry's parameters into the options of its plugin, which are the user's,     *)
(* and trains as many models as there are folds.                                *)
(*                                                                           *)
(* Abstractions: the plugins of one kind are one; what a fold adds to a measure  *)
(* is the parameter and the data its model was trained with.  Compare asks       *)
(* whether the progress dialog was cancelled, which needs user input: it never   *)
(* was.  mutex, which Compare holds, is in module Processing.                    *)
(***************************************************************************)
EXTENDS InputPlugins

CONSTANTS
    Params,         \* for every kind of algorithm the values its parameter may have
    MaxEntries,     \* bounds the list
    Folds,          \* foldCountSpin
    Held            \* traintestRatioCombo: part of the samples is for testing

ASSUME ComparingAssumption ==
    /\ DOMAIN Params \subseteq {"Classification", "Regression", "Dynamical", "Maximization"}
    /\ MaxEntries \in Nat /\ Folds \in Nat \ {0} /\ Held \in BOOLEAN

VARIABLES
    params,         \* the options of each plugin, as the user sees them
    options,        \* compareOptions
    algoList,       \* the names in the list
    comparing,      \* where Compare is
    partial,        \* for each measure of the current entry, what its folds gave
    results,        \* results and algorithms, by measure
    items,          \* the measures in resultCombo,
    current,        \* the one that is chosen,
    picture,        \* and what was painted last
    reward          \* there is a reward map

compareVars == <<params, options, algoList, comparing, partial, results, items,
                 current, picture, reward>>
resultVars == <<partial, results, items, current, picture>>
vars == <<inputVars, compareVars>>

Kinds == DOMAIN Params
MeasuresOf ==
    [Classification |-> <<"f-Measure (Training)", "f-Measure (Test)">>,
     Regression     |-> <<"Error (Training)", "Error (Testing)">>,
     Dynamical      |-> <<"Reconstruction Error", "Target Error (trajectories)",
                          "Target Error (random points)">>,
     Maximization   |-> <<"Evaluations", "Reward", "Iterations">>]
Measures == UNION {Range(MeasuresOf[k]) : k \in Kinds}

Idle == [at |-> "idle", entry |-> 0, fold |-> 0]
Entry == options[comparing.entry]
Algorithm(k) == [kind |-> k, param |-> params[k]]   \* GetAlgoString, SaveParams

CompareInit ==
    /\ InputInit
    /\ params \in {p \in [Kinds -> UNION Range(Params)] : \A k \in Kinds : p[k] \in Params[k]}
    /\ options = <<>> /\ algoList = <<>>
    /\ comparing = Idle /\ partial = <<>>
    /\ results = [m \in Measures |-> <<>>] /\ items = <<>>
    /\ current = "" /\ picture = <<>> /\ reward \in BOOLEAN

-----------------------------------------------------------------------------
(* what the user does between comparisons                                   *)

SetParam ==
    /\ \E k \in Kinds : \E p \in Params[k] \ {params[k]} : params' = [params EXCEPT ![k] = p]
    /\ UNCHANGED <<options, algoList, comparing, resultVars, reward, inputVars>>

CompareAdd ==
    /\ Len(options) < MaxEntries
    /\ \E k \in Kinds : /\ algoList' = Append(algoList, Algorithm(k))
                        /\ options' = Append(options, Algorithm(k))
    /\ UNCHANGED <<params, comparing, resultVars, reward, inputVars>>

\* mutant: the offset is counted before it is used
CompareRemoveEarly ==
    /\ \E i \in DOMAIN algoList :
         /\ options' = IF i = 1 THEN options ELSE RemoveAt(options, i - 1)
         /\ algoList' = RemoveAt(algoList, i)
    /\ UNCHANGED <<params, comparing, resultVars, reward, inputVars>>

\* the list allows one item to be selected
CompareRemove ==
    /\ \E i \in DOMAIN algoList :
         options' = RemoveAt(options, i) /\ algoList' = RemoveAt(algoList, i)
    /\ UNCHANGED <<params, comparing, resultVars, reward, inputVars>>

CompareClear ==
    /\ algoList' = <<>> /\ options' = <<>>
    /\ UNCHANGED <<params, comparing, resultVars, reward, inputVars>>

\* Update, on a change of resultCombo
SelectMeasure ==
    /\ \E m \in Range(items) \ {current} : current' = m /\ picture' = results[m]
    /\ UNCHANGED <<params, options, algoList, comparing, partial, results, items, reward,
                   inputVars>>

ClearData ==
    /\ data' = [by |-> "nobody", what |-> <<>>] /\ reward' = FALSE
    /\ UNCHANGED <<pluginVars, faceVars, alive, params, options, algoList, comparing, resultVars>>

Draw ==
    /\ data.by = "nobody" /\ data' = UserData
    /\ UNCHANGED <<pluginVars, faceVars, alive, compareVars>>

PaintReward ==
    /\ ~reward /\ reward' = TRUE
    /\ UNCHANGED <<params, options, algoList, comparing, resultVars, inputVars>>

-----------------------------------------------------------------------------
(* Compare                                                                  *)

Begin(entry) ==
    /\ comparing' = [at |-> "train", entry |-> entry, fold |-> 1]
    /\ partial' = [m \in DOMAIN MeasuresOf[options[entry].kind] |-> <<>>]

\* mutant: the results of the last comparison are kept
CompareKept ==
    /\ options # <<>> /\ Begin(1)
    /\ UNCHANGED <<results, items, current, params, options, algoList, picture, reward, inputVars>>

\* up to the loop over the list: CompareAlgorithms::Clear empties resultCombo,
\* and Update, which that calls, finds nothing to paint
Compare ==
    /\ options # <<>> /\ Begin(1)
    /\ results' = [m \in Measures |-> <<>>] /\ items' = <<>> /\ current' = ""
    /\ UNCHANGED <<params, options, algoList, picture, reward, inputVars>>

\* whether a fold adds to measure m of kind k
Adds(k, m) ==
    CASE k = "Maximization" -> TRUE
      [] k = "Dynamical" -> data.by = "user"          \* the only trajectories
      [] OTHER -> data.by # "nobody" /\ (m = 2 => Held)

\* the test errors of a regressor are assigned, the rest is pushed
With(k, m, outcome) ==
    IF ~Adds(k, m) THEN partial[m]
    ELSE IF k = "Regression" /\ m = 2 THEN <<outcome>>
    ELSE Append(partial[m], outcome)

\* LoadParams, before the first fold; Train; and the model is deleted.  Without
\* a reward map Train gives a maximizer no data, and MaximumValue reads them.
Fold ==
    LET k == Entry.kind
        loaded == IF comparing.fold = 1 THEN Entry.param ELSE params[k] IN
    /\ comparing.at = "train"
    /\ params' = [params EXCEPT ![k] = loaded]
    /\ partial' = [m \in DOMAIN partial |-> With(k, m, [param |-> loaded, data |-> data])]
    /\ alive' = (k = "Maximization" => reward)
    /\ comparing' = [comparing EXCEPT !.at = "events"]
    /\ UNCHANGED <<options, algoList, results, items, current, picture, reward,
                   pluginVars, faceVars, data>>

\* processEvents returns
NextFold ==
    /\ comparing.at = "events" /\ comparing.fold < Folds
    /\ comparing' = [comparing EXCEPT !.at = "train", !.fold = @ + 1]
    /\ UNCHANGED <<params, options, algoList, resultVars, reward, inputVars>>

\* AddResults for each measure: an item that is the first becomes the current one
AddResults ==
    LET k == Entry.kind
        at(m) == CHOOSE j \in DOMAIN MeasuresOf[k] : MeasuresOf[k][j] = m IN
    /\ results' = [m \in Measures |->
          IF m \in Range(MeasuresOf[k])
          THEN Append(results[m], [algorithm |-> Algorithm(k), folds |-> partial[at(m)]])
          ELSE results[m]]
    /\ items' = items \o SelectSeq(MeasuresOf[k], LAMBDA m : m \notin Range(items))
    /\ current' = IF items = <<>> THEN MeasuresOf[k][1] ELSE current

\* mutant: nothing is shown once the first entry is
ShowOnce == picture' = IF items = <<>> THEN results'[current'] ELSE picture

Show == picture' = results'[current']

EndEntry ==
    /\ comparing.at = "events" /\ comparing.fold = Folds
    /\ AddResults /\ Show
    /\ IF comparing.entry < Len(options)
       THEN Begin(comparing.entry + 1)
       ELSE comparing' = Idle /\ partial' = <<>>
    /\ UNCHANGED <<params, options, algoList, reward, inputVars>>

CompareStep == Fold \/ NextFold \/ EndEntry

-----------------------------------------------------------------------------
\* mutant: processEvents(AllEvents)
EventsOfAllKinds ==
    /\ comparing.at \in {"idle", "events"}
    /\ (UserInput \/ EmitterTimer) /\ UNCHANGED compareVars

\* what the event loop delivers to the plugins: the timer also while Compare is in
\* processEvents(ExcludeUserInputEvents)
Events ==
    /\ \/ comparing.at = "idle" /\ UserInput
       \/ comparing.at \in {"idle", "events"} /\ EmitterTimer
    /\ UNCHANGED compareVars

CompareNext ==
    /\ alive
    /\ \/ /\ comparing.at = "idle"
          /\ \/ SetParam \/ CompareAdd \/ CompareRemove \/ CompareClear \/ SelectMeasure
             \/ ClearData \/ Draw \/ PaintReward \/ Compare
       \/ CompareStep
       \/ Events

CompareSpec == CompareInit /\ [][CompareNext]_vars

-----------------------------------------------------------------------------
(* Properties                                                               *)

\* The list on screen shows, item by item, what will be compared.
ListInStep == algoList = options

\* While a comparison runs with the random emitter off, every fold so far, of every
\* algorithm, was trained on the data now on the canvas: nothing that the event
\* loop delivers between two folds makes the algorithms incomparable.
Outcomes ==
    (UNION {Range(partial[m]) : m \in DOMAIN partial})
    \cup (UNION {UNION {Range(r.folds) : r \in Range(results[m])} : m \in Measures})
FoldsShareData ==
    (comparing.at # "idle" /\ ~timer) => \A o \in Outcomes : o.data = data

\* The algorithms of one kind among the first n of the list, for every n, and all.
OfKind(k) ==
    LET upTo[n \in 0 .. Len(options)] ==
          IF n = 0 THEN <<>>
          ELSE IF options[n].kind = k THEN Append(upTo[n - 1], options[n]) ELSE upTo[n - 1] IN
    upTo
InOrder(k) == OfKind(k)[Len(options)]

\* When a comparison ends, each measure holds the algorithms of its kind in the order
\* of the list, none left over from an earlier comparison, each with results of models
\* trained with its own parameter, although the plugins' options are shared.
ResultsFollowList ==
    [][(comparing.at # "idle" /\ comparing'.at = "idle") =>
        \A k \in Kinds : \A m \in Range(MeasuresOf[k]) :
            /\ [i \in DOMAIN results'[m] |-> results'[m][i].algorithm] = InOrder(k)
            /\ \A r \in Range(results'[m]) : \A o \in Range(r.folds) : o.param = r.algorithm.param
      ]_vars

\* Between comparisons the picture shows the chosen measure, with all its results.
PictureIsCurrent == (comparing.at = "idle" /\ items # <<>>) => picture = results[current]
=============================================================================
