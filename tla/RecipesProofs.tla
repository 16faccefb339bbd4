--------------------------- MODULE RecipesProofs ----------------------------
(***************************************************************************)
(* Proofs about Recipes, for any workspaces, recipes, commands, builtin    *)
(* providers and memories.                                                 *)
(***************************************************************************)
EXTENDS Recipes, FiniteSetTheorems, TLAPS

USE RecipesAssumption

(* The runs and the results are sequences, of whatever elements. *)
IsSequence(s) == \E S : s \in Seq(S)

LEMMA Appended ==
    ASSUME NEW s, IsSequence(s), NEW x
    PROVE  /\ IsSequence(Append(s, x))
           /\ Len(s) \in Nat /\ DOMAIN s = 1..Len(s)
           /\ Len(Append(s, x)) = Len(s) + 1
           /\ DOMAIN Append(s, x) = 1..(Len(s) + 1)
           /\ \A k \in 1..Len(s) : Append(s, x)[k] = s[k]
           /\ Append(s, x)[Len(s) + 1] = x
<1>1. PICK S : s \in Seq(S)
  BY DEF IsSequence
<1> DEFINE T == S \cup {x}
<1>2. s \in Seq(T) /\ x \in T
  BY <1>1
<1>3. Append(s, x) \in Seq(T)
  BY <1>2
<1>4. IsSequence(Append(s, x))
  BY <1>3 DEF IsSequence
<1> HIDE DEF T
<1> QED BY <1>2, <1>3, <1>4

LEMMA RecipeShape ==
    ASSUME NEW r \in RecipeFiles, r # Garbled
    PROVE  /\ r.steps \in Seq(Steps) /\ Len(r.steps) \in Nat /\ DOMAIN r.steps = 1..Len(r.steps)
           /\ \A k \in 1..Len(r.steps) : r.steps[k] \in Steps
<1>1. r \in [name : STRING, steps : Seq(Steps)]
  OBVIOUS
<1>2. r.steps \in Seq(Steps)
  BY <1>1
<1> QED BY <1>2

-----------------------------------------------------------------------------
(* What holds between the steps: a recipe is valid as soon as there is one, and
   while it runs as many steps have an output as were called. *)
Running == command.is # "run" /\ pc \in {"next", "build", "ask"}
Base ==
    /\ TypeOK
    /\ IsSequence(ran) /\ IsSequence(order)
    /\ Running => Valid(recipe) /\ recipe \in RecipeFiles
    /\ pc \in {"read", "next"} => command.is # "run"
    /\ pc \in {"open", "read"} =>
        ran = <<>> /\ order = <<>> /\ outputs = NoOutputs /\ recipe = Garbled

LEMMA InitBase == Init => Base
<1> SUFFICES ASSUME Init PROVE Base
  OBVIOUS
<1>1. IsSequence(ran) /\ IsSequence(order)
  BY DEF Init, IsSequence
<1>2. disk \in Workspaces /\ ws \in Workspaces /\ recipeFile \in RecipeFiles
      /\ index \subseteq Rows /\ loaded \subseteq Rows
  BY DEF Init
<1>3. backend \in {"file", "memory", "pgvector"} /\ command \in Commands
      /\ pc = "open" /\ status = "none" /\ recipe = Garbled /\ edits \in 0..MaxEdits
  BY DEF Init
<1>4. outputs \in [DOMAIN outputs -> Texts]
  BY DEF Init, NoOutputs
<1>5. TypeOK
  BY <1>2, <1>3, <1>4 DEF TypeOK
<1> QED BY <1>1, <1>3, <1>5 DEF Init, Base, Running

LEMMA RecordBase ==
    ASSUME Base, NEW out \in Texts, Record(out)
    PROVE  outputs' \in [DOMAIN outputs' -> Texts] /\ IsSequence(order')
<1>1. outputs \in [DOMAIN outputs -> Texts]
  BY DEF Base, TypeOK
<1> QED BY <1>1, Appended DEF Base, Record

(* A step that ends the process, or goes on without an output. *)
LEMMA StopBase ==
    ASSUME Base, NEW s \in {"ok", "failed"}, Stop(s),
           UNCHANGED <<worldVars, argVars, openVars, recipe, resultVars>>, IsSequence(ran')
    PROVE  Base'
  BY DEF Base, TypeOK, Stop, Running, worldVars, argVars, openVars, resultVars

LEMMA NextBase == Base /\ [Next]_vars => Base'
<1> SUFFICES ASSUME Base, [Next]_vars PROVE Base'
  OBVIOUS
<1> USE DEF worldVars, argVars, openVars, resultVars, callVars
<1>1. CASE UNCHANGED vars
  BY <1>1 DEF vars, Base, TypeOK, Running
<1>2. CASE Open
  BY <1>2 DEF Open, Base, TypeOK, Running
<1>3. CASE OpenFails
  BY <1>3, StopBase DEF OpenFails, Base
<1>4. CASE ReadRecipe
  <2>1. CASE Valid(recipeFile)
    <3>1. recipe' = recipeFile /\ pc' = "next" /\ pc = "read"
          /\ UNCHANGED <<status, disk, recipeFile, index, edits, backend, command, ws, loaded,
                        outputs, order, ran>>
      BY <1>4, <2>1 DEF ReadRecipe
    <3>2. Valid(recipe)'
      BY <2>1, <3>1 DEF Valid, Kind, TextOf
    <3> QED BY <3>1, <3>2 DEF Base, TypeOK, Running
  <2>2. CASE ~Valid(recipeFile)
    BY <1>4, <2>2, StopBase DEF ReadRecipe, Base
  <2> QED BY <2>1, <2>2
<1>5. CASE Refuse \/ AgentFails
  <2>1. /\ Stop("failed")
        /\ UNCHANGED <<worldVars, argVars, openVars, recipe, resultVars, ran>>
    BY <1>5 DEF Refuse, AgentFails
  <2> QED BY <2>1, StopBase DEF Base
<1>6. ASSUME NEW out \in Texts, NEW ok \in BOOLEAN, RunShell(out, ok)
      PROVE  Base'
  <2>1. IsSequence(ran') /\ index' \subseteq Rows
    <3>1. PICK c : ran' = Append(ran, c)
      BY <1>6 DEF RunShell
    <3>2. IsSequence(ran')
      BY <3>1, Appended DEF Base
    <3>3. index \subseteq Rows /\ index' \in {index} \cup {index \cup {r} : r \in Rows}
      BY <1>6 DEF RunShell, Base, TypeOK
    <3> QED BY <3>2, <3>3
  <2>2. CASE ok
    <3>1. outputs' \in [DOMAIN outputs' -> Texts] /\ IsSequence(order')
      BY <1>6, <2>2, RecordBase DEF RunShell
    <3> QED BY <1>6, <2>1, <2>2, <3>1 DEF RunShell, Ready, AtStep, Base, TypeOK, Running
  <2>3. CASE ~ok
    BY <1>6, <2>1, <2>3 DEF RunShell, Stop, Base, TypeOK, Running
  <2> QED BY <2>2, <2>3
<1>7. CASE CallAgent
  BY <1>7 DEF CallAgent, Ready, AtStep, Base, TypeOK, Running
<1>8. CASE Build
  BY <1>8 DEF Build, Base, TypeOK, Running
<1>9. ASSUME NEW out \in Texts, NEW ok \in BOOLEAN, Ask(out, ok)
      PROVE  Base'
  <2>1. IsSequence(ran')
    <3>1. PICK c : ran' = Append(ran, c)
      BY <1>9 DEF Ask
    <3> QED BY <3>1, Appended DEF Base
  <2>2. CASE ok /\ command.is # "run"
    <3>1. /\ Record(out) /\ pc = "ask" /\ pc' = "next"
          /\ UNCHANGED <<status, disk, recipeFile, index, edits, backend, command, ws, loaded, recipe>>
      BY <1>9, <2>2 DEF Ask
    <3>2. outputs' \in [DOMAIN outputs' -> Texts] /\ IsSequence(order')
      BY <3>1, RecordBase
    <3> QED BY <2>1, <2>2, <3>1, <3>2 DEF Base, TypeOK, Running
  <2>3. CASE ~(ok /\ command.is # "run")
    <3>1. PICK s \in {"ok", "failed"} : Stop(s) /\ UNCHANGED <<outputs, order>>
      BY <1>9, <2>3 DEF Ask
    <3> QED BY <1>9, <2>1, <3>1, StopBase DEF Ask
  <2> QED BY <2>2, <2>3
<1>10. CASE Finish
  BY <1>10, StopBase DEF Finish, Base
<1>11. CASE Edit
  <2>1. disk' \in Workspaces /\ recipeFile' \in RecipeFiles /\ index' \subseteq Rows
        /\ edits' \in 0..MaxEdits
    BY <1>11 DEF Edit, Base, TypeOK
  <2> QED BY <1>11, <2>1 DEF Edit, Base, TypeOK, Running
<1> QED BY <1>1, <1>2, <1>3, <1>4, <1>5, <1>6, <1>7, <1>8, <1>9, <1>10, <1>11
    DEF Next, Process, Own, Calls

(* The process has a status exactly when it is over, and never goes on with a
   recipe that is not valid. *)
THEOREM TypeCorrect == Spec => []TypeOK
<1>1. Base => TypeOK
  BY DEF Base
<1> QED BY <1>1, InitBase, NextBase, PTL DEF Spec
-----------------------------------------------------------------------------
(* The order of the steps.  Every call is of the first step that has no output,
   and gives it one or ends the run. *)
OrderInv ==
    /\ RanInOrder
    /\ command.is = "recipe" /\ Running => Len(ran) = Len(order)
    /\ command.is = "recipe" /\ pc \in {"build", "ask"} => Len(order) < Len(recipe.steps)

LEMMA RunningFacts ==
    ASSUME Base, OrderInv, Running, command.is = "recipe"
    PROVE  /\ recipe # Garbled /\ recipe \in RecipeFiles /\ Valid(recipe) /\ status = "none"
           /\ Len(ran) = Len(order) /\ Len(order) \in Nat
           /\ DOMAIN ran = 1..Len(order) /\ DOMAIN order = 1..Len(order)
           /\ Len(recipe.steps) \in Nat /\ DOMAIN recipe.steps = 1..Len(recipe.steps)
           /\ Len(order) <= Len(recipe.steps)
<1>1. recipe # Garbled /\ recipe \in RecipeFiles /\ Valid(recipe)
  BY DEF Base, Valid
<1>2. status = "none" /\ Len(ran) = Len(order) /\ Len(order) <= Len(recipe.steps)
  BY <1>1 DEF Base, TypeOK, OrderInv, RanInOrder, Running
<1> QED BY <1>1, <1>2, RecipeShape, Appended DEF Base

LEMMA CallInOrder ==
    ASSUME Base, OrderInv, Running, command.is = "recipe", Len(order) < Len(recipe.steps),
           NEW c, c.id = Step.id, ran' = Append(ran, c), UNCHANGED <<command, recipe>>,
           \/ c.ok /\ Record(c.out) /\ status' = "none"
           \/ ~c.ok /\ UNCHANGED resultVars /\ status' = "failed"
    PROVE  RanInOrder' /\ (c.ok => Len(ran)' = Len(order)')
<1> DEFINE n == Len(order)
<1>1. /\ recipe # Garbled /\ recipe \in RecipeFiles /\ Valid(recipe)
      /\ Len(ran) = n /\ n \in Nat /\ DOMAIN ran = 1..n /\ DOMAIN order = 1..n
      /\ Len(recipe.steps) \in Nat /\ DOMAIN recipe.steps = 1..Len(recipe.steps)
      /\ n < Len(recipe.steps)
  BY RunningFacts
<1>2. /\ DOMAIN outputs = {order[k] : k \in 1..n}
      /\ \A k \in 1..n : ran[k].id = recipe.steps[k].id
      /\ \A k \in 1..n : order[k] = ran[k].id /\ ran[k].ok /\ outputs[order[k]] = ran[k].out
  BY <1>1 DEF OrderInv, RanInOrder
<1>3. /\ Len(ran') = n + 1 /\ DOMAIN ran' = 1..(n + 1)
      /\ \A k \in 1..n : ran'[k] = ran[k]
      /\ ran'[n + 1] = c
  BY <1>1, Appended DEF Base
<1>4. \A k \in 1..(n + 1) : ran'[k].id = recipe.steps[k].id
  BY <1>1, <1>2, <1>3 DEF Step
<1>5. CASE ~c.ok
  <2>1. UNCHANGED <<outputs, order>> /\ status' = "failed"
    BY <1>5 DEF resultVars
  <2>2. \A k \in DOMAIN order' :
          order'[k] = ran'[k].id /\ ran'[k].ok /\ outputs'[order'[k]] = ran'[k].out
    BY <1>1, <1>2, <1>3, <2>1
  <2>3. Len(order') <= Len(recipe'.steps) /\ Len(ran') \in {Len(order'), Len(order') + 1}
    BY <1>1, <1>3, <2>1
  <2>4. DOMAIN outputs' = {order'[k] : k \in DOMAIN order'}
    BY <1>1, <1>2, <2>1
  <2>5. ~ran'[Len(ran')].ok
    BY <1>1, <1>3, <1>5
  <2> QED BY <1>3, <1>4, <1>5, <2>1, <2>2, <2>3, <2>4, <2>5 DEF RanInOrder
<1>6. CASE c.ok
  <2>1. Record(c.out) /\ status' = "none"
    BY <1>6
  <2>2. /\ Len(order') = n + 1 /\ DOMAIN order' = 1..(n + 1)
        /\ \A k \in 1..n : order'[k] = order[k]
        /\ order'[n + 1] = Step.id
    BY <1>1, <2>1, Appended DEF Base, Record
  <2>3. \A k \in 1..n : order[k] # Step.id
    <3> SUFFICES ASSUME NEW k \in 1..n PROVE recipe.steps[k].id # recipe.steps[n + 1].id
      BY <1>2 DEF Step
    <3>1. k \in DOMAIN recipe.steps /\ n + 1 \in DOMAIN recipe.steps /\ k # n + 1
      BY <1>1
    <3> QED BY <1>1, <3>1 DEF Valid
  <2>4. DOMAIN outputs' = DOMAIN outputs \cup {Step.id}
        /\ outputs'[Step.id] = c.out
        /\ \A i \in DOMAIN outputs : i # Step.id => outputs'[i] = outputs[i]
    BY <2>1 DEF Record
  <2>5. DOMAIN outputs' = {order'[k] : k \in DOMAIN order'}
    <3>1. \A k \in DOMAIN order' : k \in 1..n \/ k = n + 1
      BY <1>1, <2>2
    <3>2. \A k \in 1..n : order'[k] \in DOMAIN outputs
      BY <1>2, <2>2
    <3>3. \A k \in DOMAIN order' : order'[k] \in DOMAIN outputs'
      BY <2>2, <2>4, <3>1, <3>2
    <3>4. ASSUME NEW x \in DOMAIN outputs
          PROVE  \E k \in DOMAIN order' : x = order'[k]
      <4>1. PICK k \in 1..n : x = order[k]
        BY <1>2
      <4>2. k \in DOMAIN order' /\ x = order'[k]
        BY <1>1, <2>2, <4>1
      <4> QED BY <4>2
    <3>5. n + 1 \in DOMAIN order'
      BY <1>1, <2>2
    <3> QED BY <2>2, <2>4, <3>3, <3>4, <3>5
  <2>6. \A k \in DOMAIN order' :
          order'[k] = ran'[k].id /\ ran'[k].ok /\ outputs'[order'[k]] = ran'[k].out
    <3>1. ASSUME NEW k \in 1..n
          PROVE  order'[k] = ran'[k].id /\ ran'[k].ok /\ outputs'[order'[k]] = ran'[k].out
      <4>1. order[k] \in DOMAIN outputs /\ order[k] # Step.id
        BY <1>2, <2>3
      <4>2. outputs'[order[k]] = outputs[order[k]]
        BY <2>4, <4>1
      <4> QED BY <1>2, <1>3, <2>2, <4>2
    <3>2. order'[n + 1] = ran'[n + 1].id /\ ran'[n + 1].ok /\ outputs'[order'[n + 1]] = ran'[n + 1].out
      BY <1>3, <1>6, <2>2, <2>4
    <3>3. \A k \in DOMAIN order' : k \in 1..n \/ k = n + 1
      BY <1>1, <2>2
    <3> QED BY <3>1, <3>2, <3>3
  <2>7. Len(order') <= Len(recipe'.steps) /\ Len(ran') = Len(order')
        /\ Len(ran') \in {Len(order'), Len(order') + 1} /\ ~(Len(ran') > Len(order'))
    BY <1>1, <1>3, <2>2
  <2> QED BY <1>3, <1>4, <2>1, <2>5, <2>6, <2>7 DEF RanInOrder
<1> QED BY <1>5, <1>6
LEMMA QuietInOrder ==
    ASSUME RanInOrder, UNCHANGED <<command, recipe, ran, order, outputs>>,
           status' \in {status, "failed"}
    PROVE  RanInOrder'
  BY DEF RanInOrder

LEMMA NextOrder == Base /\ OrderInv /\ [Next]_vars => OrderInv'
<1> SUFFICES ASSUME Base, OrderInv, [Next]_vars, command.is = "recipe" PROVE OrderInv'
  <2>1. ASSUME [Next]_vars, command.is # "recipe" PROVE OrderInv'
    <3>1. command' = command
      BY <2>1 DEF Next, vars, Process, Own, Calls, Open, OpenFails, ReadRecipe, Refuse, RunShell,
                  CallAgent, Build, AgentFails, Ask, Finish, Edit, argVars
    <3> QED BY <2>1, <3>1 DEF OrderInv, RanInOrder
  <2> QED BY <2>1
<1> USE DEF worldVars, argVars, openVars, resultVars, callVars
<1>1. CASE UNCHANGED vars \/ Edit \/ Build
  <2>1. UNCHANGED <<command, recipe, ran, order, outputs, status>> /\ (pc' = pc \/ pc = "build")
        /\ (pc' = pc \/ pc' = "ask")
    BY <1>1 DEF vars, Edit, Build
  <2>2. RanInOrder'
    BY <2>1, QuietInOrder DEF OrderInv
  <2> QED BY <2>1, <2>2 DEF OrderInv, Running
<1>2. CASE Open
  <2>1. recipe' = Garbled /\ command' = command /\ pc' = "read"
    BY <1>2 DEF Open, Base
  <2> QED BY <2>1 DEF OrderInv, RanInOrder, Running
<1>3. CASE OpenFails \/ Refuse \/ AgentFails
  <2>1. UNCHANGED <<command, recipe, ran, order, outputs>> /\ status' = "failed" /\ pc' = "done"
    BY <1>3 DEF OpenFails, Refuse, AgentFails, Stop
  <2>2. RanInOrder'
    BY <2>1, QuietInOrder DEF OrderInv
  <2> QED BY <2>1, <2>2 DEF OrderInv, Running
<1>4. CASE ReadRecipe
  <2>1. UNCHANGED <<command, ran, order, outputs>> /\ ran = <<>> /\ order = <<>>
        /\ outputs = NoOutputs /\ recipe = Garbled /\ pc' \in {"next", "done"}
    BY <1>4 DEF ReadRecipe, Base, Stop
  <2>2. CASE ~Valid(recipeFile)
    BY <1>4, <2>1, <2>2 DEF ReadRecipe, Stop, OrderInv, RanInOrder, Running
  <2>3. CASE Valid(recipeFile)
    <3>1. recipe' = recipeFile /\ recipeFile \in RecipeFiles /\ recipeFile # Garbled
          /\ status' = "none"
      BY <1>4, <2>3 DEF ReadRecipe, Base, TypeOK, Valid
    <3>2. Len(recipe'.steps) \in Nat
      BY <3>1, RecipeShape
    <3>3. Len(order') = 0 /\ Len(ran') = 0 /\ DOMAIN order' = {} /\ DOMAIN ran' = {}
          /\ DOMAIN outputs' = {}
      BY <2>1 DEF NoOutputs
    <3>4. DOMAIN outputs' = {order'[k] : k \in DOMAIN order'}
      BY <3>3
    <3>5. RanInOrder'
      BY <3>1, <3>2, <3>3, <3>4 DEF RanInOrder
    <3> QED BY <1>4, <2>3, <3>3, <3>5 DEF ReadRecipe, OrderInv, Running
  <2> QED BY <2>2, <2>3
<1>5. ASSUME NEW out \in Texts, NEW ok \in BOOLEAN, RunShell(out, ok)
      PROVE  OrderInv'
  <2>1. Running /\ status = "none" /\ Len(order) < Len(recipe.steps)
    BY <1>5 DEF RunShell, Ready, AtStep, Running, Base, TypeOK
  <2>2. PICK c : c.id = Step.id /\ c.ok = ok /\ c.out = out /\ ran' = Append(ran, c)
    BY <1>5 DEF RunShell, Call
  <2>3. \/ ok /\ Record(out) /\ UNCHANGED <<pc, status>>
        \/ ~ok /\ UNCHANGED <<outputs, order>> /\ status' = "failed" /\ pc' = "done"
    BY <1>5 DEF RunShell, Stop
  <2>4. UNCHANGED <<command, recipe>>
    BY <1>5 DEF RunShell
  <2>5. RanInOrder' /\ (ok => Len(ran)' = Len(order)')
    BY <2>1, <2>2, <2>3, <2>4, CallInOrder
  <2>6. pc = "next"
    BY <1>5 DEF RunShell, Ready, AtStep
  <2> QED BY <2>3, <2>5, <2>6 DEF OrderInv, Running
<1>6. CASE CallAgent
  <2>1. UNCHANGED <<command, recipe, ran, order, outputs, status>> /\ pc = "next" /\ pc' = "build"
        /\ Len(order) < Len(recipe.steps)
    BY <1>6 DEF CallAgent, Ready, AtStep
  <2>2. RanInOrder'
    BY <2>1, QuietInOrder DEF OrderInv
  <2>3. Running
    BY <2>1 DEF Base, Running
  <2> QED BY <2>1, <2>2, <2>3 DEF OrderInv
<1>7. ASSUME NEW out \in Texts, NEW ok \in BOOLEAN, Ask(out, ok)
      PROVE  OrderInv'
  <2>1. Running /\ status = "none" /\ Len(order) < Len(recipe.steps) /\ pc = "ask"
    BY <1>7 DEF Ask, Running, Base, TypeOK, OrderInv
  <2>2. PICK c : c.id = Step.id /\ c.ok = ok /\ c.out = out /\ ran' = Append(ran, c)
    BY <1>7 DEF Ask, Call
  <2>3. \/ ok /\ Record(out) /\ status' = status /\ pc' = "next"
        \/ ~ok /\ UNCHANGED <<outputs, order>> /\ status' = "failed" /\ pc' = "done"
    BY <1>7 DEF Ask, Stop
  <2>4. UNCHANGED <<command, recipe>>
    BY <1>7 DEF Ask
  <2>5. RanInOrder' /\ (ok => Len(ran)' = Len(order)')
    BY <2>1, <2>2, <2>3, <2>4, CallInOrder
  <2> QED BY <2>3, <2>5 DEF OrderInv, Running
<1>8. CASE Finish
  <2>1. UNCHANGED <<command, recipe, ran, order, outputs>> /\ status' = "ok" /\ pc' = "done"
        /\ Len(order) = Len(recipe.steps) /\ pc = "next"
    BY <1>8 DEF Finish, Stop
  <2>2. Len(ran) = Len(order) /\ Len(order) \in Nat
    BY <2>1, RunningFacts DEF Running
  <2>3. RanInOrder'
    BY <2>1, <2>2 DEF OrderInv, RanInOrder
  <2> QED BY <2>1, <2>3 DEF OrderInv, Running
<1> QED BY <1>1, <1>2, <1>3, <1>4, <1>5, <1>6, <1>7, <1>8 DEF Next, Process, Own, Calls

(* runner.go:35: every run carries out the first steps of its recipe, in their
   order and each once; what the Result holds is what they printed. *)
THEOREM StepsInOrder == Spec => []RanInOrder
<1>1. Init => OrderInv
  BY DEF Init, OrderInv, RanInOrder, Running
<1>2. OrderInv => RanInOrder
  BY DEF OrderInv
<1> QED BY <1>1, <1>2, InitBase, NextBase, NextOrder, PTL DEF Spec
-----------------------------------------------------------------------------
(* Most steps call nothing. *)
LEMMA QuietSteps ==
    ASSUME [Next]_vars, ~Calls
    PROVE  UNCHANGED <<ran, order, outputs, command, backend>> /\ (ReadRecipe \/ recipe' = recipe)
           /\ (Open \/ UNCHANGED <<ws, loaded>>)
<1>1. CASE UNCHANGED vars
  BY <1>1 DEF vars, argVars, openVars, resultVars
<1>2. CASE Next
  BY <1>2 DEF Next, Process, Own, Open, OpenFails, ReadRecipe, Refuse, CallAgent, Build,
              AgentFails, Finish, Edit, Calls, argVars, openVars, resultVars
<1> QED BY <1>1, <1>2

LEMMA CallFacts ==
    ASSUME Base, NEW out \in Texts, NEW ok \in BOOLEAN, RunShell(out, ok) \/ Ask(out, ok)
    PROVE  /\ UNCHANGED <<command, backend, recipe, ws, loaded>>
           /\ pc \in {"next", "ask"} /\ pc' \in {"next", "done"}
           /\ command.is # "run" => Running /\ pc \in {"next", "ask"}
<1>1. CASE RunShell(out, ok)
  BY <1>1 DEF RunShell, Ready, AtStep, Stop, Base, Running, argVars, openVars
<1>2. CASE Ask(out, ok)
  BY <1>2 DEF Ask, Stop, Running, argVars, openVars
<1> QED BY <1>1, <1>2

(* The inputs.  The task of the agent at hand is its prompt, rendered with the
   outputs there are. *)
InputInv ==
    /\ InputsEarlier
    /\ command.is = "recipe" /\ pc \in {"build", "ask"} =>
        /\ Kind(Step) = "agent" /\ Renders(TextOf(Step), outputs)
        /\ req.task = Rendered(TextOf(Step), outputs, command.vars)

LEMMA CallInputs ==
    ASSUME Base, OrderInv, InputsEarlier, Running, command.is = "recipe",
           Len(order) < Len(recipe.steps), Renders(TextOf(Step), outputs),
           NEW c, c.given = Rendered(TextOf(Step), outputs, command.vars),
           ran' = Append(ran, c), UNCHANGED <<command, recipe>>
    PROVE  InputsEarlier'
<1> DEFINE n == Len(order)
           text == TextOf(Step)
<1>1. /\ recipe # Garbled /\ Len(ran) = n /\ n \in Nat
      /\ DOMAIN ran = 1..n /\ DOMAIN order = 1..n
  BY RunningFacts
<1>2. /\ DOMAIN outputs = {order[k] : k \in 1..n}
      /\ \A k \in 1..n : order[k] = ran[k].id /\ outputs[order[k]] = ran[k].out
  BY <1>1 DEF OrderInv, RanInOrder
<1>3. /\ DOMAIN ran' = 1..(n + 1)
      /\ \A k \in 1..n : ran'[k] = ran[k]
      /\ ran'[n + 1] = c
  BY <1>1, Appended DEF Base
<1> SUFFICES ASSUME NEW k \in DOMAIN ran', NEW i \in DOMAIN ran'[k].given,
                    TextOf(recipe.steps[k])[i].is = "step"
             PROVE  \E j \in 1..(k - 1) :
                        ran'[j].id = TextOf(recipe.steps[k])[i].name
                        /\ ran'[k].given[i] = ran'[j].out
  BY DEF InputsEarlier
<1>4. CASE k \in 1..n
  <2>1. ran'[k] = ran[k] /\ k \in DOMAIN ran
    BY <1>1, <1>3, <1>4
  <2>2. PICK j \in 1..(k - 1) : ran[j].id = TextOf(recipe.steps[k])[i].name
                               /\ ran[k].given[i] = ran[j].out
    BY <1>1, <2>1 DEF InputsEarlier
  <2>3. j \in 1..n
    BY <1>1, <1>4
  <2> QED BY <1>3, <2>1, <2>2, <2>3
<1>5. CASE k = n + 1
  <2>1. recipe.steps[k] = Step /\ ran'[k].given = Rendered(text, outputs, command.vars)
    BY <1>3, <1>5 DEF Step
  <2>2. i \in DOMAIN text /\ text[i].is = "step"
    BY <2>1 DEF Rendered
  <2>3. text[i].name \in DOMAIN outputs
    BY <2>2 DEF Renders
  <2>4. ran'[k].given[i] = outputs[text[i].name]
    BY <2>1, <2>2 DEF Rendered
  <2>5. PICK j \in 1..n : text[i].name = order[j]
    BY <1>2, <2>3
  <2>6. j \in 1..(k - 1) /\ ran'[j] = ran[j]
    BY <1>1, <1>3, <1>5
  <2> HIDE DEF text
  <2>7. ran'[j].id = text[i].name /\ ran'[k].given[i] = ran'[j].out
    BY <1>2, <2>4, <2>5, <2>6
  <2>8. TextOf(recipe.steps[k])[i].name = text[i].name
    BY <2>1 DEF text
  <2> QED BY <2>6, <2>7, <2>8
<1>6. k \in 1..n \/ k = n + 1
  BY <1>1, <1>3
<1> QED BY <1>4, <1>5, <1>6

LEMMA NextInputs == Base /\ OrderInv /\ InputInv /\ [Next]_vars => InputInv'
<1> SUFFICES ASSUME Base, OrderInv, InputInv, [Next]_vars PROVE InputInv'
  OBVIOUS
<1>1. CASE ~Calls
  <2>1. UNCHANGED <<ran, order, outputs, command>> /\ (ReadRecipe \/ recipe' = recipe)
    BY <1>1, QuietSteps
  <2>2. CASE ReadRecipe
    <3>1. ran' = <<>> /\ pc' \in {"next", "done"}
      BY <2>1, <2>2 DEF ReadRecipe, Base, Stop
    <3> QED BY <3>1 DEF InputInv, InputsEarlier
  <2>3. CASE recipe' = recipe
    <3>1. InputsEarlier'
      <4>1. InputsEarlier
        BY DEF InputInv
      <4>2. UNCHANGED <<command, recipe, ran>>
        BY <2>1, <2>3
      <4> QED BY <4>1, <4>2 DEF InputsEarlier
    <3>2. CASE pc' \notin {"build", "ask"} \/ command.is # "recipe"
      BY <2>1, <3>1, <3>2 DEF InputInv
    <3>3. CASE pc' \in {"build", "ask"} /\ command.is = "recipe"
      <4>1. CASE CallAgent
        <5>1. /\ Kind(Step) = "agent" /\ Renders(TextOf(Step), outputs)
              /\ req'.task = Rendered(TextOf(Step), outputs, command.vars)
          BY <4>1 DEF CallAgent, Ready, TextOf
        <5> QED BY <2>1, <2>3, <3>1, <5>1 DEF InputInv, Step, TextOf, Kind, Renders, Rendered
      <4>2. CASE ~CallAgent
        <5>1. pc \in {"build", "ask"} /\ req' = req
          BY <1>1, <3>3, <4>2
             DEF Next, vars, Process, Own, Open, OpenFails, ReadRecipe, Refuse, Build, AgentFails,
                 Finish, Edit, Stop, Calls, callVars
        <5> QED BY <2>1, <2>3, <3>1, <3>3, <5>1
                DEF InputInv, Step, TextOf, Kind, Renders, Rendered
      <4> QED BY <4>1, <4>2
    <3> QED BY <3>2, <3>3
  <2> QED BY <2>1, <2>2, <2>3
<1>2. ASSUME NEW out \in Texts, NEW ok \in BOOLEAN, RunShell(out, ok) \/ Ask(out, ok)
      PROVE  InputInv'
  <2>1. UNCHANGED <<command, recipe>> /\ pc' \in {"next", "done"} /\ pc \in {"next", "ask"}
    BY <1>2, CallFacts
  <2>2. CASE command.is # "recipe"
    BY <2>1, <2>2 DEF InputInv, InputsEarlier
  <2>3. CASE command.is = "recipe"
    <3>1. Running
      BY <2>1, <2>3 DEF Running
    <3>2. CASE RunShell(out, ok)
      <4>1. PICK c : ran' = Append(ran, c) /\ c.given = Rendered(Step.cmd, outputs, command.vars)
                     /\ Kind(Step) = "shell" /\ Renders(TextOf(Step), outputs)
                     /\ Len(order) < Len(recipe.steps)
        BY <3>2 DEF RunShell, Ready, AtStep, Call
      <4>2. c.given = Rendered(TextOf(Step), outputs, command.vars)
        BY <4>1 DEF TextOf
      <4>3. InputsEarlier'
        BY <2>1, <2>3, <3>1, <4>1, <4>2, CallInputs DEF InputInv
      <4> QED BY <2>1, <4>3 DEF InputInv
    <3>3. CASE Ask(out, ok)
      <4>0. pc = "ask"
        BY <3>3 DEF Ask
      <4>1. PICK c : ran' = Append(ran, c) /\ c.given = req.task
        <5>1. \E id :
                ran' = Append(ran, Call("agent", id, req.task, Resolve(ws, req), context, index,
                                        ok, out))
          BY <3>3 DEF Ask
        <5>2. \A id :
                Call("agent", id, req.task, Resolve(ws, req), context, index, ok, out).given
                = req.task
          BY DEF Call
        <5> QED BY <5>1, <5>2
      <4>2. /\ Renders(TextOf(Step), outputs) /\ Len(order) < Len(recipe.steps)
            /\ c.given = Rendered(TextOf(Step), outputs, command.vars)
        BY <2>3, <4>0, <4>1 DEF InputInv, OrderInv
      <4>3. InputsEarlier'
        BY <2>1, <2>3, <3>1, <4>1, <4>2, CallInputs DEF InputInv
      <4> QED BY <2>1, <4>3 DEF InputInv
    <3> QED BY <1>2, <3>2, <3>3
  <2> QED BY <2>2, <2>3
<1> QED BY <1>1, <1>2 DEF Calls

(* runner.go:87: every reference in a text that was carried out stands for
   what an earlier step of the same run printed. *)
THEOREM InputsComeEarlier == Spec => []InputsEarlier
<1>1. Init => OrderInv
  BY DEF Init, OrderInv, RanInOrder, Running
<1>2. Init => InputInv
  BY DEF Init, InputInv, InputsEarlier
<1>3. InputInv => InputsEarlier
  BY DEF InputInv
<1> QED BY <1>1, <1>2, <1>3, InitBase, NextBase, NextOrder, NextInputs, PTL DEF Spec
-----------------------------------------------------------------------------
(* The agents.  A call was made by the agent its step names, as it is defined in
   the workspace the process read at the start, with the provider resolved there. *)
BuiltFrom(ctx, s) ==
    /\ ctx.system = Agent(ws, s.agent).system
    /\ ctx.rules = Selected(ws.rules, Agent(ws, s.agent).rules)
    /\ ctx.skills = Selected(ws.skills, Agent(ws, s.agent).skills)
ByDefinition(call, s) ==
    Kind(s) = "agent" => call.provider = Resolve(ws, s) /\ BuiltFrom(call.context, s)

StableInv ==
    command.is = "recipe" =>
        /\ recipe # Garbled => \A k \in DOMAIN ran : ByDefinition(ran[k], recipe.steps[k])
        /\ pc \in {"build", "ask"} => req.agent = Step.agent /\ req.provider = Step.provider
        /\ pc = "ask" => BuiltFrom(context, Step)

LEMMA AskMakes ==
    ASSUME NEW out, NEW ok, Ask(out, ok)
    PROVE  \E c : /\ ran' = Append(ran, c)
                 /\ c.provider = Resolve(ws, req) /\ c.context = context
                 /\ c.kind = "agent" /\ c.rows = index
<1>1. \E id :
        ran' = Append(ran, Call("agent", id, req.task, Resolve(ws, req), context, index, ok, out))
  BY DEF Ask
<1>2. PICK id :
        ran' = Append(ran, Call("agent", id, req.task, Resolve(ws, req), context, index, ok, out))
  BY <1>1
<1> DEFINE c == Call("agent", id, req.task, Resolve(ws, req), context, index, ok, out)
<1>3. /\ c.provider = Resolve(ws, req) /\ c.context = context
      /\ c.kind = "agent" /\ c.rows = index
  BY DEF Call
<1> HIDE DEF c
<1> QED BY <1>2, <1>3 DEF c

LEMMA NextStable == Base /\ OrderInv /\ StableInv /\ [Next]_vars => StableInv'
<1> SUFFICES ASSUME Base, OrderInv, StableInv, [Next]_vars, command.is = "recipe" PROVE StableInv'
  <2>1. SUFFICES ASSUME Base, OrderInv, StableInv, [Next]_vars, command.is # "recipe"
                 PROVE  command' = command
    BY DEF StableInv
  <2>2. CASE ~Calls
    BY <2>1, <2>2, QuietSteps
  <2>3. CASE Calls
    BY <2>1, <2>3, CallFacts DEF Calls
  <2> QED BY <2>2, <2>3
<1>1. CASE ~Calls
  <2>1. UNCHANGED <<ran, order, outputs, command>> /\ (ReadRecipe \/ recipe' = recipe)
        /\ (Open \/ ws' = ws)
    BY <1>1, QuietSteps
  <2>2. CASE Open \/ ReadRecipe
    <3>1. ran = <<>> /\ pc' \in {"read", "next", "done"}
      BY <2>2 DEF Open, ReadRecipe, Base, Stop
    <3> QED BY <2>1, <3>1 DEF StableInv
  <2>3. CASE CallAgent
    <3>1. /\ ws' = ws /\ recipe' = recipe /\ pc' = "build"
          /\ req'.agent = Step.agent /\ req'.provider = Step.provider
      BY <2>3 DEF CallAgent, openVars
    <3> QED BY <2>1, <3>1 DEF StableInv, ByDefinition, BuiltFrom, Step
  <2>4. CASE Build
    <3>1. ws' = ws /\ recipe' = recipe /\ req' = req /\ pc = "build" /\ pc' = "ask"
      BY <2>4 DEF Build, openVars
    <3>2. PICK found, missed : context' = Built(ws, req, found, missed)
      BY <2>4 DEF Build, Contexts
    <3>3. req.agent = Step.agent
      BY <3>1 DEF StableInv
    <3>4. BuiltFrom(context', Step)
      BY <3>2, <3>3 DEF Built, BuiltFrom
    <3> QED BY <2>1, <3>1, <3>4 DEF StableInv, ByDefinition, BuiltFrom, Step
  <2>5. CASE ~(Open \/ ReadRecipe \/ CallAgent \/ Build)
    <3>1. /\ ws' = ws /\ recipe' = recipe
          /\ pc' \in {"build", "ask"} => pc' = pc /\ req' = req /\ context' = context
      BY <1>1, <2>1, <2>5
         DEF Next, vars, Process, Own, OpenFails, Refuse, AgentFails, Finish, Edit, Stop, Calls,
             callVars
    <3> QED BY <2>1, <3>1 DEF StableInv, ByDefinition, BuiltFrom, Step
  <2> QED BY <2>2, <2>3, <2>4, <2>5
<1>2. ASSUME NEW out \in Texts, NEW ok \in BOOLEAN, RunShell(out, ok) \/ Ask(out, ok)
      PROVE  StableInv'
  <2>1. UNCHANGED <<command, recipe, ws>> /\ pc' \in {"next", "done"} /\ pc \in {"next", "ask"}
    BY <1>2, CallFacts
  <2>2. Running
    BY <2>1 DEF Running
  <2>3. PICK c : ran' = Append(ran, c) /\ ByDefinition(c, Step)
    <3>1. CASE RunShell(out, ok)
      BY <3>1 DEF RunShell, Ready, ByDefinition
    <3>2. CASE Ask(out, ok)
      <4>1. pc = "ask"
        BY <3>2 DEF Ask
      <4>2. PICK c : ran' = Append(ran, c) /\ c.provider = Resolve(ws, req) /\ c.context = context
        BY <3>2, AskMakes
      <4>3. BuiltFrom(context, Step) /\ req.agent = Step.agent /\ req.provider = Step.provider
        BY <4>1 DEF StableInv
      <4>4. Resolve(ws, req) = Resolve(ws, Step)
        BY <4>3 DEF Resolve
      <4> QED BY <4>2, <4>3, <4>4 DEF ByDefinition
    <3> QED BY <1>2, <3>1, <3>2
  <2>4. /\ Len(ran) = Len(order) /\ Len(order) \in Nat /\ DOMAIN ran = 1..Len(order)
        /\ recipe # Garbled
    BY <2>2, RunningFacts
  <2>5. \A k \in DOMAIN ran' : ByDefinition(ran'[k], recipe.steps[k])
    <3>1. /\ \A k \in DOMAIN ran : ran'[k] = ran[k]
          /\ ran'[Len(order) + 1] = c
          /\ \A k \in DOMAIN ran' : k \in DOMAIN ran \/ k = Len(order) + 1
      BY <2>3, <2>4, Appended DEF Base
    <3>2. \A k \in DOMAIN ran : ByDefinition(ran[k], recipe.steps[k])
      BY <2>4 DEF StableInv
    <3>3. Step = recipe.steps[Len(order) + 1]
      BY DEF Step
    <3> QED BY <2>3, <3>1, <3>2, <3>3
  <2> QED BY <2>1, <2>5 DEF StableInv, ByDefinition, BuiltFrom
<1> QED BY <1>1, <1>2 DEF Calls

(* However the workspace is edited during a run, the steps that name one agent
   and one provider are all answered by one provider under one set of
   instructions. *)
THEOREM AgentsStayTheSame == Spec => []AgentsStable
<1>1. Init => OrderInv /\ StableInv
  BY DEF Init, OrderInv, RanInOrder, Running, StableInv
<1>2. StableInv => AgentsStable
  <2> SUFFICES ASSUME StableInv, command.is = "recipe", recipe # Garbled,
                      NEW j \in DOMAIN ran, NEW k \in DOMAIN ran,
                      Kind(recipe.steps[j]) = "agent", Kind(recipe.steps[k]) = "agent",
                      recipe.steps[j].agent = recipe.steps[k].agent,
                      recipe.steps[j].provider = recipe.steps[k].provider
               PROVE  /\ ran[j].provider = ran[k].provider
                      /\ ran[j].context.system = ran[k].context.system
                      /\ ran[j].context.rules = ran[k].context.rules
                      /\ ran[j].context.skills = ran[k].context.skills
    BY DEF AgentsStable
  <2>1. ByDefinition(ran[j], recipe.steps[j]) /\ ByDefinition(ran[k], recipe.steps[k])
    BY DEF StableInv
  <2>2. Resolve(ws, recipe.steps[j]) = Resolve(ws, recipe.steps[k])
    BY DEF Resolve
  <2> QED BY <2>1, <2>2 DEF ByDefinition, BuiltFrom
<1> QED BY <1>1, <1>2, InitBase, NextBase, NextOrder, NextStable, PTL DEF Spec
-----------------------------------------------------------------------------
(* The memory only grows, and a search for a step goes over what is visible. *)
MemoryInv ==
    /\ MemorySeen
    /\ \A j \in DOMAIN ran : ran[j].rows \subseteq index
    /\ backend = "file" =>
        loaded \subseteq index /\ \A j \in DOMAIN ran : loaded \subseteq ran[j].rows
    /\ command.is = "run" /\ pc # "done" => ran = <<>>
    /\ command.is # "run" /\ pc \in {"build", "ask"} => req.limit = 0
    /\ pc = "ask" =>
        /\ backend = "pgvector" /\ Cardinality(context.memory) < DefaultLimit =>
            \A j \in DOMAIN ran : ran[j].rows \subseteq context.memory \cup context.missed
        /\ backend = "file" => context.memory \subseteq loaded

LEMMA FoundAll ==
    ASSUME NEW rows, rows \subseteq Rows, NEW found \in Found(rows, DefaultLimit)
    PROVE  found \subseteq rows /\ (Cardinality(found) < DefaultLimit => found = rows)
<1>1. found \subseteq rows /\ (found = rows \/ Cardinality(found) = DefaultLimit)
  BY DEF Found
<1>2. IsFiniteSet(found)
  BY <1>1, FS_Subset
<1>3. Cardinality(found) \in Nat
  BY <1>2, FS_CardinalityType
<1> QED BY <1>1, <1>3 DEF DefaultLimit

(* One more call, after a search that returned all it did not miss. *)
LEMMA CallSees ==
    ASSUME Base, MemoryInv, NEW c, ran' = Append(ran, c),
           UNCHANGED <<backend, loaded>>, index \subseteq index', c.rows = index',
           c.kind = "agent" =>
               /\ backend = "pgvector" /\ Cardinality(c.context.memory) < DefaultLimit =>
                   \A j \in DOMAIN ran : ran[j].rows \subseteq c.context.memory \cup c.context.missed
               /\ backend = "file" => c.context.memory \subseteq loaded
    PROVE  /\ MemorySeen'
           /\ \A j \in DOMAIN ran' : ran'[j].rows \subseteq index'
           /\ backend = "file" => loaded \subseteq index'
                                 /\ \A j \in DOMAIN ran' : loaded \subseteq ran'[j].rows
<1> DEFINE n == Len(ran)
<1>1. /\ n \in Nat /\ DOMAIN ran = 1..n /\ DOMAIN ran' = 1..(n + 1)
      /\ \A k \in 1..n : ran'[k] = ran[k]
      /\ ran'[n + 1] = c
  BY Appended DEF Base
<1> HIDE DEF n
<1>2. \A j \in DOMAIN ran' : (j \in DOMAIN ran /\ ran'[j] = ran[j]) \/ (j = n + 1 /\ ran'[j] = c)
  BY <1>1
<1>3. \A j \in DOMAIN ran' : ran'[j].rows \subseteq index'
  BY <1>2 DEF MemoryInv
<1>4. backend = "file" => loaded \subseteq index'
                          /\ \A j \in DOMAIN ran' : loaded \subseteq ran'[j].rows
  BY <1>2 DEF MemoryInv
<1>5. ASSUME NEW j \in DOMAIN ran', NEW k \in DOMAIN ran', j < k, ran'[k].kind = "agent"
      PROVE  /\ backend = "pgvector" /\ Cardinality(ran'[k].context.memory) < DefaultLimit =>
                 ran'[j].rows \subseteq ran'[k].context.memory \cup ran'[k].context.missed
             /\ backend = "file" => ran'[k].context.memory \subseteq loaded
                                   /\ loaded \subseteq ran'[1].rows
  <2>1. j \in 1..n /\ ran'[j] = ran[j] /\ 1 \in DOMAIN ran' /\ ran # <<>>
    BY <1>1, <1>5
  <2>2. CASE k \in 1..n
    <3>1. ran'[k] = ran[k] /\ ran'[1] = ran[1] /\ k \in DOMAIN ran
      BY <1>1, <2>1, <2>2
    <3> QED BY <1>1, <1>5, <2>1, <3>1 DEF MemoryInv, MemorySeen
  <2>3. CASE k = n + 1
    <3>1. ran'[k] = c /\ c.kind = "agent"
      BY <1>1, <1>5, <2>3
    <3> QED BY <1>1, <1>4, <2>1, <3>1
  <2> QED BY <1>1, <2>2, <2>3
<1> QED BY <1>3, <1>4, <1>5 DEF MemorySeen

LEMMA QuietSees ==
    ASSUME MemoryInv, UNCHANGED <<ran, backend, loaded, command>>, index \subseteq index'
    PROVE  /\ MemorySeen'
           /\ \A j \in DOMAIN ran' : ran'[j].rows \subseteq index'
           /\ backend = "file" => loaded \subseteq index'
                                 /\ \A j \in DOMAIN ran' : loaded \subseteq ran'[j].rows
  BY DEF MemoryInv, MemorySeen

LEMMA IndexGrows == [Next]_vars => index \subseteq index'
  BY DEF Next, vars, Process, Own, Calls, Open, OpenFails, ReadRecipe, Refuse, RunShell,
         CallAgent, Build, AgentFails, Ask, Finish, Edit, worldVars

LEMMA NextMemory == Base /\ MemoryInv /\ [Next]_vars => MemoryInv'
<1> SUFFICES ASSUME Base, MemoryInv, [Next]_vars PROVE MemoryInv'
  OBVIOUS
<1>1. index \subseteq index'
  BY IndexGrows
<1>2. CASE Open
  <2>1. ran' = <<>> /\ loaded' = index' /\ pc' \in {"read", "build"}
        /\ (pc' = "build" => command'.is = "run")
    BY <1>2 DEF Open, Base, worldVars, argVars
  <2> QED BY <2>1 DEF MemoryInv, MemorySeen
<1>3. CASE ~Open /\ ~Calls
  <2>1. UNCHANGED <<ran, backend, loaded, command>>
    BY <1>3, QuietSteps
  <2>2. /\ MemorySeen'
        /\ \A j \in DOMAIN ran' : ran'[j].rows \subseteq index'
        /\ backend = "file" => loaded \subseteq index'
                              /\ \A j \in DOMAIN ran' : loaded \subseteq ran'[j].rows
    BY <1>1, <2>1, QuietSees
  <2>3. pc' # "done" => pc # "done"
    BY <1>3 DEF Next, vars, Process, Own, OpenFails, ReadRecipe, Refuse, CallAgent, Build,
                AgentFails, Finish, Edit, Stop, Calls, Ready, AtStep
  <2>4. CASE CallAgent
    <3>1. req'.limit = 0 /\ pc' = "build"
      BY <2>4 DEF CallAgent
    <3> QED BY <2>1, <2>2, <2>3, <3>1 DEF MemoryInv
  <2>5. CASE Build
    <3>1. pc = "build" /\ pc' = "ask" /\ req' = req
      BY <2>5 DEF Build
    <3>0. PICK missed \in Missable(Visible) :
            \E found \in Found(Visible \ missed, Limit(req)) :
                context' = Built(ws, req, found, missed)
      BY <2>5 DEF Build, Contexts
    <3>2. PICK found \in Found(Visible \ missed, Limit(req)) :
            context' = Built(ws, req, found, missed)
      BY <3>0
    <3>3. context'.memory = found /\ context'.missed = missed
      BY <3>2 DEF Built
    <3>4. ASSUME command.is # "run" PROVE Limit(req) = DefaultLimit
      BY <3>1, <3>4 DEF MemoryInv, Limit
    <3>5. ASSUME backend = "file" PROVE found \subseteq loaded
      BY <3>2, <3>5 DEF Visible, Found
    <3>6. ASSUME backend = "pgvector", Cardinality(found) < DefaultLimit, NEW j \in DOMAIN ran
          PROVE  ran[j].rows \subseteq found \cup missed
      <4>1. command.is # "run"
        BY <3>1, <3>6 DEF MemoryInv
      <4>2. found \in Found(index \ missed, DefaultLimit) /\ index \ missed \subseteq Rows
        BY <3>2, <3>4, <3>6, <4>1 DEF Visible, Base, TypeOK
      <4>3. found = index \ missed
        BY <3>6, <4>2, FoundAll
      <4> QED BY <4>3 DEF MemoryInv
    <3> QED BY <2>1, <2>2, <2>3, <3>1, <3>3, <3>5, <3>6 DEF MemoryInv
  <2>6. CASE ~CallAgent /\ ~Build
    <3>1. pc' \in {"build", "ask"} => pc' = pc /\ req' = req /\ context' = context
      BY <1>3, <2>6
         DEF Next, vars, Process, Own, OpenFails, ReadRecipe, Refuse, AgentFails, Finish, Edit,
             Stop, Calls, callVars
    <3> QED BY <2>1, <2>2, <2>3, <3>1 DEF MemoryInv
  <2> QED BY <2>4, <2>5, <2>6
<1>4. ASSUME NEW out \in Texts, NEW ok \in BOOLEAN, RunShell(out, ok) \/ Ask(out, ok)
      PROVE  MemoryInv'
  <2>1. UNCHANGED <<command, backend, loaded>> /\ pc' \in {"next", "done"}
    BY <1>4, CallFacts
  <2>2. command.is = "run" => pc' = "done"
    <3>1. CASE RunShell(out, ok)
      BY <3>1 DEF RunShell, Ready, AtStep, Base
    <3>2. CASE Ask(out, ok)
      BY <3>2 DEF Ask, Stop
    <3> QED BY <1>4, <3>1, <3>2
  <2>3. PICK c : /\ ran' = Append(ran, c) /\ c.rows = index'
                 /\ c.kind = "agent" => pc = "ask" /\ c.context = context
    <3>1. CASE RunShell(out, ok)
      <4>1. \E id, given :
              ran' = Append(ran, Call("shell", id, given, "", NoContext, index', ok, out))
        BY <3>1 DEF RunShell
      <4>2. \A id, given :
              LET c == Call("shell", id, given, "", NoContext, index', ok, out)
              IN  c.rows = index' /\ c.kind # "agent"
        BY DEF Call
      <4> QED BY <4>1, <4>2
    <3>2. CASE Ask(out, ok)
      <4>1. pc = "ask" /\ index' = index
        BY <3>2 DEF Ask, worldVars
      <4> QED BY <3>2, <4>1, AskMakes
    <3> QED BY <1>4, <3>1, <3>2
  <2>4. c.kind = "agent" =>
          /\ backend = "pgvector" /\ Cardinality(c.context.memory) < DefaultLimit =>
              \A j \in DOMAIN ran : ran[j].rows \subseteq c.context.memory \cup c.context.missed
          /\ backend = "file" => c.context.memory \subseteq loaded
    BY <2>3 DEF MemoryInv
  <2>5. /\ MemorySeen'
        /\ \A j \in DOMAIN ran' : ran'[j].rows \subseteq index'
        /\ backend = "file" => loaded \subseteq index'
                              /\ \A j \in DOMAIN ran' : loaded \subseteq ran'[j].rows
    BY <1>1, <2>1, <2>3, <2>4, CallSees
  <2> QED BY <2>1, <2>2, <2>5 DEF MemoryInv
<1> QED BY <1>2, <1>3, <1>4 DEF Calls

(* With Postgres, an agent step has in its context all that was in the memory
   at any step before it, but for what the limit cuts and what the index does
   not find; with the JSON file, nothing
   that was not there when the process began. *)
THEOREM MemoryIsSeen == Spec => []MemorySeen
<1>1. Init => MemoryInv
  BY DEF Init, MemoryInv, MemorySeen
<1>2. MemoryInv => MemorySeen
  BY DEF MemoryInv
<1> QED BY <1>1, <1>2, InitBase, NextBase, NextMemory, PTL DEF Spec
-----------------------------------------------------------------------------
(* Termination.  What a run still has to do: its stage and, once its steps run,
   three moves for each step that has no output (a shell step takes one). *)
Stage == CASE pc = "open" -> 3 [] pc = "read" -> 2 [] pc = "done" -> 0 [] OTHER -> 1
Moves == CASE pc = "build" -> 1 [] pc = "ask" -> 2 [] OTHER -> 0
Ahead == (IF command.is = "run" THEN 3 ELSE 3 * (Len(recipe.steps) - Len(order))) - Moves

Closer ==
    \/ Stage' < Stage
    \/ /\ Stage = 1 /\ Stage' = 1
       /\ Ahead \in Nat /\ Ahead' \in Nat /\ Ahead' < Ahead

Advances ==
    /\ Process => Closer
    /\ Edit => UNCHANGED <<Stage, Ahead>>

LEMMA StopCloser ==
    ASSUME pc # "done", Base, pc' = "done"
    PROVE  Closer
<1>1. pc \in {"open", "read", "next", "build", "ask"}
  BY DEF Base, TypeOK
<1> QED BY <1>1 DEF Stage, Closer

(* The step at hand has its output. *)
LEMMA RecordCloser ==
    ASSUME Base, OrderInv, Running, command.is = "recipe", Len(order) < Len(recipe.steps),
           NEW out \in Texts, Record(out), pc' = "next", UNCHANGED <<command, recipe>>
    PROVE  Closer
<1>1. Len(order) \in Nat /\ Len(recipe.steps) \in Nat
  BY RunningFacts
<1>2. Len(order') = Len(order) + 1
  BY Appended DEF Base, Record
<1>3. /\ Ahead = 3 * (Len(recipe.steps) - Len(order)) - Moves
      /\ Ahead' = 3 * (Len(recipe.steps) - Len(order) - 1)
  BY <1>1, <1>2 DEF Ahead, Moves
<1>4. Moves \in {0, 1, 2}
  BY DEF Moves
<1>5. Stage = 1 /\ Stage' = 1
  BY DEF Stage, Running
<1> QED BY <1>1, <1>3, <1>4, <1>5 DEF Closer

(* The agent call of a step, or of `ai run`, goes one further. *)
LEMMA CallCloser ==
    ASSUME Base, OrderInv, UNCHANGED <<command, recipe, order>>,
           command.is = "run" \/ Len(order) < Len(recipe.steps),
           \/ pc = "next" /\ pc' = "build" /\ command.is = "recipe"
           \/ pc = "build" /\ pc' = "ask"
    PROVE  Closer
<1>1. Stage = 1 /\ Stage' = 1
  BY DEF Stage
<1>2. Moves \in {0, 1} /\ Moves' = Moves + 1
  BY DEF Moves
<1>3. CASE command.is = "run"
  <2>1. Ahead = 3 - Moves /\ Ahead' = 3 - Moves'
    BY <1>3 DEF Ahead
  <2> QED BY <1>1, <1>2, <2>1 DEF Closer
<1>4. CASE command.is # "run"
  <2>1. command.is = "recipe" /\ Running
    BY <1>4 DEF Base, TypeOK, Running
  <2>2. Len(order) \in Nat /\ Len(recipe.steps) \in Nat
    BY <2>1, RunningFacts
  <2>3. /\ Ahead = 3 * (Len(recipe.steps) - Len(order)) - Moves
        /\ Ahead' = 3 * (Len(recipe.steps) - Len(order)) - Moves'
    BY <1>4 DEF Ahead
  <2> QED BY <1>1, <1>2, <1>4, <2>2, <2>3 DEF Closer
<1> QED BY <1>3, <1>4

LEMMA ProcessCloser == Base /\ OrderInv /\ Process => Closer
<1> SUFFICES ASSUME Base, OrderInv, Process PROVE Closer
  OBVIOUS
<1> USE DEF worldVars, argVars, openVars, resultVars, callVars
<1>1. CASE Open
  BY <1>1 DEF Open, Stage, Closer
<1>2. CASE OpenFails \/ Refuse \/ AgentFails \/ Finish
  <2>1. pc # "done" /\ pc' = "done"
    BY <1>2 DEF OpenFails, Refuse, AgentFails, Finish, AtStep, Stop
  <2> QED BY <2>1, StopCloser
<1>3. CASE ReadRecipe
  <2>1. pc = "read" /\ pc' \in {"next", "done"}
    BY <1>3 DEF ReadRecipe, Stop
  <2> QED BY <2>1 DEF Stage, Closer
<1>4. ASSUME NEW out \in Texts, NEW ok \in BOOLEAN, RunShell(out, ok)
      PROVE  Closer
  <2>1. /\ pc = "next" /\ Len(order) < Len(recipe.steps) /\ UNCHANGED <<command, recipe>>
        /\ \/ Record(out) /\ pc' = pc
           \/ pc' = "done"
    BY <1>4 DEF RunShell, Ready, AtStep, Stop
  <2>2. command.is = "recipe" /\ Running
    BY <2>1 DEF Base, TypeOK, Running
  <2> QED BY <2>1, <2>2, RecordCloser, StopCloser
<1>5. CASE CallAgent
  <2>1. /\ pc = "next" /\ pc' = "build" /\ Len(order) < Len(recipe.steps)
        /\ UNCHANGED <<command, recipe, order>>
    BY <1>5 DEF CallAgent, Ready, AtStep
  <2>2. command.is = "recipe"
    BY <2>1 DEF Base, TypeOK
  <2> QED BY <2>1, <2>2, CallCloser
<1>6. CASE Build
  <2>1. pc = "build" /\ pc' = "ask" /\ UNCHANGED <<command, recipe, order>>
    BY <1>6 DEF Build
  <2>2. command.is = "run" \/ Len(order) < Len(recipe.steps)
    BY <2>1 DEF Base, TypeOK, OrderInv
  <2> QED BY <2>1, <2>2, CallCloser
<1>7. ASSUME NEW out \in Texts, NEW ok \in BOOLEAN, Ask(out, ok)
      PROVE  Closer
  <2>1. /\ pc = "ask" /\ UNCHANGED <<command, recipe>>
        /\ \/ Record(out) /\ pc' = "next" /\ command.is # "run"
           \/ pc' = "done"
    BY <1>7 DEF Ask, Stop
  <2>2. CASE pc' = "done"
    BY <2>1, <2>2, StopCloser
  <2>3. CASE Record(out) /\ pc' = "next" /\ command.is # "run"
    <3>1. command.is = "recipe" /\ Running /\ Len(order) < Len(recipe.steps)
      BY <2>1, <2>3 DEF Base, TypeOK, OrderInv, Running
    <3> QED BY <2>1, <2>3, <3>1, RecordCloser
  <2> QED BY <2>1, <2>2, <2>3
<1> QED BY <1>1, <1>2, <1>3, <1>4, <1>5, <1>6, <1>7 DEF Process, Own, Calls

(* runner.go:47: the loop over the steps ends.  Every step of the process brings
   a run closer to its end, and no edit of the workspace, the recipe or the
   memory sends it back; a run of n steps takes at most 3 * n + 3 of its own.
   (That it takes them is the fairness that Ends needs.) *)
THEOREM RunsAdvance == Spec => [][Advances]_vars
<1>1. Init => OrderInv
  BY DEF Init, OrderInv, RanInOrder, Running
<1>2. Edit => UNCHANGED <<Stage, Ahead>>
  BY DEF Edit, Stage, Ahead, Moves, argVars, resultVars
<1>3. Base /\ OrderInv /\ [Next]_vars => [Advances]_vars
  BY <1>2, ProcessCloser DEF Advances
<1> QED BY <1>1, <1>3, InitBase, NextBase, NextOrder, PTL DEF Spec
=============================================================================
