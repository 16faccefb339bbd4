------------------------------ MODULE Recipes -------------------------------
(***************************************************************************)
(* `ai recipe run` and `ai run`: the workspace is loaded once              *)
(* (internal/workspace), the steps of a recipe run one after the other     *)
(* (internal/recipe), an agent step goes through the agent runner          *)
(* (internal/agent) and the context builder (internal/ctxbuilder), which   *)
(* searches the memory through the store the process opened.  Meanwhile    *)
(* the user, or a step, edits the workspace and adds to the memory.        *)
(***************************************************************************)
EXTENDS Naturals, Sequences, FiniteSets

CONSTANTS
    Workspaces,     \* what .ai/ may define
    RecipeFiles,    \* what the recipe file may hold
    Garbled,        \* a file that does not parse, or is not there
    Commands,       \* command lines
    Builtins,       \* the names of the builtin tools (cli.Builtins)
    Texts,          \* what a step may print
    Blank,          \* ... nothing
    Rows,           \* memories
    MaxEdits        \* bound: edits by the user

Kinds == {"shell", "agent"}

(* A text is a sequence of pieces: plain, the output of a step, a variable, or
   a template that does not parse. *)
Pieces == [is : {"text", "step", "var", "bad"}, name : STRING]
Steps == [id : STRING, run : STRING, cmd : Seq(Pieces), agent : STRING, provider : STRING,
          prompt : Seq(Pieces)]

(* `ai recipe run` has a shell flag and --var values, `ai run` a request. *)
ASSUME RecipesAssumption ==
    /\ RecipeFiles \subseteq {Garbled} \cup [name : STRING, steps : Seq(Steps)]
    /\ \A c \in Commands : c.is \in {"recipe", "run"}
    /\ IsFiniteSet(Rows)
    /\ Blank \in Texts /\ MaxEdits \in Nat

VARIABLES
    disk, recipeFile, index,    \* definitions, recipe, memories
    backend,                    \* the store of workspace.yaml
    command,                    \* the command line
    pc, ws, loaded,             \* definitions and memories read at the start
    recipe, outputs, order,     \* the recipe and its Result
    req, context,               \* the agent call in progress
    status,                     \* of the process: "none" while it runs
    ran,                        \* history: the calls of tools, in order
    edits

worldVars == <<disk, recipeFile, index, edits>>
argVars == <<backend, command>>
openVars == <<ws, loaded>>
resultVars == <<outputs, order>>
callVars == <<req, context>>
vars == <<worldVars, argVars, pc, openVars, recipe, resultVars, callVars, status, ran>>

-----------------------------------------------------------------------------
(* The workspace. *)

NoContext == [system |-> "", rules |-> <<>>, skills |-> <<>>, memory |-> {}, missed |-> {},
              task |-> <<>>]
NoRequest == [agent |-> "", provider |-> "", task |-> <<>>, limit |-> 0]
NoOutputs == [i \in {} |-> Blank]
NoAgent == [provider |-> "", system |-> "", rules |-> <<>>, skills |-> <<>>]

(* An agent file that names no agent is called as the file. *)
NameOf(f) == IF f.name = "" THEN f.stem ELSE f.name

(* The files come in the order of their names; a later one with the same agent
   replaces the earlier. *)
AgentFiles(w, a) == {i \in DOMAIN w.agents : NameOf(w.agents[i]) = a}
Defined(w, a) == AgentFiles(w, a) # {}
Agent(w, a) ==
    IF Defined(w, a)
    THEN w.agents[CHOOSE i \in AgentFiles(w, a) : \A j \in AgentFiles(w, a) : j <= i]
    ELSE NoAgent

Loads(w) == \A i \in DOMAIN w.agents : w.agents[i] # Garbled

(* app.New: dryrun, and the tools: the builtins, the providers of the workspace
   over them. *)
Tools(w) == Builtins \cup w.providers
Registry(w) == {"dryrun"} \cup Tools(w)

(* resolveProvider: the request, the agent, the workspace, "dryrun". *)
Resolve(w, r) ==
    CASE r.provider # "" -> r.provider
      [] r.provider = "" /\ Agent(w, r.agent).provider # "" -> Agent(w, r.agent).provider
      [] OTHER -> IF w.default = "" THEN "dryrun" ELSE w.default

(* selectDocs: all of them if none is asked for, else those that exist of the
   ones asked for, in that order. *)
Selected(docs, want) ==
    LET found == SelectSeq(want, LAMBDA n : \E i \in DOMAIN docs : docs[i].name = n)
    IN  IF want = <<>> THEN [i \in DOMAIN docs |-> docs[i].text]
        ELSE [i \in DOMAIN found |->
                docs[CHOOSE j \in DOMAIN docs : docs[j].name = found[i]].text]

(* What a search finds: the best rows, at most limit of them (5 by default). *)
DefaultLimit == 5
Limit(r) == IF r.limit = 0 THEN DefaultLimit ELSE r.limit
Found(rows, limit) ==
    {s \in SUBSET rows :
        \/ Cardinality(s) = limit
        \/ s = rows /\ Cardinality(s) < limit}

(* With Postgres a search goes by an approximate index, over the rows of all
   workspaces, and may miss any that are there; the others compare every row. *)
Missable(rows) == IF backend = "pgvector" THEN SUBSET rows ELSE {{}}

(* The rows a search goes over: the JSON file is read when the store is opened,
   the memory store is new, Postgres is asked. *)
Visible ==
    CASE backend = "file" -> loaded
      [] backend = "memory" -> {}
      [] backend = "pgvector" -> index

-----------------------------------------------------------------------------
(* Recipes. *)

Kind(s) ==
    CASE s.run # "" -> s.run
      [] s.run = "" /\ s.cmd # <<>> -> "shell"
      [] OTHER -> "agent"

TextOf(s) == IF Kind(s) = "shell" THEN s.cmd ELSE s.prompt

(* Mutant: two steps of one id. *)
ValidSameId(r) ==
    /\ r # Garbled
    /\ r.name # "" /\ r.steps # <<>>
    /\ \A i \in DOMAIN r.steps :
        /\ r.steps[i].id # ""
        /\ Kind(r.steps[i]) \in Kinds
        /\ TextOf(r.steps[i]) # <<>>

(* Parse and validate *)
Valid(r) ==
    /\ r # Garbled
    /\ r.name # "" /\ r.steps # <<>>
    /\ \A i \in DOMAIN r.steps :
        /\ r.steps[i].id # ""
        /\ \A j \in DOMAIN r.steps : r.steps[i].id = r.steps[j].id => i = j
        /\ Kind(r.steps[i]) \in Kinds
        /\ TextOf(r.steps[i]) # <<>>

Renders(text, outs) ==
    \A i \in DOMAIN text :
        /\ text[i].is # "bad"
        /\ text[i].is = "step" => text[i].name \in DOMAIN outs

(* Mutant: a reference is to the step just before. *)
RenderedLast(text, outs, values) ==
    [i \in DOMAIN text |->
        CASE text[i].is = "step" -> outs[order[Len(order)]]
          [] text[i].is = "var" ->
                IF text[i].name \in DOMAIN values THEN values[text[i].name] ELSE Blank
          [] OTHER -> text[i].name]

(* render: the text of a step with the outputs and the --var values in it. *)
Rendered(text, outs, values) ==
    [i \in DOMAIN text |->
        CASE text[i].is = "step" -> outs[text[i].name]
          [] text[i].is = "var" ->
                IF text[i].name \in DOMAIN values THEN values[text[i].name] ELSE Blank
          [] OTHER -> text[i].name]

-----------------------------------------------------------------------------
Init ==
    /\ disk \in Workspaces
    /\ recipeFile \in RecipeFiles
    /\ index \in {{}} \cup {{r} : r \in Rows}
    /\ backend \in {"file", "memory", "pgvector"}
    /\ command \in Commands
    /\ pc = "open"
    /\ ws = disk
    /\ loaded = {}
    /\ recipe = Garbled
    /\ outputs = NoOutputs
    /\ order = <<>>
    /\ req = NoRequest
    /\ context = NoContext
    /\ status = "none"
    /\ ran = <<>>
    /\ edits = 0

Stop(s) ==
    /\ status' = s
    /\ pc' = "done"

(* openWorkspace.  A recipe is read next; `ai run` calls its agent. *)
Open ==
    /\ pc = "open"
    /\ Loads(disk)
    /\ ws' = disk
    /\ loaded' = index
    /\ IF command.is = "run"
       THEN req' = command.req /\ pc' = "build"
       ELSE req' = req /\ pc' = "read"
    /\ UNCHANGED <<worldVars, argVars, recipe, resultVars, context, status, ran>>

(* A file of the workspace or memory.json does not parse, or the embedder or the
   store of workspace.yaml cannot be made. *)
OpenFails ==
    /\ pc = "open"
    /\ Stop("failed")
    /\ UNCHANGED <<worldVars, argVars, openVars, recipe, resultVars, callVars, ran>>

ReadRecipe ==
    /\ pc = "read"
    /\ IF Valid(recipeFile)
       THEN recipe' = recipeFile /\ pc' = "next" /\ UNCHANGED status
       ELSE Stop("failed") /\ UNCHANGED recipe
    /\ UNCHANGED <<worldVars, argVars, openVars, resultVars, callVars, ran>>

(* Runner.Run: the step at hand is the first one that has no output. *)
AtStep == pc = "next" /\ Len(order) < Len(recipe.steps)
Step == recipe.steps[Len(order) + 1]

Record(out) ==
    /\ outputs' = [i \in DOMAIN outputs \cup {Step.id} |-> IF i = Step.id THEN out ELSE outputs[i]]
    /\ order' = Append(order, Step.id)

(* Mutant: the run ends there, without an error. *)
RefuseSilently ==
    /\ AtStep
    /\ \/ Kind(Step) = "shell" /\ ~command.allowShell
       \/ ~Renders(TextOf(Step), outputs)
    /\ pc' = "done"
    /\ UNCHANGED <<worldVars, argVars, openVars, recipe, resultVars, callVars, status, ran>>

(* A shell step without --allow-shell, or a text that cannot be rendered. *)
Refuse ==
    /\ AtStep
    /\ \/ Kind(Step) = "shell" /\ ~command.allowShell
       \/ ~Renders(TextOf(Step), outputs)
    /\ Stop("failed")
    /\ UNCHANGED <<worldVars, argVars, openVars, recipe, resultVars, callVars, ran>>

Call(kind, id, given, provider, ctx, rows, ok, out) ==
    [kind |-> kind, id |-> id, given |-> given, provider |-> provider, context |-> ctx,
     rows |-> rows, ok |-> ok, out |-> out]

Ready(kind) == AtStep /\ Kind(Step) = kind /\ Renders(TextOf(Step), outputs)

(* The command may be `ai memory add`, or whatever else changes the memory. *)
RunShell(out, ok) ==
    /\ Ready("shell")
    /\ command.allowShell
    /\ index' \in {index} \cup {index \cup {r} : r \in Rows}
    /\ ran' = Append(ran, Call("shell", Step.id, Rendered(Step.cmd, outputs, command.vars), "",
                               NoContext, index', ok, out))
    /\ IF ok THEN Record(out) /\ UNCHANGED <<pc, status>>
       ELSE Stop("failed") /\ UNCHANGED resultVars
    /\ UNCHANGED <<disk, recipeFile, edits, argVars, openVars, recipe, callVars>>

(* cliExecutor.RunAgent: the default limit. *)
CallAgent ==
    /\ Ready("agent")
    /\ req' = [agent |-> Step.agent, provider |-> Step.provider, limit |-> 0,
               task |-> Rendered(Step.prompt, outputs, command.vars)]
    /\ pc' = "build"
    /\ UNCHANGED <<worldVars, argVars, openVars, recipe, resultVars, context, status, ran>>

-----------------------------------------------------------------------------
(* agent.Runner.Run *)

(* What a search missed is not in the context; it is there to speak about. *)
Built(w, r, found, missed) ==
    LET def == Agent(w, r.agent) IN
    [system |-> def.system,
     rules |-> Selected(w.rules, def.rules),
     skills |-> Selected(w.skills, def.skills),
     memory |-> found,
     missed |-> missed,
     task |-> r.task]

(* The context of a request by workspace w, with a search over some rows. *)
Contexts(w, rows) ==
    UNION {{Built(w, req, found, missed) : found \in Found(rows \ missed, Limit(req))} :
            missed \in Missable(rows)}

(* Mutants: the definitions are read again; the search goes over what was there
   when the process began. *)
BuildReloaded ==
    /\ pc = "build"
    /\ Loads(disk)
    /\ context' \in Contexts(disk, Visible)
    /\ pc' = "ask"
    /\ UNCHANGED <<worldVars, argVars, openVars, recipe, resultVars, req, status, ran>>
BuildFromLoaded ==
    /\ pc = "build"
    /\ context' \in Contexts(ws, loaded)
    /\ pc' = "ask"
    /\ UNCHANGED <<worldVars, argVars, openVars, recipe, resultVars, req, status, ran>>

(* DefaultBuilder.Build *)
Build ==
    /\ pc = "build"
    /\ context' \in Contexts(ws, Visible)
    /\ pc' = "ask"
    /\ UNCHANGED <<worldVars, argVars, openVars, recipe, resultVars, req, status, ran>>

(* Mutant: an unknown provider is not an error. *)
AgentFailsSearch ==
    /\ pc = "build"
    /\ Stop("failed")
    /\ UNCHANGED <<worldVars, argVars, openVars, recipe, resultVars, callVars, ran>>

(* The search fails (embedder or database), or the provider is not known. *)
AgentFails ==
    /\ \/ pc = "build"
       \/ pc = "ask" /\ Resolve(ws, req) \notin Registry(ws)
    /\ Stop("failed")
    /\ UNCHANGED <<worldVars, argVars, openVars, recipe, resultVars, callVars, ran>>

(* A tool may fail; dryrun echoes the prompt.  A failure that leaves no message
   comes back as a blank answer (ProviderRun). *)
Ask(out, ok) ==
    LET name == Resolve(ws, req)
        id == IF command.is = "run" THEN "" ELSE Step.id
    IN
    /\ pc = "ask"
    /\ name \in Registry(ws)
    /\ name \notin Tools(ws) => ok /\ out # Blank
    /\ ran' = Append(ran, Call("agent", id, req.task, name, context, index, ok, out))
    /\ CASE ~ok -> Stop("failed") /\ UNCHANGED resultVars
         [] ok /\ command.is = "run" -> Stop("ok") /\ UNCHANGED resultVars
         [] OTHER -> Record(out) /\ pc' = "next" /\ UNCHANGED status
    /\ req' = NoRequest
    /\ context' = NoContext
    /\ UNCHANGED <<worldVars, argVars, openVars, recipe>>

Finish ==
    /\ pc = "next"
    /\ Len(order) = Len(recipe.steps)
    /\ Stop("ok")
    /\ UNCHANGED <<worldVars, argVars, openVars, recipe, resultVars, callVars, ran>>

-----------------------------------------------------------------------------
(* The user, in another terminal. *)

Edit ==
    /\ edits < MaxEdits
    /\ edits' = edits + 1
    /\ pc # "done"
    /\ \/ disk' \in Workspaces \ {disk} /\ UNCHANGED <<recipeFile, index>>
       \/ recipeFile' \in RecipeFiles \ {recipeFile} /\ UNCHANGED <<disk, index>>
       \/ index' \in {index \cup {r} : r \in Rows \ index} /\ UNCHANGED <<disk, recipeFile>>
    /\ UNCHANGED <<argVars, pc, openVars, recipe, resultVars, callVars, status, ran>>

(* The steps that wait for no tool, and those that do. *)
Own ==
    \/ Open
    \/ OpenFails
    \/ ReadRecipe
    \/ Refuse
    \/ CallAgent
    \/ Build
    \/ AgentFails
    \/ Finish
Calls == \E out \in Texts, ok \in BOOLEAN : RunShell(out, ok) \/ Ask(out, ok)

Process == Own \/ Calls

Next == Process \/ Edit

Spec == Init /\ [][Next]_vars

(* The process runs.  Nothing is assumed of the tools: neither `recipe run` nor
   `ai run` sets a timeout, and a shell step has none to set. *)
FairSpec == Spec /\ WF_vars(Own)
-----------------------------------------------------------------------------
(* Properties. *)

TypeOK ==
    /\ disk \in Workspaces /\ ws \in Workspaces
    /\ recipeFile \in RecipeFiles
    /\ index \subseteq Rows /\ loaded \subseteq Rows
    /\ backend \in {"file", "memory", "pgvector"}
    /\ command \in Commands
    /\ pc \in {"open", "read", "next", "build", "ask", "done"}
    /\ status \in {"none", "ok", "failed"}
    /\ pc = "done" <=> status # "none"
    /\ recipe \in RecipeFiles \cup {Garbled}
    /\ pc = "next" => Valid(recipe)
    /\ outputs \in [DOMAIN outputs -> Texts]
    /\ edits \in 0..MaxEdits

(* runner.go:35 "each step's output, in order": what ran is the first steps of
   the recipe, each of them once, and the Result has what each of them printed;
   if there was a call more, it failed and the run with it; a run that is
   reported as successful ran every step. *)
RanInOrder ==
    command.is = "recipe" /\ recipe # Garbled =>
        /\ Len(order) <= Len(recipe.steps) /\ Len(ran) \in {Len(order), Len(order) + 1}
        /\ DOMAIN outputs = {order[k] : k \in DOMAIN order}
        /\ \A k \in DOMAIN ran : ran[k].id = recipe.steps[k].id
        /\ \A k \in DOMAIN order :
            order[k] = ran[k].id /\ ran[k].ok /\ outputs[order[k]] = ran[k].out
        /\ Len(ran) > Len(order) => status = "failed" /\ ~ran[Len(ran)].ok
        /\ status = "ok" => Len(order) = Len(recipe.steps)

(* runner.go:87 "the output of an earlier step": wherever the text of a step
   refers to another, what was executed has what that step printed in this run,
   and that step came before. *)
InputsEarlier ==
    command.is = "recipe" /\ recipe # Garbled =>
        \A k \in DOMAIN ran : \A i \in DOMAIN ran[k].given :
            LET piece == TextOf(recipe.steps[k])[i] IN
            piece.is = "step" =>
                \E j \in 1..(k - 1) : ran[j].id = piece.name /\ ran[k].given[i] = ran[j].out

(* All steps of a run that name one agent and one provider are answered by one
   provider under one set of instructions, however the workspace is edited
   meanwhile. *)
AgentsStable ==
    command.is = "recipe" /\ recipe # Garbled =>
        \A j, k \in DOMAIN ran :
            LET s == recipe.steps[j]
                t == recipe.steps[k]
            IN  Kind(s) = "agent" /\ Kind(t) = "agent" /\ s.agent = t.agent
                /\ s.provider = t.provider =>
                    /\ ran[j].provider = ran[k].provider
                    /\ ran[j].context.system = ran[k].context.system
                    /\ ran[j].context.rules = ran[k].context.rules
                    /\ ran[j].context.skills = ran[k].context.skills

(* With Postgres, what a step put into the memory is before the agent steps
   after it, but for what the limit cuts and what the index does not find.  With the JSON file no such step sees
   anything that was stored since the run began. *)
MemorySeen ==
    \A j, k \in DOMAIN ran :
        LET memory == ran[k].context.memory IN
        j < k /\ ran[k].kind = "agent" =>
            /\ backend = "pgvector" /\ Cardinality(memory) < DefaultLimit =>
                    ran[j].rows \subseteq memory \cup ran[k].context.missed
            /\ backend = "file" => memory \subseteq loaded /\ loaded \subseteq ran[1].rows

(* runner.go:47: a run comes to an end if every tool it calls returns. *)
ToolsReturn == WF_vars(Calls)
Ends == ToolsReturn => <>(pc = "done")
=============================================================================
