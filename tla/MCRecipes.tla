----------------------------- MODULE MCRecipes ------------------------------
(* A small instance of Recipes: two workspaces that define an agent in
   different ways and one that does not load; recipes that are clean, refer to
   a step that comes later, repeat an id, or have no command. *)
EXTENDS Recipes

Text(n) == [is |-> "text", name |-> n]
StepOut(n) == [is |-> "step", name |-> n]
Var(n) == [is |-> "var", name |-> n]
Bad == [is |-> "bad", name |-> ""]

Shell(id, cmd) ==
    [id |-> id, run |-> "", cmd |-> cmd, agent |-> "", provider |-> "", prompt |-> <<>>]
Asks(id, agent, provider, prompt) ==
    [id |-> id, run |-> "agent", cmd |-> <<>>, agent |-> agent, provider |-> provider,
     prompt |-> prompt]

Clean ==
    <<Shell("s", <<Text("ls"), Var("v")>>), Asks("a", "dev", "", <<StepOut("s"), Var("w")>>),
      Asks("b", "dev", "", <<StepOut("s"), StepOut("a")>>)>>
Forward == <<Asks("a", "dev", "dryrun", <<Text("t")>>), Shell("s", <<StepOut("b")>>),
             Asks("b", "dev", "", <<Text("t")>>)>>
Twice == <<Shell("s", <<Text("ls")>>), Shell("s", <<Text("pwd")>>)>>
NoCmd == <<[Shell("s", <<>>) EXCEPT !.run = "shell"]>>
NoTemplate == <<Asks("a", "none", "", <<Bad>>)>>

Named(steps) == [name |-> "r", steps |-> steps]
MCRecipeFiles ==
    {Garbled} \cup {Named(s) : s \in {Clean, Forward, Twice, NoCmd, NoTemplate, <<>>}}

Docs == <<[name |-> "x", text |-> "rule x"], [name |-> "y", text |-> "rule y"]>>
Def(stem, name, provider, rules) ==
    [stem |-> stem, name |-> name, provider |-> provider, system |-> stem, rules |-> rules,
     skills |-> <<>>]
Workspace(agents, providers, default) ==
    [agents |-> agents, rules |-> Docs, skills |-> <<>>, providers |-> providers,
     default |-> default]

MCWorkspaces ==
    {Workspace(<<Def("dev", "", "claude", <<>>)>>, {}, ""),
     Workspace(<<Def("dev", "", "claude", <<>>), Def("other", "dev", "", <<"y", "gone">>)>>,
               {"mine"}, "mine"),
     Workspace(<<Garbled>>, {}, "")}

MCCommands ==
    {[is |-> "recipe", allowShell |-> b, vars |-> [n \in {"v"} |-> "value"]] : b \in BOOLEAN}
    \cup
    {[is |-> "run", req |-> [agent |-> "dev", provider |-> p, task |-> <<"task">>, limit |-> 1]]
        : p \in {"", "codex"}}
MCBuiltins == {"claude"}
=============================================================================
