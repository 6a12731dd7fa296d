------------------------------ MODULE Contexts ------------------------------
(***************************************************************************)
(* What for, with and set do to the context of a template.                 *)
(*                                                                         *)
(* A context is a function from the names that are set to values, tuples   *)
(* that begin with their type.  Statements are tuples as well:             *)
(*   <<"set", name, value>>            <<"show">>                          *)
(*   <<"for", target, values, body, alternative>>                          *)
(*   <<"with", variables, only, body>>     <<"scope", body>>               *)
(* where "scope" is a with tag without variables, and "show" writes down   *)
(* what a template can see.                                                *)
(***************************************************************************)
EXTENDS Integers, Sequences, FiniteSets, SequencesExt

Globals == "g" :> <<"value", 9>>

Shown == {"x", "y", "g"}
Absent == <<"absent">>
Lookup(context, name) == IF name \in DOMAIN context THEN context[name] ELSE Absent
Set(context, name, value) == (name :> value) @@ context
Delete(context, names) == [n \in DOMAIN context \ names |-> context[n]]
mergeGlobals(context) == context @@ Globals

\* The loop variable: its counters and the context around the loop.
LoopOf(index, length, parent) == <<"loop", index, index = length, parent>>

\* What a template sees of a context: variables, and those of its loops.
Around(context) == IF Lookup(context, "loop") = Absent THEN << >> ELSE context["loop"][4]
Counters(context) == IF Lookup(context, "loop") = Absent THEN Absent ELSE SubSeq(context["loop"], 2, 3)
Variables(context) == [n \in Shown |-> Lookup(context, n)]
Seen(context) == <<Variables(context), Counters(context), Variables(Around(context)), Counters(Around(context))>>

Show(r) == [r EXCEPT !.out = Append(@, Seen(r.context))]

-----------------------------------------------------------------------------
(* The code: one context that is changed in place, clones of it to restore. *)

RECURSIVE Execute(_, _)

Private(target) == {"_seq", "_iterated", "_key", target, "_parent", "loop"}

\* A mutant of LeaveFor: the outer context is put back as a whole.
LeaveForOverwriting(context, target) == context["_parent"][2]

\* The end of a for: its variables are deleted, and what the outer context has
\* is put back where nothing is set.
LeaveFor(context, target) == Delete(context, Private(target)) @@ context["_parent"][2]

EnterFor(context, values, alternative) ==
  LET parent == Set(context, "_parent", <<"context", context>>)
      seq == Set(parent, "_seq", <<"sequence", values>>)
      iterated == IF alternative = << >> THEN seq ELSE Set(seq, "_iterated", <<"boolean", FALSE>>)
  IN  Set(iterated, "loop", LoopOf(1, Len(values), context))

\* TwingNodeForLoop, after each iteration.
NextLoop(context, alternative) ==
  LET loop == context["loop"]
      counted == Set(context, "loop", LoopOf(loop[2] + 1, Len(context["_seq"][2]), loop[4]))
  IN  IF alternative = << >> THEN counted ELSE Set(counted, "_iterated", <<"boolean", TRUE>>)

ExecuteFor(target, values, body, alternative, r) ==
  LET iterate(q, k) ==
        LET assigned == Set(Set(q.context, "_key", <<"value", k - 1>>), target, values[k])
            done == Execute(body, [q EXCEPT !.context = assigned])
        IN  [done EXCEPT !.context = NextLoop(@, alternative)]
      looped == FoldLeftDomain(iterate, [r EXCEPT !.context = EnterFor(@, values, alternative)], values)
      over == IF Lookup(looped.context, "_iterated") = <<"boolean", FALSE>> THEN Execute(alternative, looped) ELSE looped
  IN  [over EXCEPT !.context = LeaveFor(@, target)]

\* With variables the body has a new context, without them that of the template;
\* in the end the context is the clone.
ExecuteWith(variables, only, body, r) ==
  LET parent == "_parent" :> <<"context", r.context>>
      inner == mergeGlobals(variables @@ IF only THEN parent ELSE parent @@ r.context)
      done == Execute(body, [r EXCEPT !.context = inner])
  IN  [done EXCEPT !.context = @["_parent"][2]]

ExecuteScope(body, r) ==
  LET done == Execute(body, [r EXCEPT !.context = Set(@, "_parent", <<"context", @>>)])
  IN  [done EXCEPT !.context = @["_parent"][2]]

Execute(statements, r) ==
  LET step(q, s) ==
        CASE s[1] = "set" -> [q EXCEPT !.context = Set(@, s[2], s[3])]
          [] s[1] = "show" -> Show(q)
          [] s[1] = "for" -> ExecuteFor(s[2], s[3], s[4], s[5], q)
          [] s[1] = "with" -> ExecuteWith(s[2], s[3], s[4], q)
          [] s[1] = "scope" -> ExecuteScope(s[2], q)
  IN  FoldLeft(step, r, statements)

Executed(statements) == Execute(statements, [context |-> mergeGlobals("x" :> <<"value", 0>>), out |-> << >>])

-----------------------------------------------------------------------------
(* What it is compared with: scopes.  A for has its target and its loop for  *)
(* itself, whatever is around it; any other variable set in its body is one  *)
(* of the template.  Nothing that is set in a with outlives it.              *)

RECURSIVE Scoped(_, _)

ScopedFor(target, values, body, alternative, r) ==
  LET own == {target, "loop"}
      pass(q, k) == Scoped(body, [q EXCEPT !.context = (target :> values[k]) @@ ("loop" :> LoopOf(k, Len(values), r.context)) @@ @])
      over == IF values = << >> THEN Scoped(alternative, [r EXCEPT !.context = Set(@, "loop", LoopOf(1, 0, r.context))])
              ELSE FoldLeftDomain(pass, r, values)
  IN  [over EXCEPT !.context = [n \in (DOMAIN @ \ own) \cup (own \cap DOMAIN r.context) |->
                                  IF n \in own THEN r.context[n] ELSE @[n]]]

ScopedWith(variables, only, body, r) ==
  [Scoped(body, [r EXCEPT !.context = variables @@ (IF only THEN << >> ELSE @) @@ Globals]) EXCEPT !.context = r.context]

Scoped(statements, r) ==
  LET step(q, s) ==
        CASE s[1] = "set" -> [q EXCEPT !.context = (s[2] :> s[3]) @@ @]
          [] s[1] = "show" -> Show(q)
          [] s[1] = "for" -> ScopedFor(s[2], s[3], s[4], s[5], q)
          [] s[1] = "with" -> ScopedWith(s[2], s[3], s[4], q)
          [] s[1] = "scope" -> ScopedWith(<< >>, FALSE, s[2], q)
  IN  FoldLeft(step, r, statements)

Expected(statements) == Scoped(statements, [context |-> ("x" :> <<"value", 0>>) @@ Globals, out |-> << >>])
=============================================================================
