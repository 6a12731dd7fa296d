---------------------------- MODULE ExtensionSet ----------------------------
(* TwingExtensionSet: extensions and single definitions are registered until *)
(* something is asked for. The first question initialises the set: what the  *)
(* extensions provide is added, definition by definition, and from then on   *)
(* nothing can be registered. A definition has a kind and a name; two of a   *)
(* kind may not have the same name, except for node visitors, which have     *)
(* none. An initialisation that throws leaves what it has added.             *)
EXTENDS Integers, Sequences, FiniteSets, SequencesExt

CONSTANTS
  Provides,   \* the definitions of each extension, in the order initExtension adds them
  Direct,     \* the definitions a program may register on its own
  MaxVisitors \* a bound: an initialisation that is tried again adds the visitors again

VARIABLES
  extensions,    \* the names of those that were added, in that order
  registry,      \* what is registered: definitions, with where they come from
  visitors,      \* the node visitors, in order
  initialized,
  failed         \* history: an initialisation has thrown

extensionVars == <<extensions, registry, visitors, initialized, failed>>

Own == "the program"

\* A visitor has no name in the code: here it has one that tells it from the
\* other visitors of its extension, as "by" tells what an extension has added
\* from what the program has.
ASSUME ExtensionSetAssumption ==
  /\ Own \notin DOMAIN Provides
  /\ \A e \in DOMAIN Provides :
       /\ Provides[e] \in Seq(ToSet(Provides[e]))
       /\ \A m, n \in DOMAIN Provides[e] :
            (Provides[e][m].kind = "visitor" /\ Provides[e][n].kind = "visitor" /\ Provides[e][m].name = Provides[e][n].name)
              => m = n

InitExtensions ==
  extensions = << >> /\ registry = {} /\ visitors = << >> /\ initialized = FALSE /\ failed = FALSE

-----------------------------------------------------------------------------

Has(r, d) == \E known \in r.registry : known.kind = d.kind /\ known.name = d.name

\* addFilter, addFunction, addTest, addOperator, addTokenParser, addNodeVisitor
\* and addSourceMapNodeFactory, during an initialisation that has not thrown.
AddDefinition(r, d, by) ==
  IF r.thrown THEN r
  ELSE IF d.kind = "visitor" THEN [r EXCEPT !.visitors = Append(@, <<d.name, by>>)]
  ELSE IF Has(r, d) THEN [r EXCEPT !.thrown = TRUE]
  ELSE [r EXCEPT !.registry = @ \cup {[kind |-> d.kind, name |-> d.name, by |-> by]}]

initExtension(r, e) ==
  LET added[n \in 0 .. Len(Provides[e])] ==
        IF n = 0 THEN r ELSE AddDefinition(added[n - 1], Provides[e][n], e)
  IN  added[Len(Provides[e])]

Initialisation ==
  LET done[n \in 0 .. Len(extensions)] ==
        IF n = 0 THEN [registry |-> registry, visitors |-> visitors, thrown |-> FALSE]
        ELSE initExtension(done[n - 1], extensions[n])
  IN  done[Len(extensions)]

addExtension(e) ==
  /\ ~initialized
  /\ e \notin ToSet(extensions)
  /\ extensions' = Append(extensions, e)
  /\ UNCHANGED <<registry, visitors, initialized, failed>>

addDefinition(d) ==
  LET r == AddDefinition([registry |-> registry, visitors |-> visitors, thrown |-> FALSE], d, Own)
  IN  /\ ~initialized
      /\ ~r.thrown
      /\ registry' = r.registry /\ visitors' = r.visitors
      /\ UNCHANGED <<extensions, initialized, failed>>

\* A mutant of initExtensions: the set counts as initialised before it is.
initExtensionsEarly ==
  LET r == Initialisation
  IN  /\ ~initialized /\ Len(visitors) < MaxVisitors
      /\ registry' = r.registry /\ visitors' = r.visitors
      /\ initialized' = TRUE
      /\ failed' = (failed \/ r.thrown)
      /\ UNCHANGED extensions

\* What any getter does first. It returns, or throws the error of a definition.
initExtensions ==
  LET r == Initialisation
  IN  /\ ~initialized /\ Len(visitors) < MaxVisitors
      /\ registry' = r.registry /\ visitors' = r.visitors
      /\ initialized' = ~r.thrown
      /\ failed' = (failed \/ r.thrown)
      /\ UNCHANGED extensions

Ask == initExtensions \/ (initialized /\ UNCHANGED extensionVars)

-----------------------------------------------------------------------------

\* Once the set answers, it has everything the extensions provide, each
\* definition once: an initialisation that has thrown half way, and has left
\* the set with a part of it, is never taken for a complete one, however often
\* it is tried again and whatever is registered in between.
WholeOrNothing ==
  initialized =>
    /\ ~failed
    /\ \A e \in ToSet(extensions) : \A d \in ToSet(Provides[e]) :
         IF d.kind = "visitor" THEN Cardinality({n \in DOMAIN visitors : visitors[n] = <<d.name, e>>}) = 1
         ELSE {known \in registry : known.kind = d.kind /\ known.name = d.name}
                = {[kind |-> d.kind, name |-> d.name, by |-> e]}
=============================================================================
