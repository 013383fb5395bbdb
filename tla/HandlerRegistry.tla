-------------------------- MODULE HandlerRegistry --------------------------
(***************************************************************************)
(* HttpServer::handlerRegistries: which handler answers a method on a path,*)
(* and registerHandler, whose scope guard undoes a registry that was       *)
(* reserved for a handler that could not be stored.                        *)
(*                                                                         *)
(* A program registers each of its (path, method) pairs once.              *)
(***************************************************************************)
EXTENDS FiniteSets, Functions

CONSTANTS
  Handlers,  \* the (path, method) pairs the program has handlers for
  Faults     \* which failures the environment may produce

VARIABLES
  handlerRegistries,  \* [path |-> methods with a handler], for reserved paths
  registered,         \* the pairs registerHandler reported success for
  process             \* "up", or what ended it

registryVars == <<handlerRegistries, registered>>

RegistryInit ==
  /\ handlerRegistries = <<>>
  /\ registered = {}

\* _reserveHandlerRegistry: an empty registry under a name that had none.
Reserved(name) ==
  [n \in DOMAIN handlerRegistries \cup {name} |->
     IF n \in DOMAIN handlerRegistries THEN handlerRegistries[n] ELSE {}]

\* _removeHandlerRegistry.
Without(registries, name) == Restrict(registries, DOMAIN registries \ {name})

\* Mutant: the guard is not released for a name that had a registry.
GuardNeverReleased(name) == TRUE

\* removeHandlerGuard is released at once when the name had a registry.
GuardArmed(name) == name \notin DOMAIN handlerRegistries

\* registerHandler returns {}.
RegisterOk(name, method) ==
  /\ handlerRegistries' = [Reserved(name) EXCEPT ![name] = @ \cup {method}]
  /\ registered' = registered \cup {<<name, method>>}
  /\ UNCHANGED process

\* There is no memory for the handler in the registry.
HandlerRefused(name) ==
  /\ handlerRegistries' = IF GuardArmed(name) THEN Without(Reserved(name), name)
                          ELSE Reserved(name)
  /\ UNCHANGED <<registered, process>>

\* There is no memory for the registry itself: the guard, already armed, runs
\* _removeHandlerRegistry, which asserts that the registry exists.
RegistryRefused(name) ==
  /\ name \notin DOMAIN handlerRegistries
  /\ process' = "registryAssert"
  /\ UNCHANGED registryVars

RegisterHandler(name, method) ==
  /\ <<name, method>> \in Handlers \ registered
  /\ \/ RegisterOk(name, method)
     \/ "oom" \in Faults /\ (HandlerRefused(name) \/ RegistryRefused(name))

-----------------------------------------------------------------------------
\* A request finds exactly the handlers whose registration succeeded: a
\* failed registerHandler leaves no empty registry behind, which would turn
\* 404 into 405, and takes no other handler of the same path away.
RegistryExact ==
  /\ \A name \in DOMAIN handlerRegistries : handlerRegistries[name] # {}
  /\ UNION {{name} \X handlerRegistries[name] : name \in DOMAIN handlerRegistries} = registered
=============================================================================
