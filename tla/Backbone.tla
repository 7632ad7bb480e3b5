------------------------------ MODULE Backbone ------------------------------
(***************************************************************************)
(* layers/backbone.py: packages of blocks, the graph each of them is built *)
(* into and the order its blocks are called in.                            *)
(*                                                                         *)
(* The first package is the backbone itself.  A block of a package may take*)
(* the output of a package, which is called for it, and a block of the     *)
(* backbone; the packages are known to each other through a table of the   *)
(* class.  A call runs through the blocks in topological order; the calls  *)
(* of packages are nested, and are kept in a stack.                        *)
(*                                                                         *)
(* What a layer computes is left out: an output is there or it is not.     *)
(***************************************************************************)
EXTENDS Dag

CONSTANTS
  Configs  \* the configurations to try: a sequence of packages each, the
           \*   first is the backbone.  A package has a name, blocks and outs
           \*   (concat_blocks or output_blocks); a block has a name and
           \*   inputs, none if its layer is input_layer (raw_input and
           \*   embedding_layer are left out).  An input has a kind
           \*   ("group", "block", "package", "own" for use_package_input),
           \*   a name, the name of its package_input (from, Nothing if
           \*   none) and whether it has a reset_input.

Main == "backbone"
Nothing == ""
BlocksOf(pkg) == {pkg.blocks[i].name : i \in DOMAIN pkg.blocks}
Inputs(pkg) == UNION {{<<b.name, b.inputs[i]>> : i \in DOMAIN b.inputs} :
                        b \in {pkg.blocks[j] : j \in DOMAIN pkg.blocks}}
NamesIn(c) == {c[k].name : k \in DOMAIN c}

(* The packages of configuration c that the blocks of pkg use.             *)
UsedIn(c, pkg) ==
  {p \in NamesIn(c) : \E bi \in Inputs(pkg) :
     bi[2].kind = "package" /\ p \in {bi[2].name, bi[2].from}}

InputType == [kind : {"group", "block", "package", "own"}, name : STRING, from : STRING,
              reset : BOOLEAN]
BlockType == [name : STRING, inputs : Seq(InputType)]
PackageType == [name : STRING, blocks : Seq(BlockType), outs : SUBSET STRING]

(* Of two packages of one name the table would keep the later only, and a  *)
(* package that uses itself, also through others, is called without end.   *)
ASSUME ConfigsAssumption ==
  \A c \in Configs :
    /\ c \in Seq(PackageType) /\ Len(c) > 0 /\ c[1].name = Main
    /\ \A k, l \in DOMAIN c : c[k].name = c[l].name => k = l
    /\ \E depth \in [NamesIn(c) -> 0..Len(c)] :
         \A k \in DOMAIN c : \A p \in UsedIn(c, c[k]) : depth[p] < depth[c[k].name]

VARIABLES
  config,
  built,     \* Package.__packages: graph and outs of each package built
  building,  \* the package to build next
  stack,     \* the calls under way, the backbone's first
  held,      \* held[p]: the _package_input, or Nothing, and whether there
             \*   is an input_config, of package p
  status     \* "building", "calling", "done", "failed"

vars == <<config, built, building, stack, held, status>>

PackageNames == NamesIn(config)
PackageOf(p) == CHOOSE pkg \in {config[k] : k \in DOMAIN config} : pkg.name = p

(* Blocks of its own, the input blocks of feature groups included.         *)
OwnBlocks(pkg) == BlocksOf(pkg) \cup {bi[2].name : bi \in {x \in Inputs(pkg) : x[2].kind = "group"}}

---------------------------------------------------------------------------
(* Package.__init__.                                                       *)

(* An input names a block or feature group of the package, or else a block *)
(* of the backbone if that has been built.                                 *)
IsOutside(pkg, x) == x.kind = "block" /\ x.name \notin OwnBlocks(pkg)
OfBackbone(x) == Main \in DOMAIN built /\ x.name \in OwnBlocks(PackageOf(Main))

(* The nodes, each with the first place where the package mentions it: the *)
(* blocks in their order, then the packages and groups that the inputs     *)
(* mention, block by block and input by input.                             *)
MentionsOf(i, j, x) ==
  CASE x.kind = "package" -> {<<x.name, <<i, j, 1>>>>}
                               \cup (IF x.from = Nothing THEN {} ELSE {<<x.from, <<i, j, 2>>>>})
    [] x.kind = "group"   -> {<<x.name, <<i, j, 1>>>>}
    [] OTHER              -> {}

Mentions(pkg) ==
  {<<pkg.blocks[i].name, <<0, i, 0>>>> : i \in DOMAIN pkg.blocks}
  \cup UNION {UNION {MentionsOf(i, j, pkg.blocks[i].inputs[j]) :
                       j \in DOMAIN pkg.blocks[i].inputs} : i \in DOMAIN pkg.blocks}

FirstPlace(pkg, n) ==
  CHOOSE place \in {m[2] : m \in {x \in Mentions(pkg) : x[1] = n}} :
    \A m \in Mentions(pkg) : m[1] = n => ~Earlier(m[2], place)

EdgesOf(pkg) ==
  {<<bi[2].name, bi[1]>> : bi \in {x \in Inputs(pkg) :
      x[2].kind # "own" /\ ~IsOutside(pkg, x[2])}}
  \cup {<<bi[2].from, bi[2].name>> : bi \in {x \in Inputs(pkg) :
      x[2].kind = "package" /\ x[2].from # Nothing}}

GraphOf(pkg) ==
  [nodes |-> [n \in {m[1] : m \in Mentions(pkg)} |-> FirstPlace(pkg, n)],
   edges |-> EdgesOf(pkg)]

(* A package that takes blocks of the backbone becomes a node of the       *)
(* backbone's graph, after those blocks.                                   *)
Taken(pkg) == {x \in {bi[2] : bi \in Inputs(pkg)} : IsOutside(pkg, x)}
AddedNow(name) ==
  AddNode(built[Main].graph, name, <<Len(config[1].blocks) + building, 0, 0>>)

(* Faulty variant: the edge the wrong way round.                           *)
MainGraphReversed(pkg) ==
  [AddedNow(pkg.name) EXCEPT
     !.edges = @ \cup {<<pkg.name, x.name>> : x \in Taken(pkg)}]

MainGraphWith(pkg) ==
  [AddedNow(pkg.name) EXCEPT
     !.edges = @ \cup {<<x.name, pkg.name>> : x \in Taken(pkg)}]

Build ==
  LET pkg == config[building]
      graph == GraphOf(pkg)
      entry == [graph |-> graph, outs |-> IF pkg.outs = {} THEN Leaves(graph) ELSE pkg.outs]
      with == [p \in DOMAIN built \cup {pkg.name} |->
                 CASE p = pkg.name -> entry
                   [] p = Main /\ p # pkg.name /\ Taken(pkg) # {} ->
                        [built[p] EXCEPT !.graph = MainGraphWith(pkg)]
                   [] OTHER -> built[p]]
  IN /\ status = "building" /\ building <= Len(config)
     /\ IF /\ \A x \in Taken(pkg) : OfBackbone(x)
           /\ Acyclic(graph)
           /\ Taken(pkg) # {} => Acyclic(MainGraphWith(pkg))
        THEN built' = with /\ building' = building + 1 /\ UNCHANGED status
        ELSE status' = "failed" /\ UNCHANGED <<built, building>>
     /\ UNCHANGED <<config, stack, held>>

---------------------------------------------------------------------------
(* Package.call.  A call sorts the graph of its package; then it has the   *)
(* nodes left to go through, the outputs it has, the input of the current  *)
(* block that it is at, and how far a package is with that: "idle" not yet,*)
(* "input" its package_input is to be given, "inner" a package is called   *)
(* for that, "ready" it may be called, "main" it is called.  use: the      *)
(* input of the caller that it is called for.                              *)

NoInput == [kind |-> "package", name |-> Nothing, from |-> Nothing, reset |-> FALSE]

CallOf(p, use) ==
  {[pkg |-> p, use |-> use, sort |-> s, left |-> <<>>, sorted |-> FALSE,
    outputs |-> {}, at |-> 1, waits |-> "idle"] : s \in SortsOf(built[p].graph)}

Top == stack[Len(stack)]
Below == SubSeq(stack, 1, Len(stack) - 1)
BlockAt(f) == CHOOSE b \in ToSetOf(PackageOf(f.pkg).blocks) : b.name = Head(f.left)
Current == BlockAt(Top)

Calling == status = "calling" /\ stack # <<>>
SetTop(f) == stack' = [stack EXCEPT ![Len(stack)] = f]
Fails == status' = "failed" /\ UNCHANGED stack

StartCall ==
  /\ status = "building" /\ building > Len(config)
  /\ status' = "calling"
  /\ \E f \in CallOf(Main, NoInput) : stack' = <<f>>
  /\ UNCHANGED <<config, built, building, held>>

SortNode ==
  /\ Calling /\ ~Top.sorted /\ Top.sort.ready # <<>>
  /\ \E s \in Popped(built[Top.pkg].graph, Top.sort) : SetTop([Top EXCEPT !.sort = s])
  /\ UNCHANGED <<config, built, building, held, status>>

Sorted ==
  /\ Calling /\ ~Top.sorted /\ Top.sort.ready = <<>>
  /\ IF Len(Top.sort.result) = Cardinality(NodesOf(built[Top.pkg].graph))
     THEN SetTop([Top EXCEPT !.sorted = TRUE, !.left = Top.sort.result]) /\ UNCHANGED status
     ELSE Fails
  /\ UNCHANGED <<config, built, building, held>>

(* A node that is no block here must be a package; it is passed over.  It  *)
(* comes before the block that uses it, which then need not look again.    *)
AtNode == Calling /\ Top.sorted /\ Top.left # <<>>

PassPackage ==
  /\ AtNode /\ Head(Top.left) \notin OwnBlocks(PackageOf(Top.pkg))
  /\ IF Head(Top.left) \in DOMAIN built
     THEN SetTop([Top EXCEPT !.left = Tail(@)]) /\ UNCHANGED status
     ELSE Fails
  /\ UNCHANGED <<config, built, building, held>>

(* The block has its inputs: its layer is called.  The blocks of layer     *)
(* input_layer, those made for feature groups among them, have theirs from *)
(* the features, and are reset if the package has an input_config.         *)
Finished(f) == [f EXCEPT !.left = Tail(@), !.outputs = @ \cup {Head(f.left)}, !.at = 1]

IsBlock == AtNode /\ Head(Top.left) \in BlocksOf(PackageOf(Top.pkg))

AtInputLayer ==
  /\ AtNode /\ Head(Top.left) \in OwnBlocks(PackageOf(Top.pkg))
  /\ IsBlock => Current.inputs = <<>>

Produce ==
  /\ AtInputLayer \/ (IsBlock /\ Top.at > Len(Current.inputs))
  /\ SetTop(Finished(Top))
  /\ UNCHANGED <<config, built, building, held, status>>

(* block_input, an input at a time.                                        *)
Input == Current.inputs[Top.at]
AtInput(kinds) == IsBlock /\ Top.at <= Len(Current.inputs) /\ Input.kind \in kinds
NextInput(f) == [f EXCEPT !.at = @ + 1, !.waits = "idle"]

ReadOutput ==
  /\ AtInput({"group", "block"})
  /\ IF Input.name \in Top.outputs \cup stack[1].outputs
     THEN SetTop(NextInput(Top)) /\ UNCHANGED status ELSE Fails
  /\ UNCHANGED <<config, built, building, held>>

ReadPackageInput ==
  /\ AtInput({"own"})
  /\ IF held[Top.pkg].input # Nothing THEN SetTop(NextInput(Top)) /\ UNCHANGED status ELSE Fails
  /\ UNCHANGED <<config, built, building, held>>

Push(p, use, waits) ==
  \E f \in CallOf(p, use) : stack' = Append([stack EXCEPT ![Len(stack)].waits = waits], f)

(* First the input layers of the package are reset, if the input says so.  *)
ResetInput ==
  /\ AtInput({"package"}) /\ Top.waits = "idle"
  /\ IF Input.name \in DOMAIN built
     THEN /\ held' = IF Input.reset THEN [held EXCEPT ![Input.name].reset = TRUE] ELSE held
          /\ SetTop([Top EXCEPT !.waits = IF Input.from = Nothing THEN "ready" ELSE "input"])
          /\ UNCHANGED status
     ELSE Fails /\ UNCHANGED held
  /\ UNCHANGED <<config, built, building>>

(* The package_input is an output here, or that of another package, which  *)
(* is called for it.                                                       *)
AtGiving == AtInput({"package"}) /\ Top.waits = "input"

GivePackageInput ==
  /\ AtGiving /\ Input.from \in Top.outputs
  /\ held' = [held EXCEPT ![Input.name].input = Input.from]
  /\ SetTop([Top EXCEPT !.waits = "ready"])
  /\ UNCHANGED <<config, built, building, status>>

CallInnerPackage ==
  /\ AtGiving /\ Input.from \in DOMAIN built \ Top.outputs
  /\ Push(Input.from, NoInput, "inner")
  /\ UNCHANGED <<config, built, building, held, status>>

CallPackage ==
  /\ AtInput({"package"}) /\ Top.waits = "ready"
  /\ Push(Input.name, Input, "main")
  /\ UNCHANGED <<config, built, building, held, status>>

(* A call ends: its outputs are merged, and the caller goes on.  Without a *)
(* caller the backbone is done.                                            *)
InputOf(f) == BlockAt(f).inputs[f.at]

AtEnd == Calling /\ Top.sorted /\ Top.left = <<>>

NoOutput ==
  /\ AtEnd /\ ~(built[Top.pkg].outs \subseteq Top.outputs)
  /\ Fails
  /\ UNCHANGED <<config, built, building, held>>

(* Faulty variant: what the inner package returns is never given.          *)
ReturnUngiven ==
  /\ AtEnd /\ built[Top.pkg].outs \subseteq Top.outputs /\ Below # <<>>
  /\ LET caller == Below[Len(Below)]
     IN stack' = [Below EXCEPT ![Len(Below)] =
                    IF caller.waits = "inner" THEN [caller EXCEPT !.waits = "ready"]
                    ELSE NextInput(caller)]
  /\ UNCHANGED <<config, built, building, held, status>>

Return ==
  /\ AtEnd /\ built[Top.pkg].outs \subseteq Top.outputs /\ Below # <<>>
  /\ LET caller == Below[Len(Below)]
         inner == caller.waits = "inner"
     IN /\ stack' = [Below EXCEPT ![Len(Below)] =
                       IF inner THEN [caller EXCEPT !.waits = "ready"] ELSE NextInput(caller)]
        /\ held' = IF inner
                   THEN [held EXCEPT ![InputOf(caller).name].input = InputOf(caller).from]
                   ELSE held
  /\ UNCHANGED <<config, built, building, status>>

Done ==
  /\ AtEnd /\ built[Top.pkg].outs \subseteq Top.outputs /\ Below = <<>>
  /\ status' = "done"
  /\ UNCHANGED <<config, built, building, stack, held>>

---------------------------------------------------------------------------
BackboneInit ==
  /\ config \in Configs
  /\ built = <<>> /\ building = 1 /\ stack = <<>> /\ status = "building"
  /\ held = [p \in PackageNames |-> [input |-> Nothing, reset |-> FALSE]]

BackboneNext ==
  \/ Build \/ StartCall \/ SortNode \/ Sorted \/ PassPackage \/ Produce
  \/ ReadOutput \/ ReadPackageInput \/ ResetInput \/ GivePackageInput \/ CallInnerPackage
  \/ CallPackage \/ NoOutput \/ Return \/ Done

BackboneSpec == BackboneInit /\ [][BackboneNext]_vars /\ WF_vars(BackboneNext)

---------------------------------------------------------------------------
(* Edges are between nodes of their graph, and the order of the calls is a *)
(* topological one while it is made and when it is done, also for the      *)
(* backbone's graph, to which packages built later have added themselves.  *)
SortSound ==
  /\ \A p \in DOMAIN built :
       LET g == built[p].graph IN g.edges \subseteq NodesOf(g) \X NodesOf(g)
  /\ \A i \in DOMAIN stack :
       LET g == built[stack[i].pkg].graph
       IN RespectsEdges(g, stack[i].sort) /\ EndsComplete(g, stack[i].sort)

(* Whether a package takes blocks of the backbone while it is itself used  *)
(* by a package: the backbone's graph then has it as a node, but no edge   *)
(* from it to the package that calls it.                                   *)
NestsTaker ==
  \E k \in DOMAIN config : /\ config[k].name # Main
                          /\ \E p \in UsedIn(config, config[k]) : Taken(PackageOf(p)) # {}

(* Whether a package that reads its input is used without one.             *)
ReadsOwn(p) == \E bi \in Inputs(PackageOf(p)) : bi[2].kind = "own"
LacksInput ==
  \/ ReadsOwn(Main)
  \/ \E k \in DOMAIN config : \E bi \in Inputs(config[k]) :
       /\ bi[2].kind = "package"
       /\ \/ bi[2].from = Nothing /\ ReadsOwn(bi[2].name)
          \/ bi[2].from \in PackageNames /\ ReadsOwn(bi[2].from)

(* Whether a use or an output names what is not there.                     *)
Misnames ==
  \E k \in DOMAIN config :
    \/ ~(config[k].outs \subseteq OwnBlocks(config[k]))
    \/ \E bi \in Inputs(config[k]) :
         /\ bi[2].kind = "package"
         /\ \/ bi[2].name \notin PackageNames
            \/ bi[2].from \notin PackageNames \cup OwnBlocks(config[k]) \cup {Nothing}

(* Once the packages are built, a call finds every input it reads, in every*)
(* order the sort may give, through any depth of packages: unless one of   *)
(* the three holds.                                                        *)
InputsReady ==
  (status = "failed" /\ stack # <<>>) => Misnames \/ NestsTaker \/ LacksInput

(* A block that reads the package's input reads what this use of the       *)
(* package has given, also when that was another package's output, whose   *)
(* call used the same package.                                             *)
OwnInput ==
  (AtInput({"own"}) /\ Top.use.from # Nothing) => held[Top.pkg].input = Top.use.from

(* docs/source/component/backbone.md:758: reset_input resets the input     *)
(* layers for this call of the package.                                    *)
ResetOnlyThisCall ==
  (AtInputLayer /\ held[Top.pkg].reset) => Top.use.reset

=============================================================================
