---------------------------- MODULE MCBackbone ----------------------------
(* Backbones of the shapes the documentation and the samples show, and     *)
(* some that they do not.                                                  *)
EXTENDS Backbone

Group(n)       == [kind |-> "group", name |-> n, from |-> "", reset |-> FALSE]
Block(n)       == [kind |-> "block", name |-> n, from |-> "", reset |-> FALSE]
Own            == [kind |-> "own", name |-> "", from |-> "", reset |-> FALSE]
Use(p)         == [kind |-> "package", name |-> p, from |-> "", reset |-> FALSE]
UseOn(p, f)    == [Use(p) EXCEPT !.from = f]
UseReset(p)    == [Use(p) EXCEPT !.reset = TRUE]

B(n, inputs) == [name |-> n, inputs |-> inputs]
P(n, blocks, outs) == [name |-> n, blocks |-> blocks, outs |-> outs]

(* contrastive_learning_on_movielens, with the edge that orders the uses.  *)
ItemTower == P("item_tower", <<B("item", <<>>), B("item_encoder", <<Block("item")>>)>>, {})

Contrastive ==
  <<P("backbone",
      <<B("user_tower", <<Group("user")>>),
        B("contrastive", <<Use("item_tower"), Use("item_tower")>>),
        B("top_mlp", <<Block("contrastive"), Block("user_tower"), UseReset("item_tower")>>)>>,
      {"top_mlp"}), ItemTower>>

(* The same without that edge.                                             *)
Unordered ==
  <<P("backbone",
      <<B("contrastive", <<Use("item_tower"), Use("item_tower")>>),
        B("top_mlp", <<Group("user"), UseReset("item_tower")>>)>>, {}), ItemTower>>

(* cl4srec_on_taobao.                                                      *)
Cl4srec ==
  <<P("backbone",
      <<B("user_seq", <<>>),
        B("contrastive", <<UseOn("encoder", "augment"), UseOn("encoder", "augment")>>),
        B("main", <<UseOn("encoder", "user_seq"), Group("item")>>)>>, {"main"}),
    P("augment", <<B("aug", <<Block("user_seq")>>)>>, {}),
    P("encoder", <<B("bst", <<Own>>)>>, {})>>

(* The package that is the input of a use is made with the package used.   *)
Nested ==
  <<P("backbone", <<B("seq", <<Group("all")>>), B("x", <<UseOn("tower", "twice")>>),
                    B("y", <<Block("x"), UseOn("tower", "seq")>>)>>, {}),
    P("tower", <<B("mlp", <<Own>>)>>, {}),
    P("twice", <<B("a", <<Group("all")>>), B("b", <<UseOn("tower", "a")>>)>>, {"b"})>>

(* A package inside a package takes a block of the backbone.               *)
NestedTaker ==
  <<P("backbone", <<B("x", <<Use("outer")>>), B("seq", <<Group("all")>>)>>, {}),
    P("outer", <<B("o", <<Use("inner")>>)>>, {}),
    P("inner", <<B("i", <<Block("seq")>>)>>, {})>>

(* A package takes the block that takes the package.                       *)
Cyclic ==
  <<P("backbone", <<B("x", <<Use("p")>>), B("y", <<Block("x")>>)>>, {}),
    P("p", <<B("i", <<Block("x")>>)>>, {})>>

(* The second use gives no input.                                          *)
Sticky ==
  <<P("backbone", <<B("seq", <<Group("all")>>), B("x", <<UseOn("p", "seq")>>),
                    B("y", <<Use("p")>>)>>, {}),
    P("p", <<B("i", <<Own>>)>>, {})>>

(* Names of what is not there.                                             *)
NoBlock == <<P("backbone", <<B("x", <<Group("all")>>)>>, {"y"})>>
NoPackage == <<P("backbone", <<B("x", <<Group("all"), Use("p")>>)>>, {})>>
NoPackageButBlock == <<P("backbone", <<B("p", <<Group("all")>>), B("x", <<Use("p")>>)>>, {})>>
NoGift == <<P("backbone", <<B("x", <<Group("all"), Own>>)>>, {})>>

(* Two blocks and two packages with every choice of input from a few, but  *)
(* none where the packages call each other without end.                    *)
Uses(p) == {Use(p), UseOn(p, "seq")}
Generated ==
  {<<P("backbone", <<B("seq", <<>>), B("x", <<i>>), B("y", <<Block("seq"), j>>)>>, {}),
     P("p", <<B("k", <<Group("all")>>), B("l", <<k>>)>>, {"l"}),
     P("q", <<B("k", <<Group("all")>>), B("m", <<m>>)>>, {})>> :
     i \in Uses("p") \cup {UseOn("p", "q"), UseOn("q", "p"), Block("seq")},
     j \in Uses("q") \cup {Block("x"), UseOn("p", "x"), UseReset("p")},
     k \in {Own, Block("seq"), Group("all"), Use("q"), UseOn("q", "k")},
     m \in {Own, Block("x"), Block("k")}}
  \cup
  {<<P("backbone", <<B("seq", <<>>), B("x", <<i>>), B("y", <<Block("seq"), j>>)>>, {}),
     P("p", <<B("l", <<k>>)>>, {}),
     P("q", <<B("k", <<Group("all")>>), B("m", <<UseOn("p", "k"), Use("p")>>)>>, {"m"})>> :
     i \in Uses("p") \cup {UseOn("p", "q"), Block("seq")},
     j \in {Use("q"), UseOn("p", "x"), UseReset("p"), UseOn("p", "q")},
     k \in {Own, Block("seq"), Group("all")}}

All == {Contrastive, Unordered, Cl4srec, Nested, NestedTaker, Cyclic, Sticky, NoBlock, NoPackage,
        NoPackageButBlock, NoGift}
         \cup Generated
TwoUses == {Unordered}
=============================================================================
