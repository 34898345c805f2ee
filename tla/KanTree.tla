------------------------------ MODULE KanTree ------------------------------
(***************************************************************************)
(* How the tokens of a line become a tree: parse_tree (parser.cpp).        *)
(*                                                                         *)
(* Each running call of parse_tree fills a tree.  A call returns at the    *)
(* bracket it waits for or at the end of the tokens, and the end of the    *)
(* tokens is no error.  A tree is a value here; it joins the tree around it*)
(* when its call returns, which is before anything can follow it there.    *)
(***************************************************************************)
EXTENDS Integers, Sequences

VARIABLES
  tokens, \* the tokens of the line
  pos,    \* how many of them are consumed
  open,   \* the trees of the running calls, the outermost first
  result  \* the tree of the line, or NoTree

Tree(type, objects) == [type |-> type, objects |-> objects]

NoTree == Tree("NONE", <<>>)

Openers == {"OPEN_BRACKET", "OPEN_BRACE"}
Closers == {"CLOSE_BRACKET", "CLOSE_BRACE"}

\* The tree that begins with a token of this type.
TreeType(type) == IF type = "OPEN_BRACE" THEN "BRACES" ELSE "BRACKETS"

\* The parse_until of the call that fills a tree of this type.
Until(type) ==
  CASE type = "BRACES" -> "CLOSE_BRACE"
    [] type = "BRACKETS" -> "CLOSE_BRACKET"
    [] OTHER -> "SKIP"

\* add_tree and add_token.
Add(tree, object) == Tree(tree.type, Append(tree.objects, object))

Top == open[Len(open)]

Master == Tree("MASTER", <<>>)

\* it.peek().
Peek == tokens[pos + 1].type

AtToken == open # <<>> /\ pos < Len(tokens)

\* Variant: the closing bracket of another kind is passed over.
AddToken_DropsCloser ==
  /\ AtToken
  /\ Peek # Until(Top.type) /\ Peek \notin Openers
  /\ pos' = pos + 1
  /\ open' = IF Peek \in Closers THEN open
             ELSE [open EXCEPT ![Len(open)] = Add(@, tokens[pos + 1])]
  /\ UNCHANGED <<tokens, result>>

\* Closing brackets of another kind are tokens as any other.
AddToken ==
  /\ AtToken
  /\ Peek # Until(Top.type) /\ Peek \notin Openers
  /\ pos' = pos + 1
  /\ open' = [open EXCEPT ![Len(open)] = Add(@, tokens[pos + 1])]
  /\ UNCHANGED <<tokens, result>>

\* parse_tree calls itself.
OpenTree ==
  /\ AtToken
  /\ Peek \in Openers
  /\ pos' = pos + 1
  /\ open' = Append(open, Tree(TreeType(Peek), <<>>))
  /\ UNCHANGED <<tokens, result>>

\* The innermost call returns.
Return ==
  IF Len(open) = 1 THEN open' = <<>> /\ result' = Top
  ELSE /\ open' = Append(SubSeq(open, 1, Len(open) - 2), Add(open[Len(open) - 1], Top))
       /\ result' = result

\* Variant: any closing bracket closes the tree, that of the line too.
CloseTree_AnyCloser ==
  /\ AtToken
  /\ Peek \in Closers
  /\ pos' = pos + 1
  /\ Return
  /\ UNCHANGED tokens

CloseTree ==
  /\ AtToken
  /\ Peek = Until(Top.type)
  /\ pos' = pos + 1
  /\ Return
  /\ UNCHANGED tokens

\* is_done(0), in as many calls as there are.
EndOfTokens ==
  /\ open # <<>>
  /\ pos = Len(tokens)
  /\ Return
  /\ UNCHANGED <<tokens, pos>>

Next == AddToken \/ OpenTree \/ CloseTree \/ EndOfTokens

-----------------------------------------------------------------------------
(* Properties.                                                              *)

\* The outermost call fills the tree of the line, the ones it has made fill
\* trees of brackets.
TreesTyped ==
  /\ \A i \in DOMAIN open :
       open[i].type \in IF i = 1 THEN {"MASTER"} ELSE {"BRACKETS", "BRACES"}
  /\ result.type \in {"NONE", "MASTER"}
  /\ result # NoTree => open = <<>> /\ pos = Len(tokens)

=============================================================================
