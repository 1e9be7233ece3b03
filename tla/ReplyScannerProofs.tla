------------------------- MODULE ReplyScannerProofs -------------------------
(***************************************************************************)
(* The scanner of tool calls, for prose of any length: an opening brace or *)
(* a quotation mark before a call does not swallow it, as long as the      *)
(* prose has only one of the two.                                          *)
(***************************************************************************)
EXTENDS ReplyScanner, TLAPS, SequenceTheorems

\* Prose with braces, but neither a quotation mark nor a tag.
Braces == {"x", "backslash", "</invoke>", "}", "{"}

\* Prose with quotation marks and tags, but no opening brace.
Quotes == {"x", "backslash", "</invoke>", "}", "quote", "<tool_call>"}

\* The reply is prose and, from the token first on, the call.
Reply(first) ==
  /\ Len(text) = first + 6
  /\ \A k \in 1..(first - 1) : text[k] \in Prose
  /\ text[first] = "<tool_call>" /\ text[first + 1] = "{" /\ text[first + 2] = "quote"
  /\ text[first + 3] = "x" /\ text[first + 4] = "quote" /\ text[first + 5] = "}"
  /\ text[first + 6] = "x"

Places(first) ==
  i \in 1..(first + 7) /\ depth \in Nat /\ start \in Nat /\ skip = 1 /\ ~esc

\* In the prose no string is open, and no tagged object.
InProse(first) == i <= first => ~inStr /\ IF Prose \subseteq Braces THEN ~inTool ELSE depth = 0

\* In the call, what the scanner knows after each token of it.
InCall(first) ==
  /\ i = first + 1 => ~inStr /\ depth = 0
  /\ i = first + 2 \/ i > first + 4 => ~inStr
  /\ i \in {first + 3, first + 4} => inStr
  /\ i \in (first + 2)..(first + 5) => depth = 1 /\ start = first + 1
  /\ i > first + 5 => <<first + 1, first + 5>> \in objs

IInv ==
  \E first \in Nat \ {0} : Reply(first) /\ Places(first) /\ InProse(first) /\ InCall(first)

LEMMA InitIInv == Init => IInv
<1> SUFFICES ASSUME Init
             PROVE  IInv
  OBVIOUS
<1>1. PICK n \in 0..MaxProse : \E prose \in [1..n -> Prose] : text = prose \o Call
  BY DEF Init
<1>2. PICK prose \in [1..n -> Prose] : text = prose \o Call
  BY <1>1
<1>3. n \in Nat
  OBVIOUS
<1> DEFINE f == n + 1
           Tokens == Prose \union {"<tool_call>", "{", "quote", "x", "}"}
<1>4. prose \in Seq(Tokens) /\ Len(prose) = n /\ \A k \in 1..n : prose[k] \in Prose
  <2> HIDE DEF Tokens
  <2>1. Prose \subseteq Tokens
    BY DEF Tokens
  <2>2. prose \in [1..n -> Tokens]
    BY <2>1
  <2> QED
    BY <1>3, <2>2
<1>5. Call \in Seq(Tokens) /\ Len(Call) = 7
  BY DEF Call
<1> HIDE DEF Tokens
<1>6. /\ Len(text) = n + 7
      /\ \A k \in 1..(n + 7) : text[k] = IF k <= n THEN prose[k] ELSE Call[k - n]
  <2>1. /\ Len(prose \o Call) = Len(prose) + Len(Call)
        /\ \A k \in 1..(Len(prose) + Len(Call)) :
             (prose \o Call)[k] = IF k <= Len(prose) THEN prose[k] ELSE Call[k - Len(prose)]
    BY <1>4, <1>5, ConcatProperties
  <2> QED
    BY <1>2, <1>4, <1>5, <2>1
<1>7. f = n + 1 /\ f \in Nat \ {0}
  BY <1>3
<1>8. ASSUME NEW j \in 1..7
      PROVE  text[n + j] = Call[j]
  <2>1. n + j \in 1..(n + 7) /\ ~(n + j <= n) /\ (n + j) - n = j
    BY <1>3
  <2> QED
    BY <1>6, <2>1
<1>9. Reply(f)
  <2>1. \A k \in 1..(f - 1) : text[k] \in Prose
    BY <1>3, <1>4, <1>6, <1>7
  <2>2. /\ text[n + 1] = Call[1] /\ text[n + 2] = Call[2] /\ text[n + 3] = Call[3]
        /\ text[n + 4] = Call[4] /\ text[n + 5] = Call[5] /\ text[n + 6] = Call[6]
        /\ text[n + 7] = Call[7]
    BY <1>8
  <2>3. /\ f + 1 = n + 2 /\ f + 2 = n + 3 /\ f + 3 = n + 4 /\ f + 4 = n + 5
        /\ f + 5 = n + 6 /\ f + 6 = n + 7
    BY <1>3, <1>7
  <2>4. /\ Call[1] = "<tool_call>" /\ Call[2] = "{" /\ Call[3] = "quote" /\ Call[4] = "x"
        /\ Call[5] = "quote" /\ Call[6] = "}" /\ Call[7] = "x"
    BY DEF Call
  <2> QED
    <3> HIDE DEF Call, f
    <3>1. Len(text) = f + 6
      BY <1>3, <1>6, <1>7
    <3>2. /\ text[f] = Call[1] /\ text[f + 1] = Call[2] /\ text[f + 2] = Call[3]
          /\ text[f + 3] = Call[4] /\ text[f + 4] = Call[5]
          /\ text[f + 5] = Call[6] /\ text[f + 6] = Call[7]
      BY <1>7, <2>2, <2>3, Zenon
    <3> QED
      BY <2>1, <2>4, <3>1, <3>2, Zenon DEF Reply
<1>10. Places(f) /\ InProse(f) /\ InCall(f)
  <2>1. i = 1 /\ i < f + 1 /\ f \in Nat
    BY <1>3, <1>7 DEF Init
  <2> QED
    BY <2>1 DEF Init, Places, InProse, InCall
<1> QED
  BY <1>7, <1>9, <1>10 DEF IInv

\* Where a step may read a token: anywhere in the prose, or where the call has it.
LEMMA TokenRead ==
  ASSUME NEW f \in Nat \ {0}, Reply(f), Places(f), NEW token, Read(token)
  PROVE  /\ i \in 1..(f + 6) /\ i' = i + 1
         /\ \/ i < f \/ i = f \/ i = f + 1 \/ i = f + 2 \/ i = f + 3
            \/ i = f + 4 \/ i = f + 5 \/ i = f + 6
         /\ i < f => token \in Prose
         /\ i = f => token = "<tool_call>"
         /\ i = f + 1 => token = "{"
         /\ i = f + 2 => token = "quote"
         /\ i = f + 3 => token = "x"
         /\ i = f + 4 => token = "quote"
         /\ i = f + 5 => token = "}"
         /\ i = f + 6 => token = "x"
<1>1. /\ i \in 1..(f + 7) /\ i <= f + 6
      /\ text[i] = token /\ i' = i + 1
  BY DEF Reply, Places, Read
<1>2. i < f => i \in 1..(f - 1)
  BY <1>1
<1>3. /\ i \in 1..(f + 6)
      /\ \/ i < f \/ i = f \/ i = f + 1 \/ i = f + 2 \/ i = f + 3
         \/ i = f + 4 \/ i = f + 5 \/ i = f + 6
  BY <1>1
<1> QED
  BY <1>1, <1>2, <1>3, Zenon DEF Reply

\* In prose of one kind, every step keeps the invariant.
LEMMA NextIInv ==
  ASSUME Prose \subseteq Braces \/ Prose \subseteq Quotes, IInv, [Next]_vars
  PROVE  IInv'
<1>f. PICK f \in Nat \ {0} : Reply(f) /\ Places(f) /\ InProse(f) /\ InCall(f)
  BY DEF IInv
<1>0. /\ Reply(f) /\ Places(f) /\ InProse(f) /\ InCall(f)
      /\ Len(text) = f + 6
      /\ i \in 1..(f + 7) /\ depth \in Nat /\ start \in Nat /\ skip = 1 /\ ~esc
  BY <1>f DEF Reply, Places
<1>1. UNCHANGED text
  BY DEF Next, vars, InXML, StringToken, OpenXML, ToolTag, OpenQuote, OpenBrace, CloseBrace,
         Other, Return
<1>2. Reply(f)'
  BY <1>0, <1>1, Zenon DEF Reply
<1>3. CASE InXML
  BY <1>0, <1>3 DEF InXML, Places
<1>4. CASE StringToken
  <2>1. PICK token \in {text[i]} :
          Read(token) /\ IF esc THEN esc' = FALSE /\ UNCHANGED inStr
                                ELSE esc' = (token = "backslash") /\ inStr' = (token # "quote")
    BY <1>4, Zenon DEF StringToken
  <2>2. ~esc /\ inStr
    BY <1>0, <1>4 DEF StringToken, Places
  <2>3. esc' = (token = "backslash") /\ inStr' = (token # "quote")
    BY <2>1, <2>2, Zenon
  <2>4. UNCHANGED <<depth, start, inTool, skip, objs>>
    BY <1>4, Zenon DEF StringToken
  <2>5. i > f
    BY <1>0, <2>2 DEF InProse, Places
  <2>6. i \in {f + 3, f + 4}
    <3>1. \/ i < f \/ i = f \/ i = f + 1 \/ i = f + 2 \/ i = f + 3
          \/ i = f + 4 \/ i = f + 5 \/ i = f + 6
      BY <1>0, <2>1, TokenRead, Zenon
    <3>2. i # f + 1 /\ i # f + 2 /\ ~ (i > f + 4)
      BY <1>0, <2>2 DEF InCall
    <3> QED
      BY <1>0, <2>5, <3>1, <3>2
  <2>7. /\ i' = i + 1
        /\ i = f + 3 => inStr' = TRUE /\ esc' = FALSE
        /\ i = f + 4 => inStr' = FALSE /\ esc' = FALSE
    <3>1. /\ i' = i + 1
          /\ i = f + 3 => token = "x"
          /\ i = f + 4 => token = "quote"
      BY <1>0, <2>1, TokenRead, Zenon
    <3> QED
      BY <2>3, <3>1, Zenon
  <2>8. Places(f)' /\ InProse(f)'
    BY <1>0, <2>4, <2>6, <2>7 DEF Places, InProse
  <2>9. InCall(f)'
    BY <1>0, <2>4, <2>6, <2>7 DEF InCall
  <2> QED
    BY <1>2, <2>8, <2>9 DEF IInv
<1>5. CASE OpenXML
  <2>1. PICK token : token = "<invoke" /\ Read(token)
    BY <1>5 DEF OpenXML
  <2>2. token \in Prose
    BY <1>0, <2>1, TokenRead, Zenon
  <2> QED
    BY <2>1, <2>2, Zenon DEF Braces, Quotes
<1>6. CASE ToolTag
  <2>1. PICK token : token = "<tool_call>" /\ Read(token)
    BY <1>6 DEF ToolTag
  <2>2. /\ i \in 1..(f + 6) /\ i' = i + 1
        /\ (i < f /\ ~ (Prose \subseteq Braces)) \/ i = f
    BY <1>0, <2>1, TokenRead, Zenon DEF Braces
  <2>3. /\ \/ depth' = 0 /\ start' = 0 /\ inTool' = TRUE
           \/ ~ (depth = 0 \/ ~inTool) /\ UNCHANGED <<depth, start, inTool>>
        /\ UNCHANGED <<inStr, esc, skip, objs>> /\ ~inStr
    BY <1>6, Zenon DEF ToolTag
  <2>4. Places(f)'
    BY <1>0, <1>2, <2>2, <2>3 DEF Places
  <2>5. i < f => ~ (Prose \subseteq Braces)
    BY <1>0, <2>2
  <2>6. depth' = 0
    BY <1>0, <2>2, <2>3, <2>5 DEF InProse
  <2>7. InProse(f)'
    BY <1>0, <1>2, <2>2, <2>3, <2>5, <2>6 DEF InProse
  <2>8. InCall(f)'
    BY <1>0, <1>2, <2>2, <2>3, <2>6 DEF InCall
  <2> QED
    BY <1>2, <2>4, <2>7, <2>8 DEF IInv
<1>7. CASE OpenQuote
  <2>1. PICK token : token = "quote" /\ Read(token)
    BY <1>7 DEF OpenQuote
  <2>2. /\ i \in 1..(f + 6) /\ i' = i + 1
        /\ (i < f /\ ~ (Prose \subseteq Braces)) \/ i \in {f + 2, f + 4}
    BY <1>0, <2>1, TokenRead, Zenon DEF Braces
  <2>3. /\ (inStr' <=> depth > 0) /\ ~inStr
        /\ UNCHANGED <<depth, start, inTool, esc, skip, objs>>
    BY <1>7, Zenon DEF OpenQuote
  <2>4. Places(f)'
    BY <1>0, <1>2, <2>2, <2>3 DEF Places
  <2>5. i < f => ~ (Prose \subseteq Braces)
    BY <1>0, <2>2
  <2>6. i < f => depth = 0
    BY <1>0, <2>5 DEF InProse
  <2>7. InProse(f)'
    BY <1>0, <1>2, <2>2, <2>3, <2>5, <2>6 DEF InProse
  <2>8. i < f \/ i = f + 2
    BY <1>0, <2>2, <2>3 DEF InCall
  <2>9. InCall(f)'
    BY <1>0, <1>2, <2>2, <2>3, <2>6, <2>8 DEF InCall
  <2> QED
    BY <1>2, <2>4, <2>7, <2>9 DEF IInv
<1>8. CASE OpenBrace
  <2>1. PICK token : token = "{" /\ Read(token)
    BY <1>8 DEF OpenBrace
  <2>2. /\ i \in 1..(f + 6) /\ i' = i + 1
        /\ (i < f /\ Prose \subseteq Braces) \/ i = f + 1
    BY <1>0, <2>1, TokenRead, Zenon DEF Quotes
  <2>3. /\ start' = IF depth = 0 THEN i ELSE start
        /\ depth' = depth + 1 /\ ~inStr
        /\ UNCHANGED <<inTool, inStr, esc, skip, objs>>
    BY <1>8, Zenon DEF OpenBrace
  <2>4. Places(f)'
    BY <1>0, <1>2, <2>2, <2>3 DEF Places
  <2>5. i < f => Prose \subseteq Braces
    BY <1>0, <2>2
  <2>6. InProse(f)'
    BY <1>0, <1>2, <2>2, <2>3, <2>5 DEF InProse
  <2>7. i < f => i' <= f
    BY <1>0, <2>2
  <2>8. InCall(f)'
    BY <1>0, <1>2, <2>2, <2>3, <2>7 DEF InCall
  <2> QED
    BY <1>2, <2>4, <2>6, <2>8 DEF IInv
<1>9. CASE CloseBrace
  <2>1. PICK token : token = "}" /\ Read(token)
    BY <1>9 DEF CloseBrace
  <2>2. /\ i \in 1..(f + 6) /\ i' = i + 1
        /\ i < f \/ i = f + 5
    <3>1. /\ i \in 1..(f + 6) /\ i' = i + 1
          /\ i < f \/ i = f \/ i = f + 1 \/ i = f + 2 \/ i = f + 3 \/ i = f + 4 \/ i = f + 5
             \/ i = f + 6
      BY <1>0, <2>1, TokenRead, Zenon
    <3>2. /\ i = f => token = "<tool_call>"
          /\ i = f + 1 => token = "{"
          /\ i = f + 2 \/ i = f + 4 => token = "quote"
          /\ i = f + 3 \/ i = f + 6 => token = "x"
      BY <1>0, <2>1, TokenRead, Zenon
    <3>3. i # f /\ i # f + 1 /\ i # f + 2 /\ i # f + 3 /\ i # f + 4 /\ i # f + 6
      BY <2>1, <3>2, Zenon
    <3> QED
      BY <3>1, <3>3, Zenon
  <2>3. /\ depth' = IF depth > 0 THEN depth - 1 ELSE 0
        /\ \/ depth = 1 /\ start > 0 /\ objs' = objs \union {<<start, i>>}
              /\ start' = 0 /\ inTool' = FALSE
           \/ ~ (depth = 1 /\ start > 0) /\ UNCHANGED <<objs, start, inTool>>
        /\ ~inStr /\ UNCHANGED <<inStr, esc, skip>>
    BY <1>9, Zenon DEF CloseBrace
  <2>4. Places(f)'
    BY <1>0, <1>2, <2>2, <2>3 DEF Places
  <2>5. InProse(f)'
    BY <1>0, <1>2, <2>2, <2>3 DEF InProse, Places
  <2>6. InCall(f)'
    BY <1>0, <1>2, <2>2, <2>3 DEF InCall
  <2> QED
    BY <1>2, <2>4, <2>5, <2>6 DEF IInv
<1>10. CASE Other
  <2>1. PICK token : token \in {"x", "backslash", "</invoke>", "<invoke"} /\ Read(token)
    BY <1>10 DEF Other
  <2>2. /\ i \in 1..(f + 6) /\ i' = i + 1
        /\ i < f \/ i \in {f + 3, f + 6}
    BY <1>0, <2>1, TokenRead, Zenon
  <2>3. ~inStr /\ UNCHANGED <<depth, start, inTool, inStr, esc, skip, objs>>
    BY <1>10, Zenon DEF Other
  <2>4. Places(f)'
    BY <1>0, <2>2, <2>3 DEF Places
  <2>5. InProse(f)'
    BY <1>0, <2>2, <2>3 DEF InProse
  <2>6. InCall(f)'
    BY <1>0, <2>2, <2>3 DEF InCall
  <2> QED
    BY <1>2, <2>4, <2>5, <2>6 DEF IInv
<1>11. CASE Return \/ UNCHANGED vars
  <2>1. UNCHANGED <<i, depth, start, inTool, inStr, esc, skip, objs>>
    BY <1>11, Zenon DEF Return, vars
  <2> QED
    BY <1>0, <1>2, <2>1 DEF IInv, Places, InProse, InCall
<1> QED
  BY <1>3, <1>4, <1>5, <1>6, <1>7, <1>8, <1>9, <1>10, <1>11 DEF Next

\* The docstring of the scanner, where it holds: a well-formed call is extracted after prose
\* of any length in which braces are never closed or quotation marks stand alone, as long
\* as it does not have both.
THEOREM CallExtractedHolds ==
  ASSUME Prose \subseteq Braces \/ Prose \subseteq Quotes
  PROVE  Spec => []CallExtracted
<1>1. IInv /\ [Next]_vars => IInv'
  BY NextIInv
<1>2. IInv => CallExtracted
  <2> SUFFICES ASSUME IInv, Scanned
               PROVE  <<(Len(text) - Len(Call) + 1) + 1, (Len(text) - Len(Call) + 1) + 5>> \in objs
    BY Zenon DEF CallExtracted
  <2>1. PICK f \in Nat \ {0} : Reply(f) /\ InCall(f)
    BY DEF IInv
  <2>2. Len(text) = f + 6 /\ Len(Call) = 7
    BY <2>1 DEF Reply, Call
  <2>3. Len(text) - Len(Call) + 1 = f /\ i > f + 5
    BY <2>2 DEF Scanned
  <2> QED
    BY <2>1, <2>3, Zenon DEF InCall
<1> QED
  BY InitIInv, <1>1, <1>2, PTL DEF Spec
=============================================================================
