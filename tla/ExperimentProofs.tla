-------------------------- MODULE ExperimentProofs ---------------------------
(***************************************************************************)
(* Proofs about the command line and the geometry (src/experiment.cpp),    *)
(* for all numbers the options may be given, every size of a pointer and   *)
(* every map.                                                              *)
(***************************************************************************)
EXTENDS Experiment, TLAPS

USE ExperimentAssumption

\* The fields of an Experiment and what they hold.
ExpType ==
  [bytes_per_line : Nat, bytes_per_page : Nat, bytes_per_chain : Nat,
   chains_per_thread : Nat, num_threads : Nat, experiments : Nat,
   seconds : Nat, iterations : Nat, loop_length : Nat,
   access_pattern : {"random", "strided"}, stride : Int,
   numa_placement : {"local", "xor", "add", "map"},
   placement_map : {<< >>} \cup Maps,
   lines_per_page : Nat, pages_per_chain : Nat,
   links_per_line : Nat, links_per_page : Nat,
   lines_per_chain : Nat, links_per_chain : Nat,
   bytes_per_thread : Nat, bytes_per_test : Nat]

\* What the checks of the options add up to.
Accepted ==
  /\ 0 < exp.bytes_per_line /\ 0 < exp.bytes_per_page /\ 0 < exp.bytes_per_chain
  /\ 0 < exp.chains_per_thread /\ 0 < exp.num_threads /\ 0 < exp.experiments
  /\ \/ 0 < exp.seconds /\ exp.iterations = 0
     \/ exp.seconds = 0 /\ 0 < exp.iterations
  /\ exp.stride # 0
  /\ exp.numa_placement = "map" => exp.placement_map \in Maps

\* A chain has a link for each line, or none at all.
LinksLaidOut ==
  IF PointerSize <= exp.bytes_per_line
    THEN 0 < exp.links_per_line /\ exp.lines_per_chain <= exp.links_per_chain
    ELSE exp.links_per_line = 0 /\ exp.links_per_chain = 0

\* What is computed from the sizes, but for the totals.
LaidOut ==
  /\ 0 < exp.pages_per_chain /\ 0 < exp.lines_per_page
  /\ exp.bytes_per_page = exp.lines_per_page * exp.bytes_per_line
  /\ exp.bytes_per_chain = exp.lines_per_chain * exp.bytes_per_line
  /\ exp.links_per_chain = exp.pages_per_chain * exp.links_per_page
  /\ exp.links_per_chain * PointerSize <= exp.bytes_per_chain
  /\ LinksLaidOut

Totals ==
  exp.bytes_per_test =
    exp.num_threads * (exp.chains_per_thread * exp.bytes_per_chain)

\* An option that is in error ends the loop, so that what is left at the end
\* of it was accepted, whatever came before or after.
EInv ==
  /\ exp \in ExpType /\ count \in 0 .. MaxOptions /\ usage \in BOOLEAN
  /\ pc \in {"options", "rejected", "geometry", "placement", "run"}
  /\ tables = Unallocated \/ (0 < tables.threads /\ 0 < tables.chains)
  /\ pc # "rejected" => Accepted
  /\ pc \in {"geometry", "placement"} => ~usage
  /\ pc = "placement" \/ Prepared => LaidOut /\ Totals
  /\ Prepared => TablesFit

-----------------------------------------------------------------------------
(* Arithmetic.                                                             *)

\* Parts(size, part) is the least number of parts that hold the size.
LEMMA PartsRoundUp ==
  ASSUME NEW size \in Nat \ {0}, NEW part \in Nat \ {0}
  PROVE  /\ Parts(size, part) \in Nat \ {0}
         /\ part * Parts(size, part) - size \in 0 .. part - 1
<1> DEFINE q == (size + part - 1) \div part
           r == (size + part - 1) % part
<1>1. q \in Int /\ r \in 0 .. part - 1 /\ size + part - 1 = part * q + r
  OBVIOUS
<1> HIDE DEF q, r
<1>2. part * q = size + part - 1 - r
  BY <1>1
<1>3. part * q - size \in 0 .. part - 1
  BY <1>1, <1>2
<1>4. q >= 1
  <2>1. part * q >= 1
    BY <1>3, <1>1
  <2>2. q <= 0 => part * q <= 0
    BY <1>1
  <2> QED
    BY <1>1, <2>1, <2>2
<1>5. Parts(size, part) = q
  BY DEF Parts, q
<1> QED
  BY <1>1, <1>3, <1>4, <1>5

LEMMA ProductNat ==
  ASSUME NEW a \in Nat, NEW b \in Nat
  PROVE  a * b \in Nat /\ (0 < a /\ 0 < b => 0 < a * b)
OBVIOUS

LEMMA ProductMonotone ==
  ASSUME NEW a \in Nat, NEW b \in Nat, NEW c \in Nat, b <= c
  PROVE  a * b <= a * c
OBVIOUS

\* The links of a line fit into it, and there are some exactly if the line is
\* as long as a pointer.
LEMMA LinksFit ==
  ASSUME NEW line \in Nat
  PROVE  /\ line \div PointerSize \in Nat
         /\ (line \div PointerSize) * PointerSize <= line
         /\ IF PointerSize <= line THEN 0 < line \div PointerSize
                                  ELSE line \div PointerSize = 0
OBVIOUS

-----------------------------------------------------------------------------
(* Every step preserves the invariant.                                     *)

LEMMA InitEInv == Init => EInv
<1> SUFFICES ASSUME Init PROVE EInv
  OBVIOUS
<1>1. exp = Defaults /\ PointerSize \in Nat \ {0}
  BY DEF Init
<1>2. exp \in ExpType
  BY <1>1 DEF Defaults, ExpType
<1>3. Accepted
  BY <1>1 DEF Accepted, Defaults
<1>4. usage \in BOOLEAN /\ pc = "options" /\ ~Prepared
  BY DEF Init, Prepared
<1>5. count \in 0 .. MaxOptions /\ tables = Unallocated
  BY DEF Init
<1> QED
  BY <1>2, <1>3, <1>4, <1>5 DEF EInv

\* A step of the loop that leaves the loop or accepts what it has set.
LEMMA OptionStep ==
  ASSUME EInv, Option, exp' \in ExpType, pc' \in {"options", "rejected"},
         (pc' = "options") => Accepted', usage' \in BOOLEAN, UNCHANGED tables
  PROVE  EInv'
BY DEF EInv, Option, Prepared

LEMMA ParseSizeStep == ASSUME EInv, ParseSize PROVE EInv'
<1>1. PICK field \in Sizes :
        \E v \in Values[field] :
          exp' = [exp EXCEPT ![field] = v] /\ RejectIf(v = 0)
  BY DEF ParseSize
<1>2. PICK v \in Values[field] :
        exp' = [exp EXCEPT ![field] = v] /\ RejectIf(v = 0)
  BY <1>1
<1>3. v \in Nat /\ exp \in ExpType /\ Accepted
  BY <1>2 DEF EInv, ParseSize, Option, Sizes
<1>4. exp' \in ExpType
  BY <1>2, <1>3 DEF ExpType, Sizes
<1>5. ASSUME v # 0 PROVE Accepted'
  <2>1. \A f \in Sizes : exp[f] \in Nat /\ exp'[f] \in {exp[f], v}
    BY <1>2, <1>3 DEF ExpType, Sizes
  <2>2. \A f \in Sizes : 0 < exp[f]
    BY <1>3 DEF Sizes, Accepted
  <2>3. \A f \in Sizes : 0 < exp'[f]
    BY <1>3, <1>5, <2>1, <2>2
  <2>4. UNCHANGED <<exp.seconds, exp.iterations, exp.access_pattern,
                    exp.stride, exp.numa_placement, exp.placement_map>>
    BY <1>2, <1>3 DEF ExpType, Sizes
  <2> QED
    BY <1>3, <2>3, <2>4 DEF Accepted, Sizes
<1> QED
  BY <1>2, <1>4, <1>5, OptionStep DEF EInv, ParseSize, RejectIf

LEMMA ParseSecondsStep == ASSUME EInv, ParseSeconds PROVE EInv'
<1>1. PICK v \in Values["seconds"] :
        exp' = [exp EXCEPT !.seconds = v, !.iterations = 0] /\ RejectIf(v = 0)
  BY DEF ParseSeconds
<1>2. v \in Nat /\ exp \in ExpType /\ Accepted
  BY <1>1 DEF EInv, ParseSeconds, Option
<1>3. exp' \in ExpType
  BY <1>1, <1>2 DEF ExpType
<1>4. ASSUME v # 0 PROVE Accepted'
  <2>1. exp'.seconds = v /\ exp'.iterations = 0
    BY <1>1, <1>2 DEF ExpType
  <2>2. /\ UNCHANGED <<exp.bytes_per_line, exp.bytes_per_page,
                       exp.bytes_per_chain, exp.chains_per_thread,
                       exp.num_threads, exp.experiments>>
        /\ UNCHANGED <<exp.access_pattern, exp.stride, exp.numa_placement,
                       exp.placement_map>>
    BY <1>1, <1>2 DEF ExpType
  <2> QED
    BY <1>2, <1>4, <2>1, <2>2 DEF Accepted
<1> QED
  BY <1>1, <1>3, <1>4, OptionStep DEF EInv, ParseSeconds, RejectIf

LEMMA ParseIterationsStep == ASSUME EInv, ParseIterations PROVE EInv'
<1>1. PICK v \in Values["iterations"] :
        exp' = [exp EXCEPT !.iterations = v, !.seconds = 0] /\ RejectIf(v = 0)
  BY DEF ParseIterations
<1>2. v \in Nat /\ exp \in ExpType /\ Accepted
  BY <1>1 DEF EInv, ParseIterations, Option
<1>3. exp' \in ExpType
  BY <1>1, <1>2 DEF ExpType
<1>4. ASSUME v # 0 PROVE Accepted'
  <2>1. exp'.iterations = v /\ exp'.seconds = 0
    BY <1>1, <1>2 DEF ExpType
  <2>2. /\ UNCHANGED <<exp.bytes_per_line, exp.bytes_per_page,
                       exp.bytes_per_chain, exp.chains_per_thread,
                       exp.num_threads, exp.experiments>>
        /\ UNCHANGED <<exp.access_pattern, exp.stride, exp.numa_placement,
                       exp.placement_map>>
    BY <1>1, <1>2 DEF ExpType
  <2> QED
    BY <1>2, <1>4, <2>1, <2>2 DEF Accepted
<1> QED
  BY <1>1, <1>3, <1>4, OptionStep DEF EInv, ParseIterations, RejectIf

LEMMA ParseLoopStep == ASSUME EInv, ParseLoop PROVE EInv'
<1>1. PICK v \in Values["loop_length"] : exp' = [exp EXCEPT !.loop_length = v]
  BY DEF ParseLoop
<1>2. v \in Nat /\ exp \in ExpType /\ Accepted
  BY <1>1 DEF EInv, ParseLoop, Option
<1>3. exp' \in ExpType /\ Accepted'
  BY <1>1, <1>2 DEF ExpType, Accepted
<1> QED
  BY <1>3, OptionStep DEF EInv, ParseLoop, RejectIf

LEMMA ParseAccessStep == ASSUME EInv, ParseAccess PROVE EInv'
<1>1. exp \in ExpType /\ Accepted
  BY DEF EInv, ParseAccess, Option
<1>2. CASE exp' = [exp EXCEPT !.access_pattern = "random"] /\ RejectIf(FALSE)
  <2>1. exp' \in ExpType /\ Accepted'
    BY <1>1, <1>2 DEF ExpType, Accepted
  <2> QED
    BY <1>2, <2>1, OptionStep DEF EInv, ParseAccess, RejectIf
<1>3. ASSUME NEW v \in Values["stride"], NEW sign \in {1, -1},
             exp' = [exp EXCEPT !.access_pattern = "strided",
                                !.stride = sign * v],
             RejectIf(v = 0)
      PROVE  EInv'
  <2>1. v \in Nat /\ sign * v \in Int /\ (v # 0 => sign * v # 0)
    OBVIOUS
  <2>2. exp' \in ExpType /\ (v # 0 => Accepted')
    BY <1>1, <1>3, <2>1 DEF ExpType, Accepted
  <2> QED
    BY <1>3, <2>2, OptionStep DEF EInv, ParseAccess, RejectIf
<1> QED
  BY <1>2, <1>3 DEF ParseAccess

LEMMA ParsePlacementStep == ASSUME EInv, ParsePlacement PROVE EInv'
<1>1. exp \in ExpType /\ Accepted
  BY DEF EInv, ParsePlacement, Option
<1>2. exp' \in ExpType /\ Accepted'
  <2>1. CASE \E p \in {"local", "xor", "add"} :
               exp' = [exp EXCEPT !.numa_placement = p]
    <3>1. PICK p \in {"local", "xor", "add"} : exp' = [exp EXCEPT !.numa_placement = p]
      BY <2>1
    <3>2. exp' \in ExpType
      BY <1>1, <3>1 DEF ExpType
    <3>3. Accepted'
      BY <1>1, <3>1 DEF ExpType, Accepted
    <3> QED
      BY <3>2, <3>3
  <2>2. CASE \E map \in Maps :
               exp' = [exp EXCEPT !.numa_placement = "map",
                                  !.placement_map = map]
    <3>1. PICK map \in Maps :
            exp' = [exp EXCEPT !.numa_placement = "map", !.placement_map = map]
      BY <2>2
    <3>2. exp' \in ExpType
      BY <1>1, <3>1 DEF ExpType
    <3>3. Accepted'
      BY <1>1, <3>1 DEF ExpType, Accepted
    <3> QED
      BY <3>2, <3>3
  <2> QED
    BY <2>1, <2>2 DEF ParsePlacement
<1> QED
  BY <1>2, OptionStep DEF EInv, ParsePlacement, RejectIf

LEMMA PlainOptionStep ==
  ASSUME EInv, ParseHelp \/ ParseOther \/ ParseError \/ EndOfOptions
  PROVE  EInv'
<1>1. Accepted /\ Accepted' /\ UNCHANGED <<exp, tables>> /\ exp \in ExpType
  BY DEF EInv, ParseHelp, ParseOther, ParseError, EndOfOptions, Option, Accepted
<1>2. CASE ParseHelp \/ ParseOther \/ ParseError
  <2>1. Option /\ pc' \in {"options", "rejected"} /\ usage' \in BOOLEAN
    BY <1>2 DEF EInv, ParseHelp, ParseOther, ParseError, Option
  <2> QED
    BY <1>1, <2>1, OptionStep
<1>3. CASE EndOfOptions
  <2>1. pc = "options" /\ UNCHANGED <<count, usage>> /\ usage \in BOOLEAN
    BY <1>3 DEF EInv, EndOfOptions
  <2>2. (usage /\ pc' = "run") \/ (~usage /\ pc' = "geometry")
    BY <1>3, <2>1 DEF EndOfOptions
  <2>3. ~Prepared' /\ (pc' \in {"geometry", "placement"} => ~usage') /\ pc' # "placement"
    BY <2>1, <2>2 DEF Prepared
  <2> QED
    BY <1>1, <2>1, <2>2, <2>3 DEF EInv
<1> QED
  BY <1>2, <1>3

\* What the geometry is made of.
LEMMA GeometryFacts ==
  ASSUME EInv, pc = "geometry",
         NEW lines, lines = Parts(exp.bytes_per_page, exp.bytes_per_line),
         NEW page,  page = exp.bytes_per_line * lines,
         NEW pages, pages = Parts(exp.bytes_per_chain, page),
         NEW links, links = exp.bytes_per_line \div PointerSize
  PROVE  /\ lines \in Nat \ {0} /\ page \in Nat \ {0} /\ pages \in Nat \ {0}
         /\ links \in Nat /\ links * PointerSize <= exp.bytes_per_line
         /\ IF PointerSize <= exp.bytes_per_line THEN 0 < links ELSE links = 0
         /\ page - exp.bytes_per_page \in 0 .. exp.bytes_per_line - 1
         /\ page * pages - exp.bytes_per_chain \in 0 .. page - 1
<1> DEFINE line == exp.bytes_per_line
<1>1. exp \in ExpType /\ Accepted
  BY DEF EInv
<1>2. line \in Nat /\ exp.bytes_per_page \in Nat /\ exp.bytes_per_chain \in Nat
  BY <1>1 DEF ExpType
<1>3. line \in Nat \ {0} /\ exp.bytes_per_page \in Nat \ {0}
      /\ exp.bytes_per_chain \in Nat \ {0}
  BY <1>1, <1>2 DEF Accepted
<1> HIDE DEF line
<1>4. lines \in Nat \ {0} /\ page - exp.bytes_per_page \in 0 .. line - 1
  <2> DEFINE size == exp.bytes_per_page
  <2>1. size \in Nat \ {0} /\ lines = Parts(size, line) /\ page = line * lines
    BY <1>3 DEF line
  <2> HIDE DEF size
  <2>2. lines \in Nat \ {0} /\ page - size \in 0 .. line - 1
    BY <1>3, <2>1, PartsRoundUp
  <2> QED
    BY <2>2 DEF size
<1>5. page \in Nat \ {0}
  <2>1. line \in Nat /\ lines \in Nat /\ 0 < line /\ 0 < lines
    BY <1>3, <1>4
  <2>2. line * lines \in Nat /\ 0 < line * lines
    BY <2>1, ProductNat
  <2>3. page = line * lines
    BY DEF line
  <2> QED
    BY <2>2, <2>3
<1> USE DEF line
<1>6. pages \in Nat \ {0} /\ page * pages - exp.bytes_per_chain \in 0 .. page - 1
  BY <1>3, <1>5, PartsRoundUp
<1>7. /\ links \in Nat /\ links * PointerSize <= line
      /\ IF PointerSize <= line THEN 0 < links ELSE links = 0
  BY <1>3, LinksFit
<1> QED
  BY <1>4, <1>5, <1>6, <1>7

LEMMA GeometryStep == ASSUME EInv, Geometry PROVE EInv'
<1> DEFINE line  == exp.bytes_per_line
           lines == Parts(exp.bytes_per_page, line)
           page  == line * lines
           pages == Parts(exp.bytes_per_chain, page)
           chain == page * pages
           links == line \div PointerSize
<1>1. pc = "geometry" /\ pc' = "placement" /\ UNCHANGED <<count, usage, tables>>
  BY DEF Geometry
<1>2. exp \in ExpType /\ Accepted
  BY <1>1 DEF EInv
<1>3. exp' = [exp EXCEPT
                   !.lines_per_page   = lines,
                   !.bytes_per_page   = page,
                   !.pages_per_chain  = pages,
                   !.bytes_per_chain  = chain,
                   !.bytes_per_thread = chain * exp.chains_per_thread,
                   !.bytes_per_test   =
                      chain * exp.chains_per_thread * exp.num_threads,
                   !.links_per_line   = links,
                   !.links_per_page   = lines * links,
                   !.lines_per_chain  = lines * pages,
                   !.links_per_chain  = lines * pages * links]
  BY DEF Geometry
<1>4. /\ lines \in Nat \ {0} /\ page \in Nat \ {0} /\ pages \in Nat \ {0}
      /\ links \in Nat /\ links * PointerSize <= line
      /\ IF PointerSize <= line THEN 0 < links ELSE links = 0
  BY <1>1, GeometryFacts
<1>5. line \in Nat /\ exp.chains_per_thread \in Nat /\ exp.num_threads \in Nat
  BY <1>2 DEF ExpType
<1>6. /\ page = lines * line
      /\ chain = (lines * pages) * line
      /\ chain \in Nat \ {0}
      /\ lines * pages * links = pages * (lines * links)
      /\ lines * pages * links * PointerSize <= chain
      /\ IF PointerSize <= line THEN lines * pages <= lines * pages * links
                               ELSE lines * pages * links = 0
      /\ chain * exp.chains_per_thread * exp.num_threads
           = exp.num_threads * (exp.chains_per_thread * chain)
  <2> HIDE DEF lines, pages, links, line
  <2>1. page = lines * line /\ chain = (lines * pages) * line
    BY <1>4, <1>5
  <2>2. chain \in Nat \ {0}
    BY <1>4, ProductNat
  <2>3. lines * pages \in Nat /\ links * PointerSize \in Nat
    BY <1>4, ProductNat
  <2>4. (lines * pages) * (links * PointerSize) <= (lines * pages) * line
    BY <1>4, <1>5, <2>3, ProductMonotone
  <2>5. lines * pages * links * PointerSize = (lines * pages) * (links * PointerSize)
    BY <1>4
  <2>6. lines * pages * links = pages * (lines * links)
    BY <1>4
  <2>8. IF PointerSize <= line THEN lines * pages <= lines * pages * links
                               ELSE lines * pages * links = 0
    <3> DEFINE all == lines * pages
    <3>1. all \in Nat /\ all * 1 = all /\ all * 0 = 0
      BY <2>3
    <3> HIDE DEF all
    <3>2. 1 <= links => all * 1 <= all * links
      BY <1>4, <3>1, ProductMonotone
    <3>3. IF PointerSize <= line THEN all <= all * links ELSE all * links = 0
      BY <1>4, <3>1, <3>2
    <3> QED
      BY <3>3 DEF all
  <2> HIDE DEF chain
  <2>7. chain * exp.chains_per_thread * exp.num_threads
          = exp.num_threads * (exp.chains_per_thread * chain)
    BY <1>5, <2>2
  <2> QED
    BY <2>1, <2>2, <2>4, <2>5, <2>6, <2>7, <2>8
<1>7. /\ lines * links \in Nat /\ lines * pages \in Nat
      /\ lines * pages * links \in Nat
      /\ chain * exp.chains_per_thread \in Nat
      /\ chain * exp.chains_per_thread * exp.num_threads \in Nat
  <2> HIDE DEF lines, pages, links, chain
  <2> QED
    BY <1>4, <1>5, <1>6, ProductNat
<1> HIDE DEF lines, page, pages, chain, links
<1>8. /\ exp'.lines_per_page = lines /\ exp'.bytes_per_page = page
      /\ exp'.pages_per_chain = pages /\ exp'.bytes_per_chain = chain
      /\ exp'.links_per_line = links /\ exp'.links_per_page = lines * links
      /\ exp'.lines_per_chain = lines * pages
      /\ exp'.links_per_chain = lines * pages * links
      /\ exp'.bytes_per_test = chain * exp.chains_per_thread * exp.num_threads
  BY <1>2, <1>3 DEF ExpType
<1>9. UNCHANGED <<exp.bytes_per_line, exp.chains_per_thread, exp.num_threads,
                  exp.experiments, exp.seconds, exp.iterations,
                  exp.access_pattern, exp.stride, exp.numa_placement,
                  exp.placement_map>>
  BY <1>2, <1>3 DEF ExpType
<1>10. exp' \in ExpType
  <2> DEFINE bytes ==
        [exp EXCEPT !.bytes_per_page = page, !.bytes_per_chain = chain,
                    !.bytes_per_thread = chain * exp.chains_per_thread,
                    !.bytes_per_test =
                       chain * exp.chains_per_thread * exp.num_threads]
             parts ==
        [bytes EXCEPT !.lines_per_page = lines, !.pages_per_chain = pages,
                      !.links_per_line = links]
  <2>1. bytes \in ExpType
    BY <1>2, <1>4, <1>6, <1>7 DEF ExpType
  <2> HIDE DEF bytes
  <2>2. parts \in ExpType
    BY <1>4, <2>1 DEF ExpType
  <2> HIDE DEF parts
  <2>3. [parts EXCEPT !.links_per_page = lines * links,
                      !.lines_per_chain = lines * pages,
                      !.links_per_chain = lines * pages * links] \in ExpType
    BY <1>7, <2>2 DEF ExpType
  <2>4. exp' = [parts EXCEPT !.links_per_page = lines * links,
                             !.lines_per_chain = lines * pages,
                             !.links_per_chain = lines * pages * links]
    BY <1>2, <1>3 DEF ExpType, parts, bytes
  <2> QED
    BY <2>3, <2>4
<1>11. Accepted'
  BY <1>2, <1>4, <1>6, <1>8, <1>9 DEF Accepted
<1>12. LaidOut'
  BY <1>4, <1>6, <1>8, <1>9 DEF LaidOut, LinksLaidOut
<1>13. Totals'
  BY <1>6, <1>8, <1>9 DEF Totals
<1> QED
  BY <1>1, <1>10, <1>11, <1>12, <1>13 DEF EInv, Prepared

LEMMA AllocTablesStep == ASSUME EInv, AllocTables PROVE EInv'
<1>1. UNCHANGED <<Accepted, LaidOut, Totals>>
  BY DEF AllocTables, Accepted, LaidOut, LinksLaidOut, Totals
<1>2. TablesFit'
  BY DEF AllocTables, TablesFit
<1>3. 0 < tables'.threads /\ 0 < tables'.chains
  BY DEF EInv, AllocTables, Accepted
<1> QED
  BY <1>1, <1>2, <1>3 DEF EInv, AllocTables, Prepared

LEMMA AllocMapStep == ASSUME EInv, AllocMap PROVE EInv'
<1> DEFINE map     == exp.placement_map
           threads == Len(map)
           chains  == FirstChains(map)
<1>1. exp \in ExpType /\ Accepted /\ LaidOut /\ map \in Maps
  BY DEF EInv, AllocMap, Accepted
<1>2. threads \in Nat \ {0} /\ chains \in Nat \ {0}
  <2>1. map \in Seq(Nat) /\ map # << >>
    BY <1>1
  <2>2. map[1] \in Nat
    BY <2>1
  <2> QED
    BY <2>1, <2>2 DEF FirstChains
<1> HIDE DEF map
<1>3. /\ tables' = [threads |-> threads, chains |-> chains]
      /\ exp' = [exp EXCEPT
                      !.num_threads = threads,
                      !.chains_per_thread = chains,
                      !.bytes_per_thread = exp.bytes_per_chain * chains,
                      !.bytes_per_test = exp.bytes_per_chain * chains * threads]
      /\ pc' = "run" /\ UNCHANGED <<count, usage>>
  BY DEF AllocMap, map
<1> HIDE DEF threads, chains
<1>4. exp.bytes_per_chain \in Nat
  BY <1>1 DEF ExpType
<1>5. /\ exp.bytes_per_chain * chains \in Nat
      /\ exp.bytes_per_chain * chains * threads \in Nat
      /\ exp.bytes_per_chain * chains * threads
           = threads * (chains * exp.bytes_per_chain)
  BY <1>2, <1>4
<1>6. exp' \in ExpType
  BY <1>1, <1>2, <1>3, <1>5 DEF ExpType
<1>7. /\ exp'.num_threads = threads /\ exp'.chains_per_thread = chains
      /\ exp'.bytes_per_test = exp.bytes_per_chain * chains * threads
  BY <1>1, <1>3 DEF ExpType
<1>8. UNCHANGED <<exp.bytes_per_line, exp.bytes_per_page, exp.bytes_per_chain,
                  exp.experiments, exp.seconds, exp.iterations,
                  exp.access_pattern, exp.stride, exp.numa_placement,
                  exp.placement_map>>
  BY <1>1, <1>3 DEF ExpType
<1>9. UNCHANGED <<exp.pages_per_chain, exp.lines_per_page, exp.lines_per_chain,
                  exp.links_per_line, exp.links_per_page, exp.links_per_chain>>
  BY <1>1, <1>3 DEF ExpType
<1>10. Accepted' /\ LaidOut' /\ Totals'
  BY <1>1, <1>2, <1>5, <1>7, <1>8, <1>9 DEF Accepted, LaidOut, LinksLaidOut, Totals
<1>11. TablesFit' /\ 0 < tables'.threads /\ 0 < tables'.chains
  BY <1>2, <1>3, <1>7 DEF TablesFit
<1> QED
  BY <1>3, <1>6, <1>10, <1>11 DEF EInv, Prepared

LEMMA MapErrorStep == ASSUME EInv, MapError PROVE EInv'
BY DEF EInv, MapError, Prepared

LEMMA NextEInv == EInv /\ [Next]_vars => EInv'
<1> SUFFICES ASSUME EInv, [Next]_vars PROVE EInv'
  OBVIOUS
<1>1. CASE UNCHANGED vars
  BY <1>1 DEF EInv, Accepted, LaidOut, LinksLaidOut, Totals, TablesFit, Prepared, vars
<1> QED
  BY <1>1, ParseSizeStep, ParseSecondsStep, ParseIterationsStep, ParseLoopStep,
     ParseAccessStep, ParsePlacementStep, PlainOptionStep, GeometryStep,
     AllocTablesStep, AllocMapStep, MapErrorStep DEF Next, Decided

-----------------------------------------------------------------------------
(* The theorems.                                                           *)

\* The invariant holds for every sequence of options (experiment.cpp:97-556).
THEOREM EInvariance == Spec => []EInv
BY InitEInv, NextEInv, PTL DEF Spec

\* Types of what parse_args works on (experiment.h:20-75).
THEOREM TypeCorrect == Spec => []TypeOK
<1>1. exp \in ExpType => DOMAIN exp = DOMAIN Defaults
  BY DEF ExpType, Defaults
<1>2. ASSUME EInv PROVE TypeOK
  <2>1. exp.access_pattern \in {"random", "strided"}
        /\ exp.numa_placement \in {"local", "xor", "add", "map"}
        /\ exp.stride \in Int
    BY <1>2 DEF EInv, ExpType
  <2> QED
    BY <1>1, <1>2, <2>1 DEF EInv, TypeOK
<1> QED
  BY <1>2, EInvariance, PTL

\* Either the seconds or the iterations are set, never both or neither
\* (experiment.cpp:120 and 205).
THEOREM OneModeCorrect == Spec => []OneMode
<1>1. ASSUME Accepted PROVE (0 < exp.seconds) # (0 < exp.iterations)
  <2>1. CASE 0 < exp.seconds /\ exp.iterations = 0
    BY <2>1
  <2>2. CASE exp.seconds = 0 /\ 0 < exp.iterations
    BY <2>2
  <2> QED
    BY <1>1, <2>1, <2>2 DEF Accepted
<1>2. EInv => OneMode
  BY <1>1 DEF EInv, OneMode, Prepared
<1> QED
  BY <1>2, EInvariance, PTL

\* The tables have an entry for every thread and chain, for every map
\* (experiment.cpp:480-640).
THEOREM TablesCorrect == Spec => []TablesFit
<1>1. EInv => TablesFit
  BY DEF EInv, TablesFit
<1> QED
  BY <1>1, EInvariance, PTL

\* The sizes printed are those of the chains, for every size asked for
\* (experiment.cpp:458-478 and 640).
THEOREM SizesCorrect == Spec => []SizesAgree
<1>1. EInv => SizesAgree
  BY DEF EInv, LaidOut, Totals, SizesAgree
<1> QED
  BY <1>1, EInvariance, PTL

\* What reaches the threads is what they assume, but for lines shorter than a
\* pointer: those are accepted and leave a chain without a link
\* (experiment.cpp:97-232 and 458-468).
THEOREM FitCorrect == Spec => []FitToRun
<1>1. EInv => FitToRun
  BY DEF EInv, Accepted, LaidOut, LinksLaidOut, FitToRun, Prepared
<1> QED
  BY <1>1, EInvariance, PTL

\* Sizes are rounded up, and by less than one part (experiment.cpp:458-470).
THEOREM RoundingCorrect == Spec => RoundsUp
<1>1. ASSUME EInv, [Next]_vars, pc = "geometry"
      PROVE  /\ exp'.bytes_per_page - exp.bytes_per_page
                  \in 0 .. exp.bytes_per_line - 1
             /\ exp'.bytes_per_chain - exp.bytes_per_chain
                  \in 0 .. exp'.bytes_per_page - 1
  <2>1. CASE Geometry
    <3> DEFINE lines == Parts(exp.bytes_per_page, exp.bytes_per_line)
               page  == exp.bytes_per_line * lines
               pages == Parts(exp.bytes_per_chain, page)
    <3>1. exp'.bytes_per_page = page /\ exp'.bytes_per_chain = page * pages
      BY <1>1, <2>1 DEF Geometry, EInv, ExpType
    <3>2. page - exp.bytes_per_page \in 0 .. exp.bytes_per_line - 1
          /\ page * pages - exp.bytes_per_chain \in 0 .. page - 1
      BY <1>1, GeometryFacts
    <3> QED
      BY <3>1, <3>2
  <2>2. CASE UNCHANGED exp
    <3>1. /\ {exp.bytes_per_line, exp.bytes_per_page, exp.bytes_per_chain} \subseteq Nat
          /\ 0 < exp.bytes_per_line /\ 0 < exp.bytes_per_page
      BY <1>1 DEF EInv, ExpType, Accepted
    <3> QED
      BY <2>2, <3>1
  <2> QED
    BY <1>1, <2>1, <2>2 DEF Next, vars, Option, ParseSize, ParseSeconds,
       ParseIterations, ParseLoop, ParseAccess, ParsePlacement, ParseHelp,
       ParseOther, ParseError, EndOfOptions, AllocTables, AllocMap, MapError,
       Decided
<1>2. EInv /\ [Next]_vars =>
        [pc = "geometry" =>
           /\ exp'.bytes_per_page - exp.bytes_per_page
                \in 0 .. exp.bytes_per_line - 1
           /\ exp'.bytes_per_chain - exp.bytes_per_chain
                \in 0 .. exp'.bytes_per_page - 1]_vars
  BY <1>1
<1> QED
  BY <1>2, EInvariance, PTL DEF Spec, RoundsUp
=============================================================================
