------------------------------- MODULE Heredoc -------------------------------
(***************************************************************************)
(* The here-document of shell/src/core/module/common/redirect.c: its lines *)
(* go to an arena, each at an aligned offset, and come back in one buffer, *)
(* block by block; it has room for the lines and a null, and what is       *)
(* copied to it includes what aligns them.  Nothing in the shell calls it  *)
(* yet.                                                                    *)
(*                                                                         *)
(* A character is <<line, position>>; what fills a line up is Pad.         *)
(***************************************************************************)
EXTENDS Naturals, Sequences, SequencesExt

CONSTANTS
  Align,    \* 16, the alignment of the arena
  BlockSize, \* SHELL_COMMAND_LINE_BUF_SIZE, the capacity of its blocks
  LineLens, \* how long a line may be, its "\n" included
  MaxLines  \* bound

ASSUME LinesAssumption ==
  /\ Align \in Nat \ {0} /\ BlockSize \in Nat /\ BlockSize % Align = 0
  /\ LineLens \subseteq 1 .. BlockSize

VARIABLES
  hd,     \* "start", "read"; "done", "null" for a nullptr, "stuck" in the
          \* arena's lock, "crash" on a null pointer, "overrun" for undefined
  blocks, \* what each block of the arena holds; none without an arena
  total,  \* total_size
  lines,  \* history: the lines that were read and saved
  locked, \* the lock of the arena is kept
  flat,   \* what is copied to the buffer
  result  \* and what is returned, up to its null, if it has room

heredocVars == <<hd, blocks, total, lines, locked, flat, result>>

Pad == <<0, 0>>
LineOf(n, len) == [i \in 1 .. len |-> <<n, i>>]
Padding(len) == [i \in 1 .. ((Align - (len % Align)) % Align) |-> Pad]

(* Slip: a line that does not fit goes on in the next block. *)
StoredSplit(line) ==
  LET b == blocks[Len(blocks)]
      room == BlockSize - Len(b)
      cells == line \o Padding(Len(line)) IN
  IF Len(cells) <= room THEN [blocks EXCEPT ![Len(blocks)] = b \o cells]
  ELSE Append([blocks EXCEPT ![Len(blocks)] = b \o SubSeq(cells, 1, room)],
              SubSeq(cells, room + 2, Len(cells)))

Stored(line) ==
  LET b == blocks[Len(blocks)]
      cells == line \o Padding(Len(line)) IN
  IF Len(b) + Len(cells) <= BlockSize
  THEN [blocks EXCEPT ![Len(blocks)] = b \o cells]
  ELSE Append(blocks, cells)

(* sq_heredoc_init() checks one of its three allocations: what is left may *)
(* have no arena, or no delimiter, on which sq_heredoc_read_all() crashes. *)
InitHeredoc ==
  /\ hd = "start"
  /\ \/ hd' = "read" /\ blocks' \in {<< << >> >>, << >>}
     \/ hd' = "crash" /\ UNCHANGED blocks
     \/ hd' = "null" /\ UNCHANGED blocks
  /\ UNCHANGED <<total, lines, locked, flat, result>>

(* A line of sq_heredoc_read_all(): a new block that cannot be had loses   *)
(* the line and keeps the lock, for which the next line waits.             *)
ReadLine(len) ==
  /\ hd = "read" /\ blocks # << >> /\ Len(lines) < MaxLines
  /\ LET line == LineOf(Len(lines) + 1, len) IN
     IF locked THEN hd' = "stuck" /\ UNCHANGED <<blocks, total, lines, locked>>
     ELSE \/ /\ blocks' = Stored(line)
             /\ total' = total + len /\ lines' = Append(lines, line)
             /\ UNCHANGED <<hd, locked>>
          \/ /\ Len(Stored(line)) > Len(blocks)
             /\ locked' = TRUE /\ UNCHANGED <<hd, blocks, total, lines>>
  /\ UNCHANGED <<flat, result>>

(* The delimiter, or the end of stdin; what is copied may be more than the *)
(* buffer of total + 1 has room for.                                       *)
ReadDelimiter ==
  /\ hd = "read" /\ blocks # << >>
  /\ \/ hd' = "null" /\ UNCHANGED <<flat, result>>
     \/ /\ flat' = FlattenSeq(blocks)
        /\ IF Len(flat') <= total + 1
           THEN hd' = "done" /\ result' = SubSeq(flat', 1, total)
           ELSE hd' = "overrun" /\ UNCHANGED result
  /\ UNCHANGED <<blocks, total, lines, locked>>

(* Without an arena its lock or its head is that of a null pointer, unless *)
(* the buffer cannot be had before.                                        *)
NoArena ==
  /\ hd = "read" /\ blocks = << >>
  /\ hd' \in {"crash", "null"}
  /\ UNCHANGED <<blocks, total, lines, locked, flat, result>>

HeredocInit ==
  /\ hd = "start" /\ blocks = << >> /\ total = 0 /\ lines = << >>
  /\ locked = FALSE /\ flat = << >> /\ result = << >>

HeredocNext ==
  InitHeredoc \/ (\E len \in LineLens : ReadLine(len)) \/ ReadDelimiter \/ NoArena

-----------------------------------------------------------------------------
(* What is in some cells but for what fills a line up.                     *)
Unpadded(s) ==
  FlattenSeq([i \in DOMAIN s |-> IF s[i] = Pad THEN << >> ELSE <<s[i]>>])

(* What fills the lines up, in all.                                        *)
Filling == FlattenSeq([i \in DOMAIN lines |-> Padding(Len(lines[i]))])

(* Every line that was saved is copied whole and in order, with nothing    *)
(* between them but what fills a line up (redirect.c:96-101, 107-115).     *)
EveryLineIsCopied ==
  hd \in {"done", "overrun"} => Unpadded(flat) = FlattenSeq(lines)

(* The copy runs over the end of the buffer if, and only if, more than one *)
(* cell fills lines up, that of the last line counted in (redirect.c:100,  *)
(* 104, 108-113).                                                          *)
OverrunIfPadded ==
  /\ hd = "overrun" => Len(Filling) > 1
  /\ hd = "done" => Len(Filling) <= 1

(* Where it does not, what is returned is the text if every line but the   *)
(* last is as long as it is stored, and only then (redirect.c:100, 116).   *)
TextIfAligned ==
  hd = "done" =>
    (result = FlattenSeq(lines)
       <=> \A i \in 1 .. Len(lines) - 1 : Len(lines[i]) % Align = 0)

(* So a text comes back whole, and followed by its null, when its lines    *)
(* are aligned; most others are not safe to read (redirect.c:85-118).      *)
TextComesBack == EveryLineIsCopied /\ OverrunIfPadded /\ TextIfAligned
=============================================================================
