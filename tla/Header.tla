------------------------------- MODULE Header -------------------------------
(***************************************************************************)
(* src/scripts/generate_headers.py: main writes, for every entry of        *)
(* MODULES, an English and a Chinese SVG header into HEADERS_DIR, each     *)
(* laid out by generate_svg.  The script may be killed at any point and    *)
(* run again; the directory may hold the headers of an older run.          *)
(* An SVG is abstracted to its layout: the icon's placement and, for each  *)
(* text, its anchor point, anchor side and character count; lengths are    *)
(* in tenths of a pixel, so that icon_scale = 0.7 and the halving in       *)
(* start_x stay exact (the Python floats are exact here too).              *)
(***************************************************************************)
EXTENDS Naturals, Sequences, TLC

CONSTANTS
  MaxRuns    \* times the script is started

ASSUME HeaderAssumption == MaxRuns \in Nat \ {0}

(* MODULES: name, the English title split in two, and the Chinese title   *)
(* parts abstracted to their character counts (two CJK characters each).  *)
(* The "ai" literal gives "parts" twice; the dict keeps the later one.     *)
(* An entry's icon markup is identified by its name.                       *)
MODULES ==
  << [name |-> "memos",     parts |-> <<"ME", "MOS">>,     zh |-> <<2, 2>>],
     [name |-> "ai",        parts |-> <<"ASSIS", "TANT">>, zh |-> <<2, 2>>],
     [name |-> "schedule",  parts |-> <<"SCHE", "DULE">>,  zh |-> <<2, 2>>],
     [name |-> "review",    parts |-> <<"RE", "VIEW">>,    zh |-> <<2, 2>>],
     [name |-> "knowledge", parts |-> <<"KNOW", "LEDGE">>, zh |-> <<2, 2>>],
     [name |-> "explore",   parts |-> <<"EX", "PLORE">>,   zh |-> <<2, 2>>],
     [name |-> "files",     parts |-> <<"RES", "OURCES">>, zh |-> <<2, 2>>],
     [name |-> "inbox",     parts |-> <<"IN", "BOX">>,     zh |-> <<2, 2>>] >>

(* The title's font size: the inline style (72px) overrides the .title    *)
(* class of STYLE (80px).                                                  *)
TitleFontPx == 72

(* Assumed advance widths of one character, in tenths of a pixel: a CJK   *)
(* glyph is one em; a Latin capital about 0.8 em, as the comment on        *)
(* char_w puts it (0.8 * 72 = 57.6).                                       *)
CJKGlyph == 10 * TitleFontPx
LatinGlyph == 8 * TitleFontPx

(* generate_svg's layout constants, in tenths of a pixel.                  *)
VIEW_W == 12000
VIEW_H == 1400
ICON_SCALE == 7                 \* icon_scale = 0.7, in tenths
ICON_W == 200 * ICON_SCALE      \* icon_w = icon_w_unscaled * icon_scale
GAP == 250
CENTER_X == VIEW_W \div 2

(* A plausible bug: the English width estimate before it was "increased   *)
(* to 60px/char", below the glyphs' real width.                            *)
char_w_low == 500

(* char_w = 60: the estimated advance of one Latin character.              *)
char_w == 600

(* generate_svg: Chinese: icon centred, Part 1 ending GAP left of it,      *)
(* Part 2 starting GAP right of it.  English: the joined title at start_x  *)
(* and the icon GAP after the estimated title width, the group centred on  *)
(* the estimate.                                                           *)
generate_svg(m, isZh) ==
  IF isZh
  THEN [w |-> VIEW_W, h |-> VIEW_H,
        icon |-> [x |-> CENTER_X - ICON_W \div 2, scale |-> ICON_SCALE,
                  art |-> m.name],
        texts |-> << [x |-> CENTER_X - ICON_W \div 2 - GAP, anchor |-> "end",
                      chars |-> m.zh[1], glyph |-> CJKGlyph],
                     [x |-> CENTER_X + ICON_W \div 2 + GAP, anchor |-> "start",
                      chars |-> m.zh[2], glyph |-> CJKGlyph] >>]
  ELSE LET fullTitle == m.parts[1] \o m.parts[2]
           titleW == Len(fullTitle) * char_w
           startX == (VIEW_W - (titleW + GAP + ICON_W)) \div 2
       IN  [w |-> VIEW_W, h |-> VIEW_H,
            icon |-> [x |-> startX + titleW + GAP, scale |-> ICON_SCALE,
                      art |-> m.name],
            texts |-> << [x |-> startX, anchor |-> "start",
                          chars |-> Len(fullTitle), glyph |-> LatinGlyph] >>]

(* The file names main builds for an entry.                                *)
FileName(m, isZh) ==
  IF isZh THEN "header-" \o m.name \o "-zh.svg" ELSE "header-" \o m.name \o ".svg"

FileNames == {FileName(MODULES[i], z) : i \in 1..Len(MODULES), z \in BOOLEAN}

(* The number of characters of an entry's joined English title.           *)
TitleChars(m) == Len(m.parts[1] \o m.parts[2])

(* Every title of MODULES fits its header: the estimated English width,    *)
(* the gap and the icon fit the viewBox, and each Chinese part fits the    *)
(* half of the viewBox beside the icon.  The provers cannot compute string *)
(* lengths, so this fact about the literal table is evaluated by TLC.      *)
ASSUME TitlesFit ==
  \A k \in 1..Len(MODULES) :
    /\ TitleChars(MODULES[k]) \in Nat
    /\ TitleChars(MODULES[k]) * char_w + GAP + ICON_W <= VIEW_W
    /\ \A p \in 1..2 : /\ MODULES[k].zh[p] \in Nat
                      /\ MODULES[k].zh[p] * CJKGlyph + GAP + ICON_W \div 2
                           <= CENTER_X

(* main gives the two headers of every entry names of their own; like      *)
(* TitlesFit, this fact about the literal names is evaluated by TLC.       *)
ASSUME FileNamesDistinct ==
  \A j, k \in 1..Len(MODULES), y, z \in BOOLEAN :
    FileName(MODULES[j], y) = FileName(MODULES[k], z) => j = k /\ y = z

(* The content of a header written by an older version of the script.     *)
Stale == [stale |-> TRUE]

VARIABLES
  dirExists, \* os.path.exists(HEADERS_DIR)
  files,     \* the files of HEADERS_DIR: name -> the writes it holds
  pc,        \* "idle", "loop", "open_en", "write_en", "open_zh",
             \* "write_zh", "done", "killed"
  i,         \* index of the MODULES entry the loop is at
  runs       \* runs started

vars == <<dirExists, files, pc, i, runs>>

(* A fresh checkout, an empty HEADERS_DIR, or one with stale headers.      *)
Init ==
  /\ \/ dirExists = FALSE /\ files = <<>>
     \/ dirExists = TRUE /\ files = <<>>
     \/ dirExists = TRUE /\ files = [n \in FileNames |-> <<Stale>>]
  /\ pc = "idle" /\ i = 0 /\ runs = 0

(* main: create HEADERS_DIR unless it exists, then start the loop.         *)
main ==
  /\ pc \in {"idle", "done", "killed"} /\ runs < MaxRuns
  /\ dirExists' = TRUE
  /\ pc' = "loop" /\ i' = 1 /\ runs' = runs + 1
  /\ UNCHANGED files

(* `for module in MODULES`: the next entry, or the end of main.            *)
main_loop ==
  /\ pc = "loop"
  /\ IF i > Len(MODULES) THEN pc' = "done" ELSE pc' = "open_en"
  /\ UNCHANGED <<dirExists, files, i, runs>>

(* A plausible bug: the file opened in append mode, not truncated.        *)
OpenForWriteAppend(name) ==
  files' = [n \in DOMAIN files \cup {name} |->
              IF n \in DOMAIN files THEN files[n] ELSE <<>>]

(* open(filepath, 'w'): create the file or truncate it.                    *)
OpenForWrite(name) ==
  files' = [n \in DOMAIN files \cup {name} |-> IF n = name THEN <<>> ELSE files[n]]

(* f.write(content), then the with block closes the file.                  *)
Write(name, svg) == files' = [files EXCEPT ![name] = Append(@, svg)]

open_en ==
  /\ pc = "open_en" /\ OpenForWrite(FileName(MODULES[i], FALSE))
  /\ pc' = "write_en" /\ UNCHANGED <<dirExists, i, runs>>

write_en ==
  /\ pc = "write_en"
  /\ Write(FileName(MODULES[i], FALSE), generate_svg(MODULES[i], FALSE))
  /\ pc' = "open_zh" /\ UNCHANGED <<dirExists, i, runs>>

open_zh ==
  /\ pc = "open_zh" /\ OpenForWrite(FileName(MODULES[i], TRUE))
  /\ pc' = "write_zh" /\ UNCHANGED <<dirExists, i, runs>>

write_zh ==
  /\ pc = "write_zh"
  /\ Write(FileName(MODULES[i], TRUE), generate_svg(MODULES[i], TRUE))
  /\ pc' = "loop" /\ i' = i + 1 /\ UNCHANGED <<dirExists, runs>>

(* The run ends early: interrupted, or a write fails.                      *)
kill ==
  /\ pc \in {"loop", "open_en", "write_en", "open_zh", "write_zh"}
  /\ pc' = "killed"
  /\ UNCHANGED <<dirExists, files, i, runs>>

Next ==
  \/ main \/ main_loop \/ open_en \/ write_en \/ open_zh \/ write_zh \/ kill

Spec == Init /\ [][Next]_vars
-----------------------------------------------------------------------------
TypeOK ==
  /\ dirExists \in BOOLEAN
  /\ DOMAIN files \subseteq FileNames
  /\ pc \in {"idle", "loop", "open_en", "write_en", "open_zh", "write_zh",
             "done", "killed"}
  /\ i \in 0..(Len(MODULES) + 1) /\ runs \in 0..MaxRuns

(* The horizontal extent [lo, hi] of a text, from its anchor side.         *)
TextSpan(t) ==
  IF t.anchor = "start" THEN <<t.x, t.x + t.chars * t.glyph>>
  ELSE <<t.x - t.chars * t.glyph, t.x>>

Disjoint(s, u) == s[2] <= u[1] \/ u[2] <= s[1]

(* A header's layout is sound: the icon (200 units at its scale) and every *)
(* title text lie inside the viewBox, and no text overlaps the icon or     *)
(* another text, given the glyph widths above.                             *)
LayoutSound(svg) ==
  LET iconSpan == <<svg.icon.x, svg.icon.x + 200 * svg.icon.scale>>
      spans == {TextSpan(svg.texts[k]) : k \in DOMAIN svg.texts}
  IN  /\ 200 * svg.icon.scale <= svg.h
      /\ \A s \in spans \cup {iconSpan} : 0 <= s[1] /\ s[2] <= svg.w
      /\ \A s \in spans : Disjoint(s, iconSpan)
      /\ \A j, k \in DOMAIN svg.texts :
           j # k => Disjoint(TextSpan(svg.texts[j]), TextSpan(svg.texts[k]))

(* Every header the script has written is laid out soundly, in both      *)
(* languages: the English estimate of 60 px per character must cover the  *)
(* real glyphs for the icon to clear the title.                            *)
HeaderLayoutSound ==
  \A n \in DOMAIN files : \A k \in DOMAIN files[n] :
    files[n][k] # Stale => LayoutSound(files[n][k])

(* Whatever runs were killed before, once a run of main completes every    *)
(* entry's two header files hold exactly one write, the layout             *)
(* generate_svg gives it now: no stale or truncated file, and no file      *)
(* written over by another entry's header.                                 *)
HeadersAfterRun ==
  pc = "done" =>
    \A k \in 1..Len(MODULES), z \in BOOLEAN :
      files[FileName(MODULES[k], z)] = <<generate_svg(MODULES[k], z)>>
=============================================================================
