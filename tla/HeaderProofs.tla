---------------------------- MODULE HeaderProofs ----------------------------
(***************************************************************************)
(* Proofs that every header generate_headers.py writes is laid out         *)
(* soundly (HeaderLayoutSound), and that a completed run leaves every      *)
(* header holding exactly its current layout whatever killed runs left     *)
(* before (HeadersAfterRun), for every number of runs.                     *)
(***************************************************************************)
EXTENDS Header, TLAPS

N == Len(MODULES)

(* The header of entry k in language z, and its file.                      *)
Svg(k, z) == generate_svg(MODULES[k], z)
File(k, z) == FileName(MODULES[k], z)

(* What the script writes: a current layout, or an older run's content.    *)
Written == {Svg(k, z) : k \in 1..N, z \in BOOLEAN} \cup {Stale}

(* Entry k's two headers hold exactly their current layout.                *)
Complete(k) ==
  \A z \in BOOLEAN : File(k, z) \in DOMAIN files /\ files[File(k, z)] = <<Svg(k, z)>>

(* The inductive invariant, in four groups: the types, including that     *)
(* every write is a current layout or stale (HTyp); the loop index at each *)
(* step (HIdx); a run at entry i has completed the entries before it       *)
(* (HDone); and inside entry i, the file being written holds what the      *)
(* steps so far put there (HCur).                                          *)
HTyp ==
  /\ pc \in {"idle", "loop", "open_en", "write_en", "open_zh", "write_zh",
             "done", "killed"}
  /\ DOMAIN files \subseteq FileNames
  /\ \A n \in DOMAIN files : files[n] \in Seq(Written)

HIdx ==
  /\ pc = "loop" => i \in 1..N + 1
  /\ pc \in {"open_en", "write_en", "open_zh", "write_zh"} => i \in 1..N
  /\ pc = "done" => i = N + 1

HDone ==
  pc \in {"loop", "open_en", "write_en", "open_zh", "write_zh", "done"} =>
    \A k \in 1..i - 1 : Complete(k)

HCur ==
  /\ pc = "write_en" =>
       File(i, FALSE) \in DOMAIN files /\ files[File(i, FALSE)] = <<>>
  /\ pc \in {"open_zh", "write_zh"} =>
       File(i, FALSE) \in DOMAIN files /\ files[File(i, FALSE)] = <<Svg(i, FALSE)>>
  /\ pc = "write_zh" =>
       File(i, TRUE) \in DOMAIN files /\ files[File(i, TRUE)] = <<>>

HInv == HTyp /\ HIdx /\ HDone /\ HCur
-----------------------------------------------------------------------------
(* generate_svg's English layout is sound for every title whose estimated  *)
(* width fits: the 60 px estimate covers the 57.6 px glyphs, so the icon   *)
(* placed after the estimate clears the text, and centring the group keeps *)
(* both inside the viewBox.                                                *)
LEMMA EnglishLayoutSound ==
  ASSUME NEW m, TitleChars(m) \in Nat,
         TitleChars(m) * char_w + GAP + ICON_W <= VIEW_W
  PROVE  LayoutSound(generate_svg(m, FALSE))
  <1> DEFINE n == TitleChars(m)
             x == (VIEW_W - (n * char_w + GAP + ICON_W)) \div 2
             t == [x |-> x, anchor |-> "start", chars |-> n, glyph |-> LatinGlyph]
             ic == [x |-> x + n * char_w + GAP, scale |-> ICON_SCALE, art |-> m.name]
  <1>1. generate_svg(m, FALSE) = [w |-> VIEW_W, h |-> VIEW_H, icon |-> ic, texts |-> <<t>>]
    BY DEF generate_svg, TitleChars
  <1>2. x \in Nat /\ x + n * char_w + GAP + ICON_W <= VIEW_W
    BY DEF char_w, GAP, ICON_W, ICON_SCALE, VIEW_W
  <1>3. TextSpan(t) = <<x, x + n * LatinGlyph>>
    BY DEF TextSpan
  <1>4. n * LatinGlyph <= n * char_w
    BY DEF LatinGlyph, TitleFontPx, char_w
  <1>5. {TextSpan(<<t>>[k]) : k \in DOMAIN <<t>>} = {<<x, x + n * LatinGlyph>>}
    BY <1>3
  <1> DEFINE iconSpan == <<ic.x, ic.x + 200 * ic.scale>>
             spans == {<<x, x + n * LatinGlyph>>}
  <1>6. 200 * ICON_SCALE <= VIEW_H
    BY DEF ICON_SCALE, VIEW_H
  <1>7. /\ 0 <= x /\ x + n * LatinGlyph <= VIEW_W
        /\ 0 <= ic.x /\ ic.x + 200 * ic.scale <= VIEW_W
        /\ x + n * LatinGlyph <= ic.x
    <2>1. LatinGlyph = 576 /\ char_w = 600 /\ GAP = 250 /\ ICON_W = 1400
          /\ VIEW_W = 12000 /\ ICON_SCALE = 7
      BY DEF LatinGlyph, TitleFontPx, char_w, GAP, ICON_W, ICON_SCALE, VIEW_W
    <2>2. ic.x = x + n * 600 + 250 /\ ic.scale = 7
      BY <2>1
    <2>3. x \in Nat /\ x + n * 600 + 1650 <= 12000 /\ n \in Nat
      BY <1>2, <2>1
    <2>4. QED
      BY <2>1, <2>2, <2>3
  <1>8. \A s \in spans \cup {iconSpan} : 0 <= s[1] /\ s[2] <= VIEW_W
    BY <1>7
  <1>9. \A s \in spans : Disjoint(s, iconSpan)
    BY <1>7 DEF Disjoint
  <1>10. \A j, k \in DOMAIN <<t>> : j # k => Disjoint(TextSpan(<<t>>[j]), TextSpan(<<t>>[k]))
    OBVIOUS
  <1>11. LayoutSound([w |-> VIEW_W, h |-> VIEW_H, icon |-> ic, texts |-> <<t>>])
    BY <1>5, <1>6, <1>8, <1>9, <1>10 DEF LayoutSound
  <1>12. QED
    BY <1>1, <1>11

(* generate_svg's Chinese layout is sound whenever each part fits the half *)
(* of the viewBox beside the centred icon: Part 1 ends GAP left of the     *)
(* icon and Part 2 starts GAP right of it, so neither crosses it or the    *)
(* other part.                                                             *)
LEMMA ChineseLayoutSound ==
  ASSUME NEW m, \A p \in 1..2 : /\ m.zh[p] \in Nat
                                /\ m.zh[p] * CJKGlyph + GAP + ICON_W \div 2
                                     <= CENTER_X
  PROVE  LayoutSound(generate_svg(m, TRUE))
  <1> DEFINE c1 == m.zh[1]
             c2 == m.zh[2]
             t1 == [x |-> 5050, anchor |-> "end", chars |-> c1, glyph |-> CJKGlyph]
             t2 == [x |-> 6950, anchor |-> "start", chars |-> c2, glyph |-> CJKGlyph]
             ic == [x |-> 5300, scale |-> 7, art |-> m.name]
             sp1 == <<5050 - c1 * 720, 5050>>
             sp2 == <<6950, 6950 + c2 * 720>>
  <1>1. CJKGlyph = 720 /\ GAP = 250 /\ ICON_W = 1400 /\ CENTER_X = 6000
        /\ ICON_SCALE = 7 /\ VIEW_W = 12000 /\ VIEW_H = 1400
    BY DEF CJKGlyph, TitleFontPx, GAP, ICON_W, ICON_SCALE, CENTER_X, VIEW_W,
       VIEW_H
  <1>2. /\ c1 \in Nat /\ c1 * 720 + 950 <= 6000
        /\ c2 \in Nat /\ c2 * 720 + 950 <= 6000
    <2>1. 1 \in 1..2 /\ 2 \in 1..2
      OBVIOUS
    <2>2. QED
      BY <1>1, <2>1
  <1>4. TextSpan(t1) = sp1 /\ TextSpan(t2) = sp2
    BY <1>1 DEF TextSpan
  <1>5. {TextSpan(<<t1, t2>>[k]) : k \in DOMAIN <<t1, t2>>} = {sp1, sp2}
    BY <1>4
  <1>6. /\ 0 <= sp1[1] /\ sp1[2] <= 5300
        /\ 6700 <= sp2[1] /\ sp2[2] <= 12000
    BY <1>2
  <1>7. \A j, k \in DOMAIN <<t1, t2>> :
          j # k => Disjoint(TextSpan(<<t1, t2>>[j]), TextSpan(<<t1, t2>>[k]))
    BY <1>4, <1>6 DEF Disjoint
  <1> DEFINE iconSpan == <<ic.x, ic.x + 200 * ic.scale>>
  <1>8. \A s \in {sp1, sp2} \cup {iconSpan} : 0 <= s[1] /\ s[2] <= 12000
    BY <1>6
  <1>9. \A s \in {sp1, sp2} : Disjoint(s, iconSpan)
    BY <1>6 DEF Disjoint
  <1> DEFINE svg == [w |-> 12000, h |-> 1400, icon |-> ic, texts |-> <<t1, t2>>]
  <1>10. LayoutSound(svg)
    <2>1. 200 * svg.icon.scale <= svg.h
      OBVIOUS
    <2>2. <<svg.icon.x, svg.icon.x + 200 * svg.icon.scale>> = iconSpan
      OBVIOUS
    <2>3. {TextSpan(svg.texts[k]) : k \in DOMAIN svg.texts} = {sp1, sp2}
      BY <1>5
    <2>4. \A j, k \in DOMAIN svg.texts :
            j # k => Disjoint(TextSpan(svg.texts[j]), TextSpan(svg.texts[k]))
      BY <1>7
    <2> DEFINE spans == {TextSpan(svg.texts[k]) : k \in DOMAIN svg.texts}
               isp == <<svg.icon.x, svg.icon.x + 200 * svg.icon.scale>>
    <2>5. \A s \in spans \cup {isp} : 0 <= s[1] /\ s[2] <= svg.w
      BY <1>8, <2>2, <2>3
    <2>6. \A s \in spans : Disjoint(s, isp)
      BY <1>9, <2>2, <2>3
    <2>7. QED
      BY <2>1, <2>4, <2>5, <2>6 DEF LayoutSound
  <1>11. QED
    BY <1>1, <1>10 DEF generate_svg

(* MODULES has eight entries.                                              *)
LEMMA NVal == N = 8
  BY DEF N, MODULES

(* Every header generate_svg lays out for an entry of MODULES is sound,    *)
(* since every title fits (TitlesFit).                                     *)
LEMMA WrittenSound ==
  \A w \in Written : w # Stale => LayoutSound(w)
  <1> SUFFICES ASSUME NEW k \in 1..N, NEW z \in BOOLEAN
               PROVE  LayoutSound(Svg(k, z))
    BY DEF Written
  <1>1. /\ TitleChars(MODULES[k]) \in Nat
        /\ TitleChars(MODULES[k]) * char_w + GAP + ICON_W <= VIEW_W
        /\ \A p \in 1..2 : /\ MODULES[k].zh[p] \in Nat
                           /\ MODULES[k].zh[p] * CJKGlyph + GAP + ICON_W \div 2
                                <= CENTER_X
    BY TitlesFit DEF N
  <1>2. CASE z = FALSE
    <2>1. LayoutSound(generate_svg(MODULES[k], FALSE))
      BY <1>1, EnglishLayoutSound
    <2>2. QED
      BY <1>2, <2>1 DEF Svg
  <1>3. CASE z = TRUE
    <2>1. LayoutSound(generate_svg(MODULES[k], TRUE))
      BY <1>1, ChineseLayoutSound
    <2>2. QED
      BY <1>3, <2>1 DEF Svg
  <1>4. QED
    BY <1>2, <1>3

(* The two header files of an entry are files of HEADERS_DIR.              *)
LEMMA FileInNames ==
  ASSUME NEW k \in 1..N, NEW z \in BOOLEAN
  PROVE  File(k, z) \in FileNames
  BY DEF File, FileNames, N

(* Headers of different entries, or of different languages, are different  *)
(* files.                                                                  *)
LEMMA FileDistinct ==
  ASSUME NEW j \in 1..N, NEW k \in 1..N, NEW y \in BOOLEAN, NEW z \in BOOLEAN,
         j # k \/ y # z
  PROVE  File(j, y) # File(k, z)
  BY FileNamesDistinct DEF File, N


(* open(File(k, z), 'w') at entry k leaves the headers of every other      *)
(* entry and language as they were, and the file empty.                    *)
LEMMA OpenKeeps ==
  ASSUME HTyp, NEW k \in 1..N, NEW z \in BOOLEAN, OpenForWrite(File(k, z))
  PROVE  /\ DOMAIN files' = DOMAIN files \cup {File(k, z)}
         /\ files'[File(k, z)] = <<>>
         /\ \A j \in 1..N, y \in BOOLEAN :
              (j # k \/ y # z) /\ File(j, y) \in DOMAIN files =>
                files'[File(j, y)] = files[File(j, y)]
         /\ HTyp!2' /\ HTyp!3'
  <1>1. \A j \in 1..N, y \in BOOLEAN : (j # k \/ y # z) => File(j, y) # File(k, z)
    BY FileDistinct
  <1>2. File(k, z) \in FileNames
    BY FileInNames
  <1>3. <<>> \in Seq(Written)
    OBVIOUS
  <1>4. QED
    BY <1>1, <1>2, <1>3 DEF OpenForWrite, HTyp

(* f.write(svg) to File(k, z) appends to that file only.                  *)
LEMMA WriteKeeps ==
  ASSUME HTyp, NEW k \in 1..N, NEW z \in BOOLEAN, File(k, z) \in DOMAIN files,
         Write(File(k, z), Svg(k, z))
  PROVE  /\ DOMAIN files' = DOMAIN files
         /\ files'[File(k, z)] = Append(files[File(k, z)], Svg(k, z))
         /\ \A j \in 1..N, y \in BOOLEAN :
              (j # k \/ y # z) => files'[File(j, y)] = files[File(j, y)]
         /\ HTyp!2' /\ HTyp!3'
  <1>1. \A j \in 1..N, y \in BOOLEAN : (j # k \/ y # z) => File(j, y) # File(k, z)
    BY FileDistinct
  <1>2. Svg(k, z) \in Written
    BY DEF Written
  <1>3. files[File(k, z)] \in Seq(Written)
    BY DEF HTyp
  <1>4. Append(files[File(k, z)], Svg(k, z)) \in Seq(Written)
    BY <1>2, <1>3
  <1>5. QED
    BY <1>1, <1>4 DEF Write, HTyp

LEMMA InitHInv == Init => HInv
  <1> SUFFICES ASSUME Init PROVE HInv
    OBVIOUS
  <1>1. <<Stale>> \in Seq(Written)
    BY DEF Written
  <1>2. HTyp!2 /\ HTyp!3
    <2>1. CASE files = <<>>
      BY <2>1
    <2>2. CASE files = [n \in FileNames |-> <<Stale>>]
      BY <1>1, <2>2
    <2>3. QED
      BY <2>1, <2>2 DEF Init
  <1>3. QED
    BY <1>2 DEF Init, HInv, HTyp, HIdx, HDone, HCur

LEMMA NextHInv == HInv /\ [Next]_vars => HInv'
  <1> SUFFICES ASSUME HInv, [Next]_vars PROVE HInv'
    OBVIOUS
  <1> USE NVal DEF HInv
  <1>1. CASE main
    BY <1>1 DEF main, HTyp, HIdx, HDone, HCur, Complete
  <1>2. CASE main_loop
    <2>1. pc = "loop" /\ i \in 1..N + 1 /\ UNCHANGED <<files, i>>
      BY <1>2 DEF main_loop, HIdx
    <2>2. CASE i > N
      <3>1. pc' = "done" /\ i = N + 1
        BY <1>2, <2>1, <2>2 DEF main_loop, N
      <3>2. QED
        BY <2>1, <3>1 DEF HTyp, HIdx, HDone, HCur, Complete
    <2>3. CASE ~(i > N)
      <3>1. pc' = "open_en" /\ i \in 1..N
        BY <1>2, <2>1, <2>3 DEF main_loop, N
      <3>2. QED
        BY <2>1, <3>1 DEF HTyp, HIdx, HDone, HCur, Complete
    <2>4. QED
      BY <2>2, <2>3
  <1>3. CASE open_en
    <2>1. pc = "open_en" /\ i \in 1..N /\ OpenForWrite(File(i, FALSE))
          /\ pc' = "write_en" /\ i' = i
      BY <1>3 DEF open_en, HIdx, File
    <2>0. /\ DOMAIN files' = DOMAIN files \cup {File(i, FALSE)}
          /\ files'[File(i, FALSE)] = <<>>
          /\ \A j \in 1..N, y \in BOOLEAN :
               (j # i \/ y # FALSE) /\ File(j, y) \in DOMAIN files =>
                 files'[File(j, y)] = files[File(j, y)]
          /\ HTyp!2' /\ HTyp!3'
      BY <2>1, OpenKeeps
    <2>2. HTyp' /\ HIdx'
      BY <2>0, <2>1 DEF HTyp, HIdx
    <2>3. HDone'
      <3>1. SUFFICES ASSUME NEW k \in 1..i - 1 PROVE Complete(k)'
        BY <2>1 DEF HDone
      <3>2. k \in 1..N /\ k # i
        BY <2>1
      <3>3. Complete(k)
        BY <2>1 DEF HDone
      <3>4. QED
        BY <2>0, <3>2, <3>3 DEF Complete
    <2>4. HCur'
      BY <2>0, <2>1 DEF HCur
    <2>5. QED
      BY <2>2, <2>3, <2>4
  <1>4. CASE write_en
    <2>1. pc = "write_en" /\ i \in 1..N /\ Write(File(i, FALSE), Svg(i, FALSE))
          /\ pc' = "open_zh" /\ i' = i
      BY <1>4 DEF write_en, HIdx, File, Svg
    <2>2. File(i, FALSE) \in DOMAIN files /\ files[File(i, FALSE)] = <<>>
      BY <2>1 DEF HCur
    <2>0. /\ DOMAIN files' = DOMAIN files
          /\ files'[File(i, FALSE)] = Append(files[File(i, FALSE)], Svg(i, FALSE))
          /\ \A j \in 1..N, y \in BOOLEAN :
               (j # i \/ y # FALSE) => files'[File(j, y)] = files[File(j, y)]
          /\ HTyp!2' /\ HTyp!3'
      BY <2>1, <2>2, WriteKeeps
    <2>3. files'[File(i, FALSE)] = <<Svg(i, FALSE)>>
      BY <2>0, <2>2
    <2>4. HTyp' /\ HIdx'
      BY <2>0, <2>1 DEF HTyp, HIdx
    <2>5. HDone'
      <3>1. SUFFICES ASSUME NEW k \in 1..i - 1 PROVE Complete(k)'
        BY <2>1 DEF HDone
      <3>2. k \in 1..N /\ k # i
        BY <2>1
      <3>3. Complete(k)
        BY <2>1 DEF HDone
      <3>4. QED
        BY <2>0, <3>2, <3>3 DEF Complete
    <2>6. HCur'
      BY <2>0, <2>1, <2>2, <2>3 DEF HCur
    <2>7. QED
      BY <2>4, <2>5, <2>6
  <1>5. CASE open_zh
    <2>1. pc = "open_zh" /\ i \in 1..N /\ OpenForWrite(File(i, TRUE))
          /\ pc' = "write_zh" /\ i' = i
      BY <1>5 DEF open_zh, HIdx, File
    <2>0. /\ DOMAIN files' = DOMAIN files \cup {File(i, TRUE)}
          /\ files'[File(i, TRUE)] = <<>>
          /\ \A j \in 1..N, y \in BOOLEAN :
               (j # i \/ y # TRUE) /\ File(j, y) \in DOMAIN files =>
                 files'[File(j, y)] = files[File(j, y)]
          /\ HTyp!2' /\ HTyp!3'
      BY <2>1, OpenKeeps
    <2>2. HTyp' /\ HIdx'
      BY <2>0, <2>1 DEF HTyp, HIdx
    <2>3. HDone'
      <3>1. SUFFICES ASSUME NEW k \in 1..i - 1 PROVE Complete(k)'
        BY <2>1 DEF HDone
      <3>2. k \in 1..N /\ k # i
        BY <2>1
      <3>3. Complete(k)
        BY <2>1 DEF HDone
      <3>4. QED
        BY <2>0, <3>2, <3>3 DEF Complete
    <2>4. File(i, FALSE) \in DOMAIN files /\ files[File(i, FALSE)] = <<Svg(i, FALSE)>>
      BY <2>1 DEF HCur
    <2>5. files'[File(i, FALSE)] = <<Svg(i, FALSE)>>
      BY <2>0, <2>1, <2>4
    <2>6. HCur'
      BY <2>0, <2>1, <2>4, <2>5 DEF HCur
    <2>7. QED
      BY <2>2, <2>3, <2>6
  <1>6. CASE write_zh
    <2>1. pc = "write_zh" /\ i \in 1..N /\ Write(File(i, TRUE), Svg(i, TRUE))
          /\ pc' = "loop" /\ i' = i + 1
      BY <1>6 DEF write_zh, HIdx, File, Svg
    <2>2. /\ File(i, TRUE) \in DOMAIN files /\ files[File(i, TRUE)] = <<>>
          /\ File(i, FALSE) \in DOMAIN files
          /\ files[File(i, FALSE)] = <<Svg(i, FALSE)>>
      BY <2>1 DEF HCur
    <2>0. /\ DOMAIN files' = DOMAIN files
          /\ files'[File(i, TRUE)] = Append(files[File(i, TRUE)], Svg(i, TRUE))
          /\ \A j \in 1..N, y \in BOOLEAN :
               (j # i \/ y # TRUE) => files'[File(j, y)] = files[File(j, y)]
          /\ HTyp!2' /\ HTyp!3'
      BY <2>1, <2>2, WriteKeeps
    <2>3. files'[File(i, TRUE)] = <<Svg(i, TRUE)>>
          /\ files'[File(i, FALSE)] = <<Svg(i, FALSE)>>
      <3>1. files'[File(i, TRUE)] = <<Svg(i, TRUE)>>
        BY <2>0, <2>2
      <3>2. files'[File(i, FALSE)] = files[File(i, FALSE)]
        <4>1. FALSE \in BOOLEAN /\ FALSE # TRUE
          OBVIOUS
        <4>2. QED
          BY <2>0, <2>1, <4>1
      <3>3. QED
        BY <2>2, <3>1, <3>2
    <2>4. HTyp' /\ HIdx'
      BY <2>0, <2>1 DEF HTyp, HIdx
    <2>5. \A z \in BOOLEAN : File(i, z) \in DOMAIN files'
                             /\ files'[File(i, z)] = <<Svg(i, z)>>
      <3>1. SUFFICES ASSUME NEW z \in BOOLEAN
                     PROVE  File(i, z) \in DOMAIN files'
                            /\ files'[File(i, z)] = <<Svg(i, z)>>
        OBVIOUS
      <3>2. z = TRUE \/ z = FALSE
        OBVIOUS
      <3>3. QED
        BY <2>0, <2>2, <2>3, <3>2
    <2>6. ASSUME NEW k \in 1..i - 1 PROVE Complete(k)'
      <3>1. k \in 1..N /\ k # i
        BY <2>1
      <3>2. Complete(k)
        BY <2>1 DEF HDone
      <3>3. QED
        BY <2>0, <3>1, <3>2 DEF Complete
    <2>7. HDone'
      <3>1. SUFFICES ASSUME NEW k \in 1..i' - 1 PROVE Complete(k)'
        BY <2>1 DEF HDone
      <3>2. k \in 1..i - 1 \/ k = i
        BY <2>1
      <3>3. CASE k = i
        BY <2>5, <3>3 DEF Complete
      <3>4. CASE k \in 1..i - 1
        BY <2>6, <3>4
      <3>5. QED
        BY <3>2, <3>3, <3>4
    <2>8. HCur'
      BY <2>1 DEF HCur
    <2>9. QED
      BY <2>4, <2>7, <2>8
  <1>7. CASE kill
    BY <1>7 DEF kill, HTyp, HIdx, HDone, HCur, Complete
  <1>8. CASE UNCHANGED vars
    BY <1>8 DEF vars, HTyp, HIdx, HDone, HCur, Complete
  <1>9. QED
    BY <1>1, <1>2, <1>3, <1>4, <1>5, <1>6, <1>7, <1>8 DEF Next

(* For every number of runs, every header the script has written, in      *)
(* either language, has its icon and texts inside the viewBox and none of  *)
(* them overlap: generate_svg's layout is sound for every title of         *)
(* MODULES, and nothing else is ever written.                              *)
THEOREM LayoutSafe == Spec => []HeaderLayoutSound
  <1>1. HInv => HeaderLayoutSound
    <2> SUFFICES ASSUME HInv, NEW n \in DOMAIN files, NEW k \in DOMAIN files[n],
                        files[n][k] # Stale
                 PROVE  LayoutSound(files[n][k])
      BY DEF HeaderLayoutSound
    <2>1. files[n][k] \in Written
      BY DEF HInv, HTyp
    <2>2. QED
      BY <2>1, WrittenSound
  <1>2. QED
    BY <1>1, InitHInv, NextHInv, PTL DEF Spec

(* For every number of runs, once a run of main completes, every entry's   *)
(* two headers hold exactly one write, the layout generate_svg gives it    *)
(* now, whatever killed runs and stale headers were there before.          *)
THEOREM HeadersFresh == Spec => []HeadersAfterRun
  <1>1. HInv => HeadersAfterRun
    <2> SUFFICES ASSUME HInv, pc = "done", NEW k \in 1..Len(MODULES),
                        NEW z \in BOOLEAN
                 PROVE  files[FileName(MODULES[k], z)] = <<generate_svg(MODULES[k], z)>>
      BY DEF HeadersAfterRun
    <2>1. Complete(k)
      BY NVal DEF HInv, HIdx, HDone, N
    <2>2. QED
      BY <2>1 DEF Complete, File, Svg
  <1>2. QED
    BY <1>1, InitHInv, NextHInv, PTL DEF Spec
=============================================================================
