----------------------------- MODULE WindowTexts -----------------------------
(* What the window computes without looking at anything else: the text of the    *)
(* prompt (format_update_details), the version of the VC++ runtime               *)
(* (HasInstalled_VC_redistx64) and the places of what it holds (repostionUI).    *)
(* In a text "tag" stands for the letters after the "#" of a known heading, and  *)
(* "nul" for the character that ends it.                                         *)
EXTENDS Integers, Sequences, SequencesExt

CONSTANTS
    ui_min_width,       \* ui_padding, ui_basic_height and the others below are
    NonClient           \* written out; what the frame adds around its client area

ui_padding == 10
ui_basic_height == 40
ScaleDPI(v, dpi) == (v * dpi + 48) \div 96             \* MulDiv rounds to the nearest

-----------------------------------------------------------------------------
(* format_update_details.                                                        *)

Letters == {"a", "cr", "lf", "#", "tag", "-", " "}
Break == <<"cr", "lf">>

(* ConvertToUtf16WS: the terminator stays in the string, as its last character.  *)
Converted(details) == Append(details, "nul")

Has(p, i, w) == i + Len(w) - 1 <= Len(p) /\ SubSeq(p, i, i + Len(w) - 1) = w

(* A pass reads a text from left to right: what is at i becomes put[i], and the  *)
(* pass goes on at on[i].                                                        *)
Passed(p, put, on) ==
    LET from[i \in Nat] == IF i \in DOMAIN p THEN put[i] \o from[on[i]] ELSE <<>> IN from[1]

Each(p) == [i \in DOMAIN p |-> i + 1]

LinesAsGiven(p) ==                                        \* Mutant: a line end of one character stays
    Passed(p, [i \in DOMAIN p |-> IF p[i] = "lf" THEN Break ELSE <<p[i]>>], Each(p))

Lines(p) ==
    Passed(p, [i \in DOMAIN p |-> IF p[i] \in {"cr", "lf"} THEN Break ELSE <<p[i]>>],
              [i \in DOMAIN p |-> IF p[i] = "cr" /\ Has(p, i + 1, <<"lf">>) THEN i + 2 ELSE i + 1])

TagAt(p, i) == Has(p, i, <<"#", "tag">>)

Headings(p) ==
    Passed(p, [i \in DOMAIN p |-> IF TagAt(p, i) THEN <<"heading">> ELSE <<p[i]>>],
              [i \in DOMAIN p |-> IF TagAt(p, i) THEN i + 2 ELSE i + 1])

Unmarked(p) == Passed(p, [i \in DOMAIN p |-> IF p[i] = "#" THEN <<>> ELSE <<p[i]>>], Each(p))

AtLineStart(p, i) == i = 1 \/ (i > 2 /\ Has(p, i - 2, Break))
BulletAt(p, i) == Has(p, i, <<"-", " ">>) /\ AtLineStart(p, i)

Bullets(p) ==
    Passed(p, [i \in DOMAIN p |-> IF BulletAt(p, i) THEN <<"bullet">> ELSE <<p[i]>>],
              [i \in DOMAIN p |-> IF BulletAt(p, i) THEN i + 2 ELSE i + 1])

Width(c) == CASE c = "tag" -> 8 [] c = "heading" -> 14 [] c = "bullet" -> 6 [] OTHER -> 1
Characters(p) == FoldLeft(LAMBDA n, c : n + Width(c), 0, p)

(* substr(size() - 4) of a text of one to three characters throws; the terminator *)
(* is one of them, and keeps the text from ever ending in a line end.            *)
Throws(p) == p # <<>> /\ Characters(p) < 4
Ended(p) == IF IsSuffix(Break \o Break, p) THEN p ELSE p \o Break \o Break

Marked(details) == Bullets(Unmarked(Headings(Lines(Converted(details)))))
FormatFails(details) == Throws(Marked(details))
FormatUpdateDetails(details) == Ended(Marked(details))

(* SetWindowTextW takes what comes before the first terminator.                  *)
Wcslen(p) == CHOOSE n \in 0..Len(p) : (\A i \in 1..n : p[i] # "nul") /\ (n < Len(p) => p[n + 1] = "nul")
UpToNul(p) == SubSeq(p, 1, Wcslen(p))

-----------------------------------------------------------------------------
(* HasInstalled_VC_redistx64: the parts of a version, as numbers.                *)

MinorFirst(v) ==                                          \* Mutant: a newer major does not decide alone
    /\ Len(v) >= 3 /\ v[1] >= 14 /\ v[2] >= 50
    /\ v[2] > 50 \/ v[3] >= 35719

HasInstalled(v) ==
    /\ Len(v) >= 3 /\ v[1] >= 14
    /\ \/ v[1] > 14
       \/ v[2] >= 50 /\ (v[2] > 50 \/ v[3] >= 35719)

-----------------------------------------------------------------------------
(* repostionUI. From label, panel ([h, w], h = 0 if none is up), whether the     *)
(* progress bar and buttons are up, the DPI and the height of the work area.     *)

Least(dpi) == ScaleDPI(120, dpi)

PanelCut(h, over, dpi) == IF h - over < Least(dpi) THEN Least(dpi) ELSE h - over

ButtonsStay(top, delta) == top                            \* Mutant: the buttons stay where they were
ButtonsTop(top, delta) == top - delta

Layout(in) ==
    LET pad     == ScaleDPI(ui_padding, in.dpi)
        basic   == ScaleDPI(ui_basic_height, in.dpi)
        least   == ScaleDPI(ui_min_width, in.dpi)
        mainW   == IF in.label.w < least THEN least ELSE in.label.w
        head    == pad + in.label.h + pad
        hasPanel == in.panel.h > 0
        panelH  == IF 4 * in.panel.w > 3 * mainW THEN in.panel.h + 5 * pad ELSE in.panel.h
        below   == IF hasPanel THEN head + panelH + pad ELSE head
        buttons == IF in.progress THEN below + basic + pad ELSE below
        frameH  == buttons + basic + (IF in.buttons THEN pad ELSE 0) + NonClient
        most    == (in.work * 85) \div 100
        cut     == IF hasPanel /\ frameH > most THEN PanelCut(panelH, frameH - most, in.dpi) ELSE panelH
        delta   == IF hasPanel THEN panelH - cut ELSE 0
        y       == (in.work - (frameH - delta)) \div 2
    IN  [labelEnd |-> pad + in.label.h, panelTop |-> head, panelH |-> IF hasPanel THEN cut ELSE 0,
         progressTop |-> below - delta, buttonsTop |-> ButtonsTop(buttons, delta), basic |-> basic,
         frameH |-> frameH - delta, most |-> most, y |-> IF y < 0 THEN 0 ELSE y]
=============================================================================
