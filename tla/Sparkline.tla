----------------------------- MODULE Sparkline ------------------------------
(***************************************************************************)
(* The small charts (ui/src/components/Sparkline.tsx): the points of a     *)
(* trend line and the bars of a distribution, in hundredths of a pixel, as *)
(* they are written into the drawing.  Values are counted in hundredths.   *)
(***************************************************************************)
EXTENDS SnapshotContract, FiniteSetsExt

\* round(a / b) of pixels given in hundredths.
Rounded(a, b) == (2 * a + b) \div (2 * b)

\* An interval that was not measured is Unknown.
Measured(values) == Kept(values)
ValuesOf(values) == {values[i] : i \in DOMAIN values} \ {Unknown}

\* Mutant of TrendLine: no pixel is kept free above and below.
TrendLineFull(values, width, height) ==
    LET numeric == Measured(values)
        min == Min(ValuesOf(values))
        span == IF Cardinality(ValuesOf(values)) < 2 THEN 1 ELSE Max(ValuesOf(values)) - min
    IN  IF Len(numeric) < 2 THEN <<>> ELSE
        [i \in DOMAIN numeric |->
            [x |-> Rounded((i - 1) * 100 * width, Len(numeric) - 1),
             y |-> 100 * height - Rounded((numeric[i] - min) * 100 * height, span)]]

TrendLine(values, width, height) ==
    LET numeric == Measured(values)
        min == Min(ValuesOf(values))
        span == IF Cardinality(ValuesOf(values)) < 2 THEN 1 ELSE Max(ValuesOf(values)) - min
    IN  IF Len(numeric) < 2 THEN <<>> ELSE
        [i \in DOMAIN numeric |->
            [x |-> Rounded((i - 1) * 100 * width, Len(numeric) - 1),
             y |-> Rounded(100 * (height - 1) * span - (numeric[i] - min) * 100 * (height - 2), span)]]

\* A slot is width / n pixels wide; a bar leaves three tenths of it free, or
\* two pixels if that is less, and is a pixel wide at least.  All lengths are
\* in hundredths of a pixel times n.
Slot(n, width) == 100 * width
BarWidth(n, width) ==
    LET gap == IF 3 * Slot(n, width) > 2000 * n THEN 200 * n ELSE (3 * Slot(n, width)) \div 10
    IN  IF Slot(n, width) - gap > 100 * n THEN Slot(n, width) - gap ELSE 100 * n

BarHeight(v, max, height) ==
    IF v * (height - 2) > max THEN [of |-> 100 * v * (height - 2), by |-> max]
    ELSE [of |-> 100, by |-> 1]

DistributionBars(values, width, height) ==
    LET n == Len(values)
        max == IF ValuesOf(values) \subseteq {0} THEN 1 ELSE Max(ValuesOf(values))
        bar == BarWidth(n, width)
        rise(v) == BarHeight(v, max, height)
    IN  [i \in {j \in 1 .. n : values[j] # Unknown} |->
            [x |-> Rounded(2 * (i - 1) * Slot(n, width) + Slot(n, width) - bar, 2 * n),
             y |-> Rounded(100 * height * rise(values[i]).by - rise(values[i]).of, rise(values[i]).by),
             width |-> Rounded(bar, n),
             height |-> Rounded(rise(values[i]).of, rise(values[i]).by)]]

\* One sample is no series.
Graphic(values, shape, width, height) ==
    LET drawn == IF Len(values) >= 2 THEN values ELSE <<>>
    IN  [shape |-> shape, width |-> width, height |-> height, values |-> drawn,
         line |-> IF shape = "line" THEN TrendLine(drawn, width, height) ELSE <<>>,
         bars |-> IF shape = "bars" THEN DistributionBars(drawn, width, height) ELSE <<>>]
=============================================================================
