------------------------------- MODULE Filters -------------------------------
(***************************************************************************)
(* The digital filters of upkie/utils/filters.py and the clamps of         *)
(* upkie/utils/clamp.py, on a lattice of integers.                         *)
(*                                                                         *)
(* Derivatives are given per sampling period, and the cutoff period of a   *)
(* filter as a number of sampling periods.  The output of a low-pass       *)
(* filter is a real number between its last output and its input; on the   *)
(* lattice it is either of the two points around it.                       *)
(***************************************************************************)
EXTENDS Integers

clamp(value, lower, upper) ==
    IF value < lower THEN lower ELSE IF value > upper THEN upper ELSE value

clamp_abs(value, bound) == clamp(value, -bound, bound)

\* The warning is the only difference with clamp.
Warns(value, lower, upper) == value < lower \/ value > upper

bounded_derivative_filter(prev_output, new_input, output_bounds, derivative_bounds) ==
    LET derivative == clamp(new_input - prev_output,
                            derivative_bounds[1], derivative_bounds[2])
    IN  clamp(prev_output + derivative, output_bounds[1], output_bounds[2])

abs_bounded_derivative_filter(prev_output, new_input, max_output, max_derivative) ==
    bounded_derivative_filter(prev_output, new_input,
                              <<-max_output, max_output>>,
                              <<-max_derivative, max_derivative>>)

Lowest(a, b) == IF a < b THEN a ELSE b
Highest(a, b) == IF a < b THEN b ELSE a
Distance(a, b) == Highest(a, b) - Lowest(a, b)

\* The assertion of the filter, on alpha = dt / cutoff_period.
Nyquist(cutoff_period) == 2 < cutoff_period

low_pass_filter(prev_output, cutoff_period, new_input) ==
    {output \in Lowest(prev_output, new_input) .. Highest(prev_output, new_input) :
        Distance(cutoff_period * (output - prev_output), new_input - prev_output)
            < cutoff_period}

=============================================================================
