----------------------------- MODULE WhereProofs ----------------------------
(***************************************************************************)
(* The WHERE language, from the tables of the parser to the freed query.   *)
(***************************************************************************)
EXTENDS WhereQuery, Listings

-----------------------------------------------------------------------------
(* The symbol by which a state is entered, and the states it is entered    *)
(* from, for states 1 to 77.                                               *)
entered ==
  <<15, 21, 21, 36, 2, 15, 1, 37, 15, 15, 21, 21, 9, 35, 35, 41, 35, 38, 10, 12, 42, 40, 28, 17, 15, 32, 17,
    15, 31, 17, 15, 30, 17, 15, 29, 42, 40, 27, 17, 15, 26, 17, 15, 25, 23, 22, 35, 16, 38, 38, 16, 39, 14,
    13, 16, 16, 16, 16, 16, 16, 16, 16, 24, 11, 40, 20, 19, 18, 13, 17, 38, 4, 6, 8, 7, 5, 3>>

Opening == {0, 5, 6, 7}
Valued == {1, 2, 3, 4}
Timed == Valued \cup {9, 10}

beneath ==
  <<{13}, {18}, {16}, {8}, {14, 15, 17}, Opening, {14, 15}, Opening, {23}, {38}, {22}, {37}, {8}, {6}, {0}, {1},
    {7}, {1}, {8}, {8}, {11}, {9}, Timed, {25}, {26}, {11, 12}, {28}, {29}, {11, 12}, {31}, {32}, {11, 12},
    {34}, {35}, {11, 12}, {12}, {10}, Timed, {40}, {41}, Timed, {43}, {44}, Timed, Opening, Opening, {5}, {14},
    {2}, {3}, {16}, {13}, {19}, {20}, {21}, {24}, {27}, {30}, {33}, {36}, {39}, {42}, Timed, Timed, Valued,
    Valued, Valued, Valued, Valued, Valued, {4}, {8}, {8}, {8}, {8}, {8}, {8}>>

IsAction(a, s, x) ==
    /\ a \in 0..113
    /\ a < 78 => a \in 1..77 /\ entered[a] = x /\ s \in beneath[a]
    /\ a = 78 => s = 15
    /\ a \in 79..112 => (s = 17 /\ a = 90) \/ (s >= 45 /\ a = yy_default[s + 1])

(* yy_find_shift_action: every entry is a shift to a state that the symbol *)
(* enters from here, a rule that the state reduces by, the acceptance in   *)
(* state 15, or an error.                                                  *)
LEMMA ShiftTable ==
    ASSUME NEW s \in 0..77, NEW x \in 0..32
    PROVE  IsAction(FindShiftAction(s, x), s, x)
BY SMTT(90) DEF IsAction, FindShiftAction, Listed, yy_action, yy_lookahead, YY_SHIFT_USE_DFLT, YY_SHIFT_COUNT, yy_shift_ofst,
       yy_default, entered, beneath, Opening, Valued, Timed

-----------------------------------------------------------------------------
(* The right-hand sides of rules 1 to 34. *)
rightSides ==
  <<<<3>>, <<5>>, <<7>>, <<8>>, <<6>>, <<4>>, <<37, 36, 38>>, <<37, 12, 13>>, <<37, 10, 14>>, <<37, 9, 39>>,
    <<15, 35, 16>>, <<35, 1, 35>>, <<35, 2, 35>>, <<17>>, <<13>>, <<18>>, <<19>>, <<20>>, <<40>>,
    <<15, 41, 16>>, <<38, 21, 38>>, <<41, 21, 38>>, <<22>>, <<23>>, <<11>>, <<24>>, <<25, 15, 17, 16>>,
    <<26, 15, 17, 16>>, <<27, 15, 40, 21, 42, 16>>, <<28, 15, 40, 21, 42, 16>>, <<29, 15, 17, 16>>,
    <<30, 15, 17, 16>>, <<31, 15, 17, 16>>, <<32, 15, 17, 16>>>>

(* The states of the stack lead from one to the next. *)
Linked(s) ==
    /\ Len(s) >= 1 => s[1].stateno = 0
    /\ \A i \in 2..Len(s) : /\ s[i].stateno \in 1..77
                            /\ s[i].major = entered[s[i].stateno]
                            /\ s[i - 1].stateno \in beneath[s[i].stateno]

(* A state that reduces by a rule. *)
Reduces(t, rule) == (t = 17 /\ rule = 12) \/ (t \in 45..77 /\ rule = yy_default[t + 1] - YYNSTATE)

(* The state under a right-hand side leads on by the left-hand side. *)
Leads(s, x) == /\ s <= YY_REDUCE_COUNT /\ Listed(yy_reduce_ofst[s + 1], x)
               /\ FindReduceAction(s, x) \in 1..77
               /\ entered[FindReduceAction(s, x)] = x
               /\ s \in beneath[FindReduceAction(s, x)]

Sized(t, rule) ==
    /\ rule \in 1..34
    /\ nrhs[rule + 1] = 1 <=> t \in {45, 46} \cup 63..70 \cup 72..77
    /\ nrhs[rule + 1] = 3 <=> t \in {17} \cup 47..54 \cup {71}
    /\ nrhs[rule + 1] = 4 <=> t \in 56..59 \cup {61, 62}
    /\ nrhs[rule + 1] = 6 <=> t \in {55, 60}

(* What a state reduces by, by the length of the right-hand side.          *)
LEMMA RuleSizes ==
    ASSUME NEW t \in 1..77, NEW rule, Reduces(t, rule)
    PROVE  Sized(t, rule)
BY DEF Sized, Reduces, nrhs, yy_default, YYNSTATE

(* yy_find_reduce_action: the goto table lists what the states need that a *)
(* left-hand side can appear on.                                           *)
LEMMA GotoTable ==
    /\ \A s \in Opening : Leads(s, 35) /\ Leads(s, 37)
    /\ \A s \in Valued : Leads(s, 38)
    /\ \A s \in Timed : Leads(s, 40)
    /\ \A s \in {11, 12} : Leads(s, 42)
    /\ Leads(8, 36) /\ Leads(13, 39) /\ Leads(1, 41)
BY SMTT(90) DEF Leads, FindReduceAction, Listed, yy_action, yy_lookahead, yy_reduce_ofst, YY_REDUCE_COUNT, entered, beneath, Opening, Valued, Timed

(* The rules of a property, whose state is under it.                       *)
LEMMA PropertyRules ==
    ASSUME NEW t0 \in {45, 46}, NEW rule, Reduces(t0, rule),
           NEW t1 \in beneath[t0]
    PROVE  /\ lhs[rule + 1] = 37 /\ t1 \in Opening
           /\ entered[t0] = rightSides[rule][1]
<1>45. CASE t0 = 45
  <2>1. rule = 24
    BY <1>45 DEF Reduces, yy_default, YYNSTATE
  <2> QED BY <2>1, <1>45 DEF nrhs, lhs, rightSides, entered, beneath, Opening, Valued, Timed
<1>46. CASE t0 = 46
  <2>1. rule = 23
    BY <1>46 DEF Reduces, yy_default, YYNSTATE
  <2> QED BY <2>1, <1>46 DEF nrhs, lhs, rightSides, entered, beneath, Opening, Valued, Timed
<1> QED BY <1>45, <1>46

(* The rules of a time without an argument.                                *)
LEMMA TimeRules ==
    ASSUME NEW t0 \in {63, 64}, NEW rule, Reduces(t0, rule),
           NEW t1 \in beneath[t0]
    PROVE  /\ lhs[rule + 1] = 40 /\ t1 \in Timed
           /\ entered[t0] = rightSides[rule][1]
<1>63. CASE t0 = 63
  <2>1. rule = 26
    BY <1>63 DEF Reduces, yy_default, YYNSTATE
  <2> QED BY <2>1, <1>63 DEF nrhs, lhs, rightSides, entered, beneath, Opening, Valued, Timed
<1>64. CASE t0 = 64
  <2>1. rule = 25
    BY <1>64 DEF Reduces, yy_default, YYNSTATE
  <2> QED BY <2>1, <1>64 DEF nrhs, lhs, rightSides, entered, beneath, Opening, Valued, Timed
<1> QED BY <1>63, <1>64

(* The rules of a literal.                                                 *)
LEMMA ValueRules ==
    ASSUME NEW t0 \in 65..70, NEW rule, Reduces(t0, rule),
           NEW t1 \in beneath[t0]
    PROVE  /\ lhs[rule + 1] = 38 /\ t1 \in Valued
           /\ entered[t0] = rightSides[rule][1]
<1>65. CASE t0 = 65
  <2>1. rule = 19
    BY <1>65 DEF Reduces, yy_default, YYNSTATE
  <2> QED BY <2>1, <1>65 DEF nrhs, lhs, rightSides, entered, beneath, Opening, Valued, Timed
<1>66. CASE t0 = 66
  <2>1. rule = 18
    BY <1>66 DEF Reduces, yy_default, YYNSTATE
  <2> QED BY <2>1, <1>66 DEF nrhs, lhs, rightSides, entered, beneath, Opening, Valued, Timed
<1>67. CASE t0 = 67
  <2>1. rule = 17
    BY <1>67 DEF Reduces, yy_default, YYNSTATE
  <2> QED BY <2>1, <1>67 DEF nrhs, lhs, rightSides, entered, beneath, Opening, Valued, Timed
<1>68. CASE t0 = 68
  <2>1. rule = 16
    BY <1>68 DEF Reduces, yy_default, YYNSTATE
  <2> QED BY <2>1, <1>68 DEF nrhs, lhs, rightSides, entered, beneath, Opening, Valued, Timed
<1>69. CASE t0 = 69
  <2>1. rule = 15
    BY <1>69 DEF Reduces, yy_default, YYNSTATE
  <2> QED BY <2>1, <1>69 DEF nrhs, lhs, rightSides, entered, beneath, Opening, Valued, Timed
<1>70. CASE t0 = 70
  <2>1. rule = 14
    BY <1>70 DEF Reduces, yy_default, YYNSTATE
  <2> QED BY <2>1, <1>70 DEF nrhs, lhs, rightSides, entered, beneath, Opening, Valued, Timed
<1> QED BY <1>65, <1>66, <1>67, <1>68, <1>69, <1>70

(* The rules of a comparison operator.                                     *)
LEMMA OperatorRules ==
    ASSUME NEW t0 \in 72..77, NEW rule, Reduces(t0, rule),
           NEW t1 \in beneath[t0]
    PROVE  /\ lhs[rule + 1] = 36 /\ t1 \in {8}
           /\ entered[t0] = rightSides[rule][1]
<1>72. CASE t0 = 72
  <2>1. rule = 6
    BY <1>72 DEF Reduces, yy_default, YYNSTATE
  <2> QED BY <2>1, <1>72 DEF nrhs, lhs, rightSides, entered, beneath, Opening, Valued, Timed
<1>73. CASE t0 = 73
  <2>1. rule = 5
    BY <1>73 DEF Reduces, yy_default, YYNSTATE
  <2> QED BY <2>1, <1>73 DEF nrhs, lhs, rightSides, entered, beneath, Opening, Valued, Timed
<1>74. CASE t0 = 74
  <2>1. rule = 4
    BY <1>74 DEF Reduces, yy_default, YYNSTATE
  <2> QED BY <2>1, <1>74 DEF nrhs, lhs, rightSides, entered, beneath, Opening, Valued, Timed
<1>75. CASE t0 = 75
  <2>1. rule = 3
    BY <1>75 DEF Reduces, yy_default, YYNSTATE
  <2> QED BY <2>1, <1>75 DEF nrhs, lhs, rightSides, entered, beneath, Opening, Valued, Timed
<1>76. CASE t0 = 76
  <2>1. rule = 2
    BY <1>76 DEF Reduces, yy_default, YYNSTATE
  <2> QED BY <2>1, <1>76 DEF nrhs, lhs, rightSides, entered, beneath, Opening, Valued, Timed
<1>77. CASE t0 = 77
  <2>1. rule = 1
    BY <1>77 DEF Reduces, yy_default, YYNSTATE
  <2> QED BY <2>1, <1>77 DEF nrhs, lhs, rightSides, entered, beneath, Opening, Valued, Timed
<1> QED BY <1>72, <1>73, <1>74, <1>75, <1>76, <1>77

(* The rules of a predicate.                                               *)
LEMMA ConditionRules ==
    ASSUME NEW t0 \in {48, 52, 53, 54, 71}, NEW rule, Reduces(t0, rule),
           NEW t1 \in beneath[t0], NEW t2 \in beneath[t1], NEW t3 \in beneath[t2]
    PROVE  /\ lhs[rule + 1] = 35 /\ t3 \in Opening
           /\ t1 \in 1..77 /\ t2 \in 1..77
           /\ entered[t0] = rightSides[rule][3] /\ entered[t1] = rightSides[rule][2] /\ entered[t2] = rightSides[rule][1]
<1>48. CASE t0 = 48
  <2>1. rule = 11
    BY <1>48 DEF Reduces, yy_default, YYNSTATE
  <2>2. t1 = 14 /\ t2 = 6
    BY <1>48 DEF beneath, Opening, Valued, Timed
  <2> QED BY <2>1, <2>2, <1>48 DEF nrhs, lhs, rightSides, entered, beneath, Opening, Valued, Timed
<1>52. CASE t0 = 52
  <2>1. rule = 10
    BY <1>52 DEF Reduces, yy_default, YYNSTATE
  <2>2. t1 = 13 /\ t2 = 8
    BY <1>52 DEF beneath, Opening, Valued, Timed
  <2> QED BY <2>1, <2>2, <1>52 DEF nrhs, lhs, rightSides, entered, beneath, Opening, Valued, Timed
<1>53. CASE t0 = 53
  <2>1. rule = 9
    BY <1>53 DEF Reduces, yy_default, YYNSTATE
  <2>2. t1 = 19 /\ t2 = 8
    BY <1>53 DEF beneath, Opening, Valued, Timed
  <2> QED BY <2>1, <2>2, <1>53 DEF nrhs, lhs, rightSides, entered, beneath, Opening, Valued, Timed
<1>54. CASE t0 = 54
  <2>1. rule = 8
    BY <1>54 DEF Reduces, yy_default, YYNSTATE
  <2>2. t1 = 20 /\ t2 = 8
    BY <1>54 DEF beneath, Opening, Valued, Timed
  <2> QED BY <2>1, <2>2, <1>54 DEF nrhs, lhs, rightSides, entered, beneath, Opening, Valued, Timed
<1>71. CASE t0 = 71
  <2>1. rule = 7
    BY <1>71 DEF Reduces, yy_default, YYNSTATE
  <2>2. t1 = 4 /\ t2 = 8
    BY <1>71 DEF beneath, Opening, Valued, Timed
  <2> QED BY <2>1, <2>2, <1>71 DEF nrhs, lhs, rightSides, entered, beneath, Opening, Valued, Timed
<1> QED BY <1>48, <1>52, <1>53, <1>54, <1>71

(* The rules that join or enclose conditions.                              *)
LEMMA LogicRules ==
    ASSUME NEW t0 \in {17, 47}, NEW rule, Reduces(t0, rule),
           NEW t1 \in beneath[t0], NEW t2 \in beneath[t1], NEW t3 \in beneath[t2]
    PROVE  /\ lhs[rule + 1] = 35 /\ t3 \in Opening
           /\ t1 \in 1..77 /\ t2 \in 1..77
           /\ entered[t0] = rightSides[rule][3] /\ entered[t1] = rightSides[rule][2] /\ entered[t2] = rightSides[rule][1]
<1>17. CASE t0 = 17
  <2>1. rule = 12
    BY <1>17 DEF Reduces, yy_default, YYNSTATE
  <2>2. t1 = 7 /\ t2 \in {14, 15}
    BY <1>17 DEF beneath, Opening, Valued, Timed
  <2> QED BY <2>1, <2>2, <1>17 DEF nrhs, lhs, rightSides, entered, beneath, Opening, Valued, Timed
<1>47. CASE t0 = 47
  <2>1. rule = 13
    BY <1>47 DEF Reduces, yy_default, YYNSTATE
  <2>2. t1 = 5 /\ t2 \in {14, 15, 17}
    BY <1>47 DEF beneath, Opening, Valued, Timed
  <2> QED BY <2>1, <2>2, <1>47 DEF nrhs, lhs, rightSides, entered, beneath, Opening, Valued, Timed
<1> QED BY <1>17, <1>47

(* The rule of a list in parentheses.                                      *)
LEMMA ListRules ==
    ASSUME NEW t0 \in {51}, NEW rule, Reduces(t0, rule),
           NEW t1 \in beneath[t0], NEW t2 \in beneath[t1], NEW t3 \in beneath[t2]
    PROVE  /\ lhs[rule + 1] = 39 /\ t3 \in {13}
           /\ t1 \in 1..77 /\ t2 \in 1..77
           /\ entered[t0] = rightSides[rule][3] /\ entered[t1] = rightSides[rule][2] /\ entered[t2] = rightSides[rule][1]
<1>51. CASE t0 = 51
  <2>1. rule = 20
    BY <1>51 DEF Reduces, yy_default, YYNSTATE
  <2>2. t1 = 16 /\ t2 = 1
    BY <1>51 DEF beneath, Opening, Valued, Timed
  <2> QED BY <2>1, <2>2, <1>51 DEF nrhs, lhs, rightSides, entered, beneath, Opening, Valued, Timed
<1> QED BY <1>51

(* The rules of what stands in a list.                                     *)
LEMMA ValuesRules ==
    ASSUME NEW t0 \in {49, 50}, NEW rule, Reduces(t0, rule),
           NEW t1 \in beneath[t0], NEW t2 \in beneath[t1], NEW t3 \in beneath[t2]
    PROVE  /\ lhs[rule + 1] = 41 /\ t3 \in {1}
           /\ t1 \in 1..77 /\ t2 \in 1..77
           /\ entered[t0] = rightSides[rule][3] /\ entered[t1] = rightSides[rule][2] /\ entered[t2] = rightSides[rule][1]
<1>49. CASE t0 = 49
  <2>1. rule = 21
    BY <1>49 DEF Reduces, yy_default, YYNSTATE
  <2>2. t1 = 2 /\ t2 = 18
    BY <1>49 DEF beneath, Opening, Valued, Timed
  <2> QED BY <2>1, <2>2, <1>49 DEF nrhs, lhs, rightSides, entered, beneath, Opening, Valued, Timed
<1>50. CASE t0 = 50
  <2>1. rule = 22
    BY <1>50 DEF Reduces, yy_default, YYNSTATE
  <2>2. t1 = 3 /\ t2 = 16
    BY <1>50 DEF beneath, Opening, Valued, Timed
  <2> QED BY <2>1, <2>2, <1>50 DEF nrhs, lhs, rightSides, entered, beneath, Opening, Valued, Timed
<1> QED BY <1>49, <1>50

(* The rules of a duration.                                                *)
LEMMA UnitRules ==
    ASSUME NEW t0 \in 56..59, NEW rule, Reduces(t0, rule),
           NEW t1 \in beneath[t0], NEW t2 \in beneath[t1], NEW t3 \in beneath[t2], NEW t4 \in beneath[t3]
    PROVE  /\ lhs[rule + 1] = 42 /\ t4 \in {11, 12}
           /\ t1 \in 1..77 /\ t2 \in 1..77 /\ t3 \in 1..77
           /\ entered[t0] = rightSides[rule][4] /\ entered[t1] = rightSides[rule][3] /\ entered[t2] = rightSides[rule][2] /\ entered[t3] = rightSides[rule][1]
<1>56. CASE t0 = 56
  <2>1. rule = 34
    BY <1>56 DEF Reduces, yy_default, YYNSTATE
  <2>2. t1 = 24 /\ t2 = 25 /\ t3 = 26
    BY <1>56 DEF beneath, Opening, Valued, Timed
  <2> QED BY <2>1, <2>2, <1>56 DEF nrhs, lhs, rightSides, entered, beneath, Opening, Valued, Timed
<1>57. CASE t0 = 57
  <2>1. rule = 33
    BY <1>57 DEF Reduces, yy_default, YYNSTATE
  <2>2. t1 = 27 /\ t2 = 28 /\ t3 = 29
    BY <1>57 DEF beneath, Opening, Valued, Timed
  <2> QED BY <2>1, <2>2, <1>57 DEF nrhs, lhs, rightSides, entered, beneath, Opening, Valued, Timed
<1>58. CASE t0 = 58
  <2>1. rule = 32
    BY <1>58 DEF Reduces, yy_default, YYNSTATE
  <2>2. t1 = 30 /\ t2 = 31 /\ t3 = 32
    BY <1>58 DEF beneath, Opening, Valued, Timed
  <2> QED BY <2>1, <2>2, <1>58 DEF nrhs, lhs, rightSides, entered, beneath, Opening, Valued, Timed
<1>59. CASE t0 = 59
  <2>1. rule = 31
    BY <1>59 DEF Reduces, yy_default, YYNSTATE
  <2>2. t1 = 33 /\ t2 = 34 /\ t3 = 35
    BY <1>59 DEF beneath, Opening, Valued, Timed
  <2> QED BY <2>1, <2>2, <1>59 DEF nrhs, lhs, rightSides, entered, beneath, Opening, Valued, Timed
<1> QED BY <1>56, <1>57, <1>58, <1>59

(* The rules of UNIXTIME and TIME of a number.                             *)
LEMMA FunctionRules ==
    ASSUME NEW t0 \in {61, 62}, NEW rule, Reduces(t0, rule),
           NEW t1 \in beneath[t0], NEW t2 \in beneath[t1], NEW t3 \in beneath[t2], NEW t4 \in beneath[t3]
    PROVE  /\ lhs[rule + 1] = 40 /\ t4 \in Timed
           /\ t1 \in 1..77 /\ t2 \in 1..77 /\ t3 \in 1..77
           /\ entered[t0] = rightSides[rule][4] /\ entered[t1] = rightSides[rule][3] /\ entered[t2] = rightSides[rule][2] /\ entered[t3] = rightSides[rule][1]
<1>61. CASE t0 = 61
  <2>1. rule = 28
    BY <1>61 DEF Reduces, yy_default, YYNSTATE
  <2>2. t1 = 39 /\ t2 = 40 /\ t3 = 41
    BY <1>61 DEF beneath, Opening, Valued, Timed
  <2> QED BY <2>1, <2>2, <1>61 DEF nrhs, lhs, rightSides, entered, beneath, Opening, Valued, Timed
<1>62. CASE t0 = 62
  <2>1. rule = 27
    BY <1>62 DEF Reduces, yy_default, YYNSTATE
  <2>2. t1 = 42 /\ t2 = 43 /\ t3 = 44
    BY <1>62 DEF beneath, Opening, Valued, Timed
  <2> QED BY <2>1, <2>2, <1>62 DEF nrhs, lhs, rightSides, entered, beneath, Opening, Valued, Timed
<1> QED BY <1>61, <1>62

(* The rules of TIME_ADD and TIME_SUB.                                     *)
LEMMA ShiftRules ==
    ASSUME NEW t0 \in {55, 60}, NEW rule, Reduces(t0, rule),
           NEW t1 \in beneath[t0], NEW t2 \in beneath[t1], NEW t3 \in beneath[t2], NEW t4 \in beneath[t3], NEW t5 \in beneath[t4], NEW t6 \in beneath[t5]
    PROVE  /\ lhs[rule + 1] = 40 /\ t6 \in Timed
           /\ t1 \in 1..77 /\ t2 \in 1..77 /\ t3 \in 1..77 /\ t4 \in 1..77 /\ t5 \in 1..77
           /\ entered[t0] = rightSides[rule][6] /\ entered[t1] = rightSides[rule][5] /\ entered[t2] = rightSides[rule][4] /\ entered[t3] = rightSides[rule][3] /\ entered[t4] = rightSides[rule][2] /\ entered[t5] = rightSides[rule][1]
<1>55. CASE t0 = 55
  <2>1. rule = 30
    BY <1>55 DEF Reduces, yy_default, YYNSTATE
  <2>2. t1 = 21 /\ t2 = 11 /\ t3 = 22 /\ t4 = 9 /\ t5 = 23
    BY <1>55 DEF beneath, Opening, Valued, Timed
  <2> QED BY <2>1, <2>2, <1>55 DEF nrhs, lhs, rightSides, entered, beneath, Opening, Valued, Timed
<1>60. CASE t0 = 60
  <2>1. rule = 29
    BY <1>60 DEF Reduces, yy_default, YYNSTATE
  <2>2. t1 = 36 /\ t2 = 12 /\ t3 = 37 /\ t4 = 10 /\ t5 = 38
    BY <1>60 DEF beneath, Opening, Valued, Timed
  <2> QED BY <2>1, <2>2, <1>60 DEF nrhs, lhs, rightSides, entered, beneath, Opening, Valued, Timed
<1> QED BY <1>55, <1>60

(* No state that reduces three symbols or more has the start state one or  *)
(* two places down.                                                        *)
LEMMA Deep ==
    ASSUME NEW t0 \in {17} \cup 47..62 \cup {71}
    PROVE  \A t1 \in beneath[t0] : t1 \in 1..77 /\ \A t2 \in beneath[t1] : t2 \in 1..77
BY DEF beneath, Opening, Valued, Timed

(* Nor has one that reduces four symbols, three places down.               *)
LEMMA Deeper ==
    ASSUME NEW t0 \in 55..62, NEW t1 \in beneath[t0], NEW t2 \in beneath[t1], NEW t3 \in beneath[t2]
    PROVE  t3 \in 1..77
BY DEF beneath, Opening, Valued, Timed

(* Nor has one that reduces six symbols, up to five places down.           *)
LEMMA Deepest ==
    ASSUME NEW t0 \in {55, 60}, NEW t1 \in beneath[t0], NEW t2 \in beneath[t1], NEW t3 \in beneath[t2],
           NEW t4 \in beneath[t3]
    PROVE  t4 \in 1..77 /\ \A t5 \in beneath[t4] : t5 \in 1..77
BY DEF beneath, Opening, Valued, Timed

-----------------------------------------------------------------------------
IsList(s) == \E S : s \in Seq(S)

(* A rule finds its right-hand side on top of the stack, and the state     *)
(* under it leads on.                                                      *)
Handled(s, rule, n) ==
    /\ n = nrhs[rule + 1] /\ n < Len(s)
    /\ \A i \in 1..n : s[Len(s) - n + i].major = rightSides[rule][i]
    /\ Leads(s[Len(s) - n].stateno, lhs[rule + 1])

(* A state other than the first has its symbol, and under it a state it is *)
(* entered from.                                                           *)
LEMMA Under1 ==
    ASSUME NEW s, IsList(s), Linked(s), NEW i \in 1..Len(s), s[i].stateno \in 1..77
    PROVE  /\ i - 1 \in 1..Len(s)
           /\ s[i].major = entered[s[i].stateno]
           /\ s[i - 1].stateno \in beneath[s[i].stateno]
<1>1. Len(s) \in Nat
  BY DEF IsList
<1>2. s[1].stateno = 0
  BY <1>1 DEF Linked
<1>3. i # 1
  <2>1. ASSUME i = 1 PROVE FALSE
    <3>1. 0 \in 1..77
      BY <1>2, <2>1
    <3> QED BY <3>1
  <2> QED BY <2>1
<1>4. i \in 2..Len(s)
  BY <1>1, <1>3
<1> QED BY <1>1, <1>4 DEF Linked

(* What lies on the stack behind a state, as far as the states tell. *)
Top(s, n, t0, t1, t2, t3, t4, t5, t6) ==
    /\ n < Len(s) /\ t0 = s[Len(s)].stateno
    /\ t0 \in 1..77 /\ t1 \in beneath[t0] /\ t1 = s[Len(s) - 1].stateno /\ s[Len(s)].major = entered[t0]
    /\ n >= 2 => t1 \in 1..77 /\ t2 \in beneath[t1] /\ t2 = s[Len(s) - 2].stateno
                     /\ s[Len(s) - 1].major = entered[t1]
    /\ n >= 3 => t2 \in 1..77 /\ t3 \in beneath[t2] /\ t3 = s[Len(s) - 3].stateno
                     /\ s[Len(s) - 2].major = entered[t2]
    /\ n >= 4 => t3 \in 1..77 /\ t4 \in beneath[t3] /\ t4 = s[Len(s) - 4].stateno
                     /\ s[Len(s) - 3].major = entered[t3]
    /\ n >= 5 => t4 \in 1..77 /\ t5 \in beneath[t4] /\ t5 = s[Len(s) - 5].stateno
                     /\ s[Len(s) - 4].major = entered[t4]
    /\ n >= 6 => t5 \in 1..77 /\ t6 \in beneath[t5] /\ t6 = s[Len(s) - 6].stateno
                     /\ s[Len(s) - 5].major = entered[t5]

(* The states on the stack, as far down as the right-hand side that the    *)
(* top one reduces.                                                        *)
LEMMA Behind ==
    ASSUME NEW s, IsList(s), Linked(s), Len(s) >= 1, NEW t0 \in {17} \cup 45..77, t0 = s[Len(s)].stateno
    PROVE  \E t1, t2, t3, t4, t5, t6 :
              /\ Top(s, 1, t0, t1, t2, t3, t4, t5, t6)
              /\ t0 \in {17} \cup 47..62 \cup {71} => Top(s, 3, t0, t1, t2, t3, t4, t5, t6)
              /\ t0 \in 55..62 => Top(s, 4, t0, t1, t2, t3, t4, t5, t6)
              /\ t0 \in {55, 60} => Top(s, 6, t0, t1, t2, t3, t4, t5, t6)
<1>0. Len(s) \in Nat
  BY DEF IsList
<1>1. PICK t1, t2, t3, t4, t5, t6 :
        /\ t1 = s[Len(s) - 1].stateno /\ t2 = s[Len(s) - 2].stateno /\ t3 = s[Len(s) - 3].stateno
        /\ t4 = s[Len(s) - 4].stateno /\ t5 = s[Len(s) - 5].stateno /\ t6 = s[Len(s) - 6].stateno
  OBVIOUS
<1>2. ASSUME NEW k \in 0..6, k < Len(s), s[Len(s) - k].stateno \in 1..77
      PROVE  /\ k + 1 < Len(s)
             /\ s[Len(s) - k].major = entered[s[Len(s) - k].stateno]
             /\ s[Len(s) - (k + 1)].stateno \in beneath[s[Len(s) - k].stateno]
  <2>1. PICK i : i = Len(s) - k
    OBVIOUS
  <2>2. i \in 1..Len(s) /\ i - 1 = Len(s) - (k + 1)
    BY <1>0, <1>2, <2>1
  <2>3. s[i].stateno \in 1..77
    BY <1>2, <2>1
  <2>4. i - 1 \in 1..Len(s) /\ s[i].major = entered[s[i].stateno] /\ s[i - 1].stateno \in beneath[s[i].stateno]
    BY <2>2, <2>3, Under1
  <2> QED BY <1>0, <2>1, <2>2, <2>4
<1>3. t0 \in 1..77 /\ s[Len(s)] = s[Len(s) - 0] /\ 0 < Len(s)
  BY <1>0
<1>4. 1 < Len(s) /\ s[Len(s)].major = entered[t0] /\ t1 \in beneath[t0]
  BY <1>1, <1>2, <1>3
<1>5. Top(s, 1, t0, t1, t2, t3, t4, t5, t6)
  BY <1>1, <1>3, <1>4 DEF Top
<1>6. ASSUME t0 \in {17} \cup 47..62 \cup {71}
      PROVE  /\ 3 < Len(s) /\ t1 \in 1..77 /\ t2 \in beneath[t1] /\ s[Len(s) - 1].major = entered[t1]
             /\ t2 \in 1..77 /\ t3 \in beneath[t2] /\ s[Len(s) - 2].major = entered[t2]
  <2>1. t1 \in 1..77
    BY <1>4, <1>6, Deep
  <2>2. 2 < Len(s) /\ t2 \in beneath[t1] /\ s[Len(s) - 1].major = entered[t1]
    BY <1>1, <1>2, <1>4, <2>1
  <2>3. t2 \in 1..77
    BY <1>4, <1>6, <2>2, Deep
  <2>4. 3 < Len(s) /\ t3 \in beneath[t2] /\ s[Len(s) - 2].major = entered[t2]
    BY <1>1, <1>2, <2>2, <2>3
  <2> QED BY <2>1, <2>2, <2>3, <2>4
<1>7. ASSUME t0 \in {17} \cup 47..62 \cup {71} PROVE Top(s, 3, t0, t1, t2, t3, t4, t5, t6)
  BY <1>1, <1>3, <1>4, <1>6, <1>7 DEF Top
<1>8. ASSUME t0 \in 55..62
      PROVE  4 < Len(s) /\ t3 \in 1..77 /\ t4 \in beneath[t3] /\ s[Len(s) - 3].major = entered[t3]
  <2>1. t3 \in 1..77
    <3>1. t0 \in {17} \cup 47..62 \cup {71}
      BY <1>8
    <3> QED BY <1>4, <1>6, <1>8, <3>1, Deeper
  <2>2. 3 < Len(s)
    BY <1>6, <1>8
  <2> QED BY <1>1, <1>2, <2>1, <2>2
<1>9. ASSUME t0 \in 55..62 PROVE Top(s, 4, t0, t1, t2, t3, t4, t5, t6)
  BY <1>1, <1>3, <1>4, <1>6, <1>8, <1>9 DEF Top
<1>10. ASSUME t0 \in {55, 60} PROVE Top(s, 6, t0, t1, t2, t3, t4, t5, t6)
  <2>0. t0 \in 55..62 /\ t0 \in {17} \cup 47..62 \cup {71}
    BY <1>10
  <2>1. t4 \in 1..77
    BY <1>4, <1>6, <1>8, <1>10, <2>0, Deepest
  <2>2. 5 < Len(s) /\ t5 \in beneath[t4] /\ s[Len(s) - 4].major = entered[t4]
    BY <1>1, <1>2, <1>8, <2>0, <2>1
  <2>3. t5 \in 1..77
    BY <1>4, <1>6, <1>8, <1>10, <2>0, <2>2, Deepest
  <2>4. 6 < Len(s) /\ t6 \in beneath[t5] /\ s[Len(s) - 5].major = entered[t5]
    BY <1>1, <1>2, <2>2, <2>3
  <2> QED BY <1>1, <1>3, <1>4, <1>6, <1>8, <2>0, <2>1, <2>2, <2>3, <2>4 DEF Top
<1> QED BY <1>5, <1>7, <1>9, <1>10

(* A state that reduces by a rule has the rule's right-hand side on top of *)
(* the stack, above a state that leads on by its left-hand side.           *)
LEMMA Handle ==
    ASSUME NEW s, IsList(s), Linked(s), Len(s) >= 1, NEW rule, Reduces(s[Len(s)].stateno, rule)
    PROVE  \E n \in {1, 3, 4, 6} : Handled(s, rule, n)
<1>0. Len(s) \in Nat
  BY DEF IsList
<1> DEFINE t0 == s[Len(s)].stateno
<1>1. Reduces(t0, rule) /\ t0 \in {17} \cup 45..77 /\ t0 \in 1..77
  BY DEF Reduces
<1> HIDE DEF t0
<1>2. PICK t1, t2, t3, t4, t5, t6 :
              /\ Top(s, 1, t0, t1, t2, t3, t4, t5, t6)
              /\ t0 \in {17} \cup 47..62 \cup {71} => Top(s, 3, t0, t1, t2, t3, t4, t5, t6)
              /\ t0 \in 55..62 => Top(s, 4, t0, t1, t2, t3, t4, t5, t6)
              /\ t0 \in {55, 60} => Top(s, 6, t0, t1, t2, t3, t4, t5, t6)
  BY <1>1, Behind DEF t0
<1>3. /\ rule \in 1..34
      /\ nrhs[rule + 1] = 1 <=> t0 \in {45, 46} \cup 63..70 \cup 72..77
      /\ nrhs[rule + 1] = 3 <=> t0 \in {17} \cup 47..54 \cup {71}
      /\ nrhs[rule + 1] = 4 <=> t0 \in 56..59 \cup {61, 62}
      /\ nrhs[rule + 1] = 6 <=> t0 \in {55, 60}
  <2>1. Sized(t0, rule)
    BY <1>1, RuleSizes
  <2> QED BY <2>1 DEF Sized
<1>4. CASE t0 \in {45, 46} \cup 63..70 \cup 72..77
  <2>1. Top(s, 1, t0, t1, t2, t3, t4, t5, t6) /\ nrhs[rule + 1] = 1
    BY <1>2, <1>3, <1>4
  <2>2. t1 \in beneath[t0]
    BY <2>1 DEF Top
  <2>3. /\ entered[t0] = rightSides[rule][1]
        /\ Leads(t1, lhs[rule + 1])
    <3>1. CASE t0 \in {45, 46}
      BY <3>1, <1>1, <2>2, PropertyRules, GotoTable
    <3>2. CASE t0 \in {63, 64}
      BY <3>2, <1>1, <2>2, TimeRules, GotoTable
    <3>3. CASE t0 \in 65..70
      BY <3>3, <1>1, <2>2, ValueRules, GotoTable
    <3>4. CASE t0 \in 72..77
      BY <3>4, <1>1, <2>2, OperatorRules, GotoTable
    <3> QED BY <1>4, <3>1, <3>2, <3>3, <3>4
  <2>4. \A i \in 1..1 : s[Len(s) - 1 + i].major = rightSides[rule][i]
    <3>1. s[Len(s)].major = rightSides[rule][1] /\ Len(s) - 1 + 1 = Len(s)
      BY <1>0, <2>1, <2>3 DEF Top
    <3> QED BY <3>1
  <2>5. 1 < Len(s) /\ t1 = s[Len(s) - 1].stateno
    BY <2>1 DEF Top
  <2> QED BY <2>1, <2>3, <2>4, <2>5 DEF Handled
<1>5. CASE t0 \in {17} \cup 47..54 \cup {71}
  <2>1. Top(s, 3, t0, t1, t2, t3, t4, t5, t6) /\ nrhs[rule + 1] = 3
    BY <1>2, <1>3, <1>5
  <2>2. t1 \in beneath[t0] /\ t2 \in beneath[t1] /\ t3 \in beneath[t2]
    BY <2>1 DEF Top
  <2>3. /\ entered[t0] = rightSides[rule][3]
        /\ entered[t1] = rightSides[rule][2]
        /\ entered[t2] = rightSides[rule][1]
        /\ Leads(t3, lhs[rule + 1])
    <3>1. CASE t0 \in {48, 52, 53, 54, 71}
      <4>1. lhs[rule + 1] = 35 /\ t3 \in Opening /\ entered[t0] = rightSides[rule][3]
            /\ entered[t1] = rightSides[rule][2] /\ entered[t2] = rightSides[rule][1]
        BY <1>1, <2>2, <3>1, ConditionRules
      <4> QED BY <4>1, GotoTable
    <3>2. CASE t0 \in {17, 47}
      BY <3>2, <1>1, <2>2, LogicRules, GotoTable
    <3>3. CASE t0 \in {51}
      BY <3>3, <1>1, <2>2, ListRules, GotoTable
    <3>4. CASE t0 \in {49, 50}
      BY <3>4, <1>1, <2>2, ValuesRules, GotoTable
    <3> QED BY <1>5, <3>1, <3>2, <3>3, <3>4
  <2>4. \A i \in 1..3 : s[Len(s) - 3 + i].major = rightSides[rule][i]
    <3>1. /\ s[Len(s) - 3 + 3].major = rightSides[rule][3]
          /\ s[Len(s) - 3 + 2].major = rightSides[rule][2]
          /\ s[Len(s) - 3 + 1].major = rightSides[rule][1]
      <4>1. Len(s) - 3 + 3 = Len(s) /\ Len(s) - 3 + 2 = Len(s) - 1 /\ Len(s) - 3 + 1 = Len(s) - 2
        BY <1>0
      <4> QED BY <4>1, <2>1, <2>3 DEF Top
    <3>2. \A i \in 1..3 : i = 1 \/ i = 2 \/ i = 3
      OBVIOUS
    <3> QED BY <3>1, <3>2
  <2>5. 3 < Len(s) /\ t3 = s[Len(s) - 3].stateno
    BY <2>1 DEF Top
  <2> QED BY <2>1, <2>3, <2>4, <2>5 DEF Handled
<1>6. CASE t0 \in 56..59 \cup {61, 62}
  <2>1. Top(s, 4, t0, t1, t2, t3, t4, t5, t6) /\ nrhs[rule + 1] = 4
    BY <1>2, <1>3, <1>6
  <2>2. /\ t1 \in beneath[t0]
        /\ t2 \in beneath[t1]
        /\ t3 \in beneath[t2]
        /\ t4 \in beneath[t3]
    BY <2>1 DEF Top
  <2>3. /\ entered[t0] = rightSides[rule][4]
        /\ entered[t1] = rightSides[rule][3]
        /\ entered[t2] = rightSides[rule][2]
        /\ entered[t3] = rightSides[rule][1]
        /\ Leads(t4, lhs[rule + 1])
    <3>1. CASE t0 \in 56..59
      <4>1. lhs[rule + 1] = 42 /\ t4 \in {11, 12} /\ entered[t0] = rightSides[rule][4]
            /\ entered[t1] = rightSides[rule][3] /\ entered[t2] = rightSides[rule][2]
            /\ entered[t3] = rightSides[rule][1]
        BY <1>1, <2>2, <3>1, UnitRules
      <4> QED BY <4>1, GotoTable
    <3>2. CASE t0 \in {61, 62}
      <4>1. lhs[rule + 1] = 40 /\ t4 \in Timed /\ entered[t0] = rightSides[rule][4]
            /\ entered[t1] = rightSides[rule][3] /\ entered[t2] = rightSides[rule][2]
            /\ entered[t3] = rightSides[rule][1]
        BY <1>1, <2>2, <3>2, FunctionRules
      <4> QED BY <4>1, GotoTable
    <3> QED BY <1>6, <3>1, <3>2
  <2>4. \A i \in 1..4 : s[Len(s) - 4 + i].major = rightSides[rule][i]
    <3>1. /\ s[Len(s) - 4 + 4].major = rightSides[rule][4]
          /\ s[Len(s) - 4 + 3].major = rightSides[rule][3]
          /\ s[Len(s) - 4 + 2].major = rightSides[rule][2]
          /\ s[Len(s) - 4 + 1].major = rightSides[rule][1]
      <4>1. Len(s) - 4 + 4 = Len(s) /\ Len(s) - 4 + 3 = Len(s) - 1 /\ Len(s) - 4 + 2 = Len(s) - 2 /\ Len(s) - 4 + 1 = Len(s) - 3
        BY <1>0
      <4> QED BY <4>1, <2>1, <2>3 DEF Top
    <3>2. \A i \in 1..4 : i = 1 \/ i = 2 \/ i = 3 \/ i = 4
      OBVIOUS
    <3> QED BY <3>1, <3>2
  <2>5. 4 < Len(s) /\ t4 = s[Len(s) - 4].stateno
    BY <2>1 DEF Top
  <2> QED BY <2>1, <2>3, <2>4, <2>5 DEF Handled
<1>7. CASE t0 \in {55, 60}
  <2>1. Top(s, 6, t0, t1, t2, t3, t4, t5, t6) /\ nrhs[rule + 1] = 6
    BY <1>2, <1>3, <1>7
  <2>2. /\ t1 \in beneath[t0]
        /\ t2 \in beneath[t1]
        /\ t3 \in beneath[t2]
        /\ t4 \in beneath[t3]
        /\ t5 \in beneath[t4]
        /\ t6 \in beneath[t5]
    BY <2>1 DEF Top
  <2>3. /\ entered[t0] = rightSides[rule][6]
        /\ entered[t1] = rightSides[rule][5]
        /\ entered[t2] = rightSides[rule][4]
        /\ entered[t3] = rightSides[rule][3]
        /\ entered[t4] = rightSides[rule][2]
        /\ entered[t5] = rightSides[rule][1]
        /\ Leads(t6, lhs[rule + 1])
    <3>1. /\ lhs[rule + 1] = 40 /\ t6 \in Timed
          /\ entered[t0] = rightSides[rule][6] /\ entered[t1] = rightSides[rule][5]
          /\ entered[t2] = rightSides[rule][4] /\ entered[t3] = rightSides[rule][3]
          /\ entered[t4] = rightSides[rule][2] /\ entered[t5] = rightSides[rule][1]
      BY <1>1, <1>7, <2>2, ShiftRules, SMTT(60)
    <3> QED BY <3>1, GotoTable
  <2>4. \A i \in 1..6 : s[Len(s) - 6 + i].major = rightSides[rule][i]
    <3>1. /\ s[Len(s) - 6 + 6].major = rightSides[rule][6]
          /\ s[Len(s) - 6 + 5].major = rightSides[rule][5]
          /\ s[Len(s) - 6 + 4].major = rightSides[rule][4]
          /\ s[Len(s) - 6 + 3].major = rightSides[rule][3]
          /\ s[Len(s) - 6 + 2].major = rightSides[rule][2]
          /\ s[Len(s) - 6 + 1].major = rightSides[rule][1]
      <4>1. Len(s) - 6 + 6 = Len(s) /\ Len(s) - 6 + 5 = Len(s) - 1 /\ Len(s) - 6 + 4 = Len(s) - 2 /\ Len(s) - 6 + 3 = Len(s) - 3 /\ Len(s) - 6 + 2 = Len(s) - 4 /\ Len(s) - 6 + 1 = Len(s) - 5
        BY <1>0
      <4> QED BY <4>1, <2>1, <2>3 DEF Top
    <3>2. \A i \in 1..6 : i = 1 \/ i = 2 \/ i = 3 \/ i = 4 \/ i = 5 \/ i = 6
      OBVIOUS
    <3> QED BY <3>1, <3>2
  <2>5. 6 < Len(s) /\ t6 = s[Len(s) - 6].stateno
    BY <2>1 DEF Top
  <2> QED BY <2>1, <2>3, <2>4, <2>5 DEF Handled
<1> QED BY <1>1, <1>4, <1>5, <1>6, <1>7

-----------------------------------------------------------------------------
(* Trees whose nodes lie in the text: a node stands between its operands,  *)
(* and what is below it reaches from low to high, at most up to n.         *)
IsCond(tree, n) == tree[n].t = "N_COND"

Shaped(tree, low, high, max) ==
    \A n \in DOMAIN tree :
        /\ n \in Nat /\ low[n] \in Nat /\ high[n] \in Nat
        /\ low[n] <= n /\ n <= high[n] /\ high[n] <= max
        /\ IsCond(tree, n) =>
              /\ tree[n].left \in DOMAIN tree /\ tree[n].right \in DOMAIN tree
              /\ low[n] <= low[tree[n].left] /\ high[tree[n].left] < n
              /\ n < low[tree[n].right] /\ high[tree[n].right] <= high[n]

Folded(f, tree, n, base, step) ==
    IF IsCond(tree, n) THEN step[n][<<f[tree[n].left], f[tree[n].right]>>] ELSE base[n]
IsFold(f, tree, base, step) == \A n \in DOMAIN tree : f[n] = Folded(f, tree, n, base, step)

(* Induction over the nodes, with a set in the place of a predicate. *)
LEMMA FromLeaves ==
    ASSUME NEW tree, NEW low, NEW high, NEW max \in Nat, Shaped(tree, low, high, max), NEW S,
           \A n \in DOMAIN tree : (IsCond(tree, n) => tree[n].left \in S /\ tree[n].right \in S) => n \in S
    PROVE  \A n \in DOMAIN tree : n \in S
<1> SUFFICES ASSUME NEW k \in DOMAIN tree, k \notin S PROVE FALSE
  OBVIOUS
<1> DEFINE Out == {high[n] - low[n] : n \in DOMAIN tree \ S}
<1>1. PICK w \in Out : \A i \in Out : w <= i
  <2>1. Out \in SUBSET Nat
    BY DEF Shaped
  <2>2. Out # {}
    OBVIOUS
  <2> HIDE DEF Out
  <2> QED BY <2>1, <2>2, LeastOf
<1>2. PICK n \in DOMAIN tree \ S : w = high[n] - low[n]
  BY <1>1
<1>3. IsCond(tree, n)
  BY <1>2
<1>4. /\ tree[n].left \in DOMAIN tree /\ tree[n].right \in DOMAIN tree
      /\ high[tree[n].left] - low[tree[n].left] < w
      /\ high[tree[n].right] - low[tree[n].right] < w
  BY <1>2, <1>3 DEF Shaped
<1>5. tree[n].left \in S /\ tree[n].right \in S
  <2>1. ASSUME NEW c \in DOMAIN tree, high[c] - low[c] < w PROVE c \in S
    <3>1. high[c] - low[c] \in Nat /\ w \in Nat
      BY <1>2, <2>1 DEF Shaped
    <3> QED BY <1>1, <2>1, <3>1
  <2> QED BY <1>4, <2>1
<1> QED BY <1>2, <1>5

(* A function that is folded up from the leaves exists. *)
LEMMA TreeFunction ==
    ASSUME NEW tree, NEW low, NEW high, NEW max \in Nat, Shaped(tree, low, high, max),
           NEW V, NEW base \in [DOMAIN tree -> V], NEW step \in [DOMAIN tree -> [V \X V -> V]]
    PROVE  \E f \in [DOMAIN tree -> V] : IsFold(f, tree, base, step)
<1> DEFINE D == DOMAIN tree
           Wide(n) == high[n] - low[n]
           Upto(j, f) == f \in [D -> V] /\ \A n \in D : Wide(n) < j => f[n] = Folded(f, tree, n, base, step)
           S == {j \in 0..(max + 1) : \E f : Upto(j, f)}
<1>0. \A n \in D : Wide(n) \in 0..max
  BY DEF Shaped
<1>1. 0 \in S
  <2>1. Upto(0, base)
    BY <1>0
  <2> HIDE DEF Upto
  <2> QED BY <2>1
<1>2. ASSUME NEW j \in 0..(max + 1), j # max + 1, j \in S PROVE j + 1 \in S
  <2>1. PICK f : Upto(j, f)
    BY <1>2
  <2> DEFINE g == [n \in D |-> IF Wide(n) = j THEN Folded(f, tree, n, base, step) ELSE f[n]]
  <2>2. ASSUME NEW n \in D PROVE Folded(f, tree, n, base, step) \in V
    <3>1. CASE IsCond(tree, n)
      <4>1. f[tree[n].left] \in V /\ f[tree[n].right] \in V
        BY <3>1, <2>1 DEF Shaped
      <4>2. step[n] \in [V \X V -> V]
        OBVIOUS
      <4> QED BY <4>1, <4>2, <3>1 DEF Folded
    <3>2. CASE ~IsCond(tree, n)
      BY <3>2 DEF Folded
    <3> QED BY <3>1, <3>2
  <2>3. g \in [D -> V]
    BY <2>1, <2>2
  <2>4. ASSUME NEW n \in D, Wide(n) < j + 1 PROVE g[n] = Folded(g, tree, n, base, step)
    <3>1. Folded(g, tree, n, base, step) = Folded(f, tree, n, base, step)
      <4>1. CASE IsCond(tree, n)
        <5>1. /\ tree[n].left \in D /\ tree[n].right \in D
              /\ Wide(tree[n].left) # j /\ Wide(tree[n].right) # j
          BY <2>4, <4>1 DEF Shaped
        <5>2. g[tree[n].left] = f[tree[n].left] /\ g[tree[n].right] = f[tree[n].right]
          BY <5>1
        <5> HIDE DEF g
        <5> QED BY <5>2, <4>1 DEF Folded
      <4>2. CASE ~IsCond(tree, n)
        BY <4>2 DEF Folded
      <4> QED BY <4>1, <4>2
    <3>2. Wide(n) = j \/ Wide(n) < j
      <4>1. PICK w : w = Wide(n)
        OBVIOUS
      <4>2. w \in 0..max /\ w < j + 1
        BY <1>0, <2>4, <4>1
      <4>3. w = j \/ w < j
        BY <4>2
      <4> QED BY <4>1, <4>3
    <3>3. CASE Wide(n) = j
      BY <3>1, <3>3
    <3>4. CASE Wide(n) < j
      <4>1. f[n] = Folded(f, tree, n, base, step)
        BY <2>1, <3>4
      <4>2. g[n] = f[n]
        BY <3>4, <1>0
      <4> QED BY <3>1, <4>1, <4>2
    <3> QED BY <3>2, <3>3, <3>4
  <2>5. Upto(j + 1, g)
    <3> HIDE DEF g
    <3> QED BY <2>3, <2>4
  <2> HIDE DEF Upto, g
  <2> QED BY <2>5, <1>2
<1>3. max + 1 \in S
  <2>1. \A j \in 0..(max + 1) : j # max + 1 /\ j \in S => j + 1 \in S
    BY <1>2
  <2>2. max + 1 \in 0..(max + 1) /\ max + 1 \in Nat
    OBVIOUS
  <2>3. \A j \in 0..(max + 1) : j \in S
    <3> HIDE DEF S
    <3> QED BY <1>1, <2>1, <2>2, Upwards, Zenon
  <2> QED BY <2>2, <2>3
<1>4. PICK f : Upto(max + 1, f)
  BY <1>3
<1>5. IsFold(f, tree, base, step)
  BY <1>0, <1>4 DEF IsFold
<1> QED BY <1>4, <1>5

(* What is below a node. *)
LEMMA BelowIs ==
    ASSUME NEW tree, NEW low, NEW high, NEW max \in Nat, Shaped(tree, low, high, max), NEW k \in DOMAIN tree
    PROVE  Below(tree, k) = {k} \cup IF IsCond(tree, k) THEN Below(tree, tree[k].left) \cup Below(tree, tree[k].right)
                                                       ELSE {}
<1> DEFINE D == DOMAIN tree
           V == SUBSET D
           F(b) == [n \in DOMAIN tree |-> {n} \cup IF tree[n].t = "N_COND" THEN b[tree[n].left] \cup b[tree[n].right]
                                                                         ELSE {}]
           U == CHOOSE b : b = F(b)
           base == [n \in D |-> {n}]
           step == [n \in D |-> [p \in V \X V |-> {n} \cup (p[1] \cup p[2])]]
<1>1. base \in [D -> V] /\ step \in [D -> [V \X V -> V]]
  OBVIOUS
<1>2. PICK f \in [D -> V] : IsFold(f, tree, base, step)
  <2> HIDE DEF base, step, V
  <2> QED BY <1>1, TreeFunction
<1>3. f = F(f)
  <2>1. ASSUME NEW n \in D PROVE f[n] = F(f)[n]
    <3>1. CASE ~IsCond(tree, n)
      BY <1>2, <3>1 DEF Folded, IsCond, IsFold
    <3>2. CASE IsCond(tree, n)
      <4>1. <<f[tree[n].left], f[tree[n].right]>> \in V \X V
        BY <3>2 DEF Shaped
      <4>2. f[n] = step[n][<<f[tree[n].left], f[tree[n].right]>>]
        BY <1>2, <3>2 DEF Folded, IsFold
      <4>3. f[n] = {n} \cup (f[tree[n].left] \cup f[tree[n].right])
        BY <4>1, <4>2
      <4> QED BY <4>3, <3>2 DEF IsCond
    <3> QED BY <3>1, <3>2
  <2> QED BY <2>1
<1>4. U = F(U)
  <2> HIDE DEF F
  <2> QED BY <1>3
<1>5. \A n : Below(tree, n) = U[n]
  BY Zenon DEF Below
<1>6. U[k] = F(U)[k]
  BY <1>4
<1> HIDE DEF U
<1> QED BY <1>5, <1>6 DEF IsCond

(* What is below a node is of the tree and lies within its words.          *)
LEMMA BelowFacts ==
    ASSUME NEW tree, NEW low, NEW high, NEW max \in Nat, Shaped(tree, low, high, max)
    PROVE  \A k \in DOMAIN tree : /\ k \in Below(tree, k) /\ Below(tree, k) \subseteq DOMAIN tree
                                  /\ \A m \in Below(tree, k) : low[k] <= low[m] /\ high[m] <= high[k]
<1> DEFINE P(k) == /\ k \in Below(tree, k) /\ Below(tree, k) \subseteq DOMAIN tree
                   /\ \A m \in Below(tree, k) : low[k] <= low[m] /\ high[m] <= high[k]
           S == {k \in DOMAIN tree : P(k)}
<1>1. ASSUME NEW n \in DOMAIN tree, IsCond(tree, n) => tree[n].left \in S /\ tree[n].right \in S
      PROVE  n \in S
  <2>1. CASE ~IsCond(tree, n)
    <3>1. Below(tree, n) = {n}
      BY <2>1, BelowIs
    <3> QED BY <3>1 DEF Shaped
  <2>2. CASE IsCond(tree, n)
    <3> DEFINE l == tree[n].left
               r == tree[n].right
    <3>1. Below(tree, n) = {n} \cup (Below(tree, l) \cup Below(tree, r))
      BY <2>2, BelowIs
    <3>2. P(l) /\ P(r) /\ l \in DOMAIN tree /\ r \in DOMAIN tree
      BY <2>2, <1>1
    <3>3. ASSUME NEW m \in Below(tree, n) PROVE low[n] <= low[m] /\ high[m] <= high[n]
      <4>1. CASE m = n
        BY <4>1 DEF Shaped
      <4>2. CASE m \in Below(tree, l)
        <5>1. low[l] <= low[m] /\ high[m] <= high[l] /\ m \in DOMAIN tree
          BY <3>2, <4>2
        <5>2. low[n] <= low[l] /\ high[l] <= high[n]
          BY <2>2 DEF Shaped
        <5>3. /\ low[l] \in Nat /\ low[m] \in Nat /\ low[n] \in Nat
              /\ high[l] \in Nat /\ high[m] \in Nat /\ high[n] \in Nat
          BY <3>2, <5>1 DEF Shaped
        <5> QED BY <5>1, <5>2, <5>3
      <4>3. CASE m \in Below(tree, r)
        <5>1. low[r] <= low[m] /\ high[m] <= high[r] /\ m \in DOMAIN tree
          BY <3>2, <4>3
        <5>2. low[n] <= low[r] /\ high[r] <= high[n]
          BY <2>2 DEF Shaped
        <5>3. /\ low[r] \in Nat /\ low[m] \in Nat /\ low[n] \in Nat
              /\ high[r] \in Nat /\ high[m] \in Nat /\ high[n] \in Nat
          BY <3>2, <5>1 DEF Shaped
        <5> QED BY <5>1, <5>2, <5>3
      <4> QED BY <3>1, <4>1, <4>2, <4>3
    <3> HIDE DEF l, r
    <3> QED BY <3>1, <3>2, <3>3
  <2> QED BY <2>1, <2>2
<1>2. \A n \in DOMAIN tree : n \in S
  <2> HIDE DEF S
  <2> QED BY <1>1, FromLeaves
<1> QED BY <1>2

-----------------------------------------------------------------------------
(* What the symbols on the stack carry.  A symbol that stands for the      *)
(* words lo to hi of the text has its place, or its values', among them.   *)
LiteralTypes == {"T_INT64", "T_STRING", "T_DOUBLE", "T_BOOL"}

IsValue(v, lo, hi) ==
    \/ \E type \in LiteralTypes, p \in lo..hi : v = [type |-> type, at |-> p]
    \/ \E p \in lo..hi : \E shifts : v = [type |-> "T_TIME", at |-> p, shifts |-> shifts]

AreValues(vals, lo, hi) ==
    /\ IsList(vals) /\ Len(vals) >= 1 /\ Len(vals) <= hi - lo + 1
    /\ \A i \in 1..Len(vals) : IsValue(vals[i], lo, hi)

(* A ParseNode of the tree, apart from what Shaped says. *)
Operations == Comparisons \cup {"LIKE", "IN", "IS"}

IsPredicate(pn, place, lo, hi) ==
    /\ \E named \in BOOLEAN, op \in Operations : \E vals :
        /\ pn = [t |-> "N_PRED", prop |-> [named |-> named, at |-> place], op |-> op, vals |-> vals]
        /\ op = "IS" => vals = <<Null>>
        /\ op # "IS" => AreValues(vals, lo, hi)
        /\ op # "IN" => Len(vals) = 1
    /\ place < hi

IsCondition(pn) == \E left, op, right : pn = [t |-> "N_COND", left |-> left, op |-> op, right |-> right]

NodeFits(nd, n, low, high) == IsCondition(nd[n]) \/ IsPredicate(nd[n], n, low[n], high[n])

Fits(major, m, lo, hi, nd, low, high) ==
    /\ major \in 1..32 => m = [word |-> Terminals[major], at |-> hi] /\ hi \in lo..hi
    /\ major = 36 => \E word \in Comparisons : m = [word |-> word, at |-> hi]
    /\ major = 37 => (\E named \in BOOLEAN : m = [named |-> named, at |-> hi]) /\ hi \in lo..hi
    /\ major = 38 => IsValue(m, lo, hi)
    /\ major \in {39, 41} => \E vals : m = [vals |-> vals] /\ AreValues(vals, lo, hi)
    /\ major = 40 => \E base, shifts : m = [base |-> base, shifts |-> shifts] /\ base.at \in lo..hi
    /\ major = 42 => \E unit, at : m = [unit |-> unit, at |-> at]
    /\ major = 35 => \E n \in DOMAIN nd : m = [at |-> n] /\ lo <= low[n] /\ high[n] <= hi

(* The right-hand side of a rule, its symbols end to end between a[0] and a[n]. *)
SideFits(rule, rhs, a, nd, low, high) ==
    /\ \A i \in 0..nrhs[rule + 1] : a[i] \in Nat
    /\ \A i \in 1..nrhs[rule + 1] : /\ a[i - 1] <= a[i]
                                    /\ Fits(rightSides[rule][i], rhs[i], a[i - 1] + 1, a[i], nd, low, high)

(* A symbol with a value stands for a word at least.                       *)
LEMMA Occupied ==
    ASSUME NEW v, NEW lo \in Nat, NEW hi \in Nat, IsValue(v, lo, hi)
    PROVE  lo <= hi
<1>1. PICK p \in lo..hi : TRUE
  BY DEF IsValue
<1> QED BY <1>1

(* A value that lies among some words lies among more.                     *)
LEMMA Wider ==
    ASSUME NEW v, NEW lo \in Nat, NEW hi \in Nat, NEW lo2 \in Nat, NEW hi2 \in Nat, lo2 <= lo, hi <= hi2,
           IsValue(v, lo, hi)
    PROVE  IsValue(v, lo2, hi2)
<1>1. lo..hi \subseteq lo2..hi2
  OBVIOUS
<1> QED BY <1>1 DEF IsValue

(* What a time on the stack carries.                                       *)
LEMMA TimeFits ==
    ASSUME NEW m, NEW lo, NEW hi, NEW nd, NEW low, NEW high,
           \E base, shifts : m = [base |-> base, shifts |-> shifts] /\ base.at \in lo..hi
    PROVE  Fits(40, m, lo, hi, nd, low, high)
<1>1. 40 \notin 1..32 /\ 40 # 36 /\ 40 # 37 /\ 40 # 38 /\ 40 \notin {39, 41} /\ 40 # 42 /\ 40 # 35
  OBVIOUS
<1> QED BY <1>1, Zenon DEF Fits

MinorFits(rule, rhs, a, nd, low, high) ==
    Fits(lhs[rule + 1], Minor(rule, rhs), a[0] + 1, a[nrhs[rule + 1]], nd, low, high)

MakesNode == {7, 8, 9, 10, 12, 13}

(* Minor, rule by rule.                                                    *)
LEMMA Minors ==
    ASSUME NEW rhs
    PROVE  /\ Minor(1, rhs) = rhs[1] /\ Minor(2, rhs) = rhs[1] /\ Minor(3, rhs) = rhs[1]
           /\ Minor(4, rhs) = rhs[1] /\ Minor(5, rhs) = rhs[1] /\ Minor(6, rhs) = rhs[1]
           /\ Minor(7, rhs) = [at |-> rhs[1].at] /\ Minor(8, rhs) = [at |-> rhs[1].at]
           /\ Minor(9, rhs) = [at |-> rhs[1].at] /\ Minor(10, rhs) = [at |-> rhs[1].at]
           /\ Minor(11, rhs) = rhs[2] /\ Minor(20, rhs) = rhs[2]
           /\ Minor(12, rhs) = [at |-> rhs[2].at] /\ Minor(13, rhs) = [at |-> rhs[2].at]
           /\ Minor(14, rhs) = Value("T_INT64", rhs[1]) /\ Minor(15, rhs) = Value("T_STRING", rhs[1])
           /\ Minor(16, rhs) = Value("T_DOUBLE", rhs[1]) /\ Minor(17, rhs) = Value("T_BOOL", rhs[1])
           /\ Minor(18, rhs) = Value("T_BOOL", rhs[1])
           /\ Minor(19, rhs) = [type |-> "T_TIME", at |-> rhs[1].base.at, shifts |-> rhs[1].shifts]
           /\ Minor(21, rhs) = [vals |-> <<rhs[1], rhs[3]>>]
           /\ Minor(22, rhs) = [vals |-> Append(rhs[1].vals, rhs[3])]
           /\ Minor(23, rhs) = [named |-> FALSE, at |-> rhs[1].at]
           /\ Minor(24, rhs) = [named |-> TRUE, at |-> rhs[1].at]
           /\ Minor(25, rhs) = [base |-> rhs[1], shifts |-> <<>>] /\ Minor(26, rhs) = [base |-> rhs[1], shifts |-> <<>>]
           /\ Minor(27, rhs) = [base |-> rhs[3], shifts |-> <<>>] /\ Minor(28, rhs) = [base |-> rhs[3], shifts |-> <<>>]
           /\ Minor(29, rhs) = Later(rhs[3], 1, rhs[5]) /\ Minor(30, rhs) = Later(rhs[3], -1, rhs[5])
BY DEF Minor
(* NewNode, rule by rule.                                                  *)
LEMMA Nodes ==
    ASSUME NEW rhs
    PROVE  /\ NewNode(7, rhs) = Predicate(rhs[1], rhs[2].word, <<rhs[3]>>)
           /\ NewNode(8, rhs) = Predicate(rhs[1], "LIKE", <<Value("T_STRING", rhs[3])>>)
           /\ NewNode(9, rhs) = Predicate(rhs[1], "IS", <<Null>>)
           /\ NewNode(10, rhs) = Predicate(rhs[1], "IN", rhs[3].vals)
           /\ NewNode(12, rhs) = Condition(rhs[1].at, "AND", rhs[3].at)
           /\ NewNode(13, rhs) = Condition(rhs[1].at, "OR", rhs[3].at)
BY DEF NewNode


(* What a comparison operator carries.                                     *)
LEMMA OperatorMinor ==
    ASSUME NEW rule \in 1..6, NEW rhs, NEW a, NEW nd, NEW low, NEW high, SideFits(rule, rhs, a, nd, low, high)
    PROVE  MinorFits(rule, rhs, a, nd, low, high)
<1>1. nrhs[rule + 1] = 1 /\ lhs[rule + 1] = 36 /\ rightSides[rule][1] \in 3..8
  BY DEF nrhs, lhs, rightSides
<1>2. Minor(rule, rhs) = rhs[1]
  <2>1. rule = 1 \/ rule = 2 \/ rule = 3 \/ rule = 4 \/ rule = 5 \/ rule = 6
    OBVIOUS
  <2> QED BY <2>1, Minors
<1>3. rhs[1] = [word |-> Terminals[rightSides[rule][1]], at |-> a[1]]
  BY <1>1 DEF SideFits, Fits
<1>4. \A m \in 3..8 : Terminals[m] \in Comparisons
  BY DEF Terminals, Comparisons
<1>5. \E word \in Comparisons : Minor(rule, rhs) = [word |-> word, at |-> a[1]]
  BY <1>1, <1>2, <1>3, <1>4
<1> QED BY <1>1, <1>5 DEF MinorFits, Fits

(* What a literal carries.                                                 *)
LEMMA LiteralMinor ==
    ASSUME NEW rule \in 14..18, NEW rhs, NEW a, NEW nd, NEW low, NEW high, SideFits(rule, rhs, a, nd, low, high)
    PROVE  MinorFits(rule, rhs, a, nd, low, high)
<1>1. nrhs[rule + 1] = 1 /\ lhs[rule + 1] = 38 /\ rightSides[rule][1] \in 1..32
  BY DEF nrhs, lhs, rightSides
<1>2. \E type \in LiteralTypes : Minor(rule, rhs) = [type |-> type, at |-> rhs[1].at]
  <2>1. rule = 14 \/ rule = 15 \/ rule = 16 \/ rule = 17 \/ rule = 18
    OBVIOUS
  <2> QED BY <2>1, Minors DEF Value, LiteralTypes
<1>3. Fits(rightSides[rule][1], rhs[1], a[0] + 1, a[1], nd, low, high)
  BY <1>1 DEF SideFits
<1>4. rhs[1].at \in (a[0] + 1)..a[1]
  BY <1>1, <1>3 DEF Fits
<1>5. IsValue(Minor(rule, rhs), a[0] + 1, a[1])
  BY <1>2, <1>4 DEF IsValue
<1> QED BY <1>1, <1>5 DEF MinorFits, Fits

(* What a property carries.                                                *)
LEMMA PropertyMinor ==
    ASSUME NEW rule \in {23, 24}, NEW rhs, NEW a, NEW nd, NEW low, NEW high, SideFits(rule, rhs, a, nd, low, high)
    PROVE  MinorFits(rule, rhs, a, nd, low, high)
<1>1. nrhs[rule + 1] = 1 /\ lhs[rule + 1] = 37 /\ rightSides[rule][1] \in 1..32
  BY DEF nrhs, lhs, rightSides
<1>2. \E named \in BOOLEAN : Minor(rule, rhs) = [named |-> named, at |-> rhs[1].at]
  BY Minors
<1>3. Fits(rightSides[rule][1], rhs[1], a[0] + 1, a[1], nd, low, high)
  BY <1>1 DEF SideFits
<1>4. rhs[1].at = a[1] /\ a[1] \in (a[0] + 1)..a[1]
  BY <1>1, <1>3 DEF Fits
<1> QED BY <1>1, <1>2, <1>4 DEF MinorFits, Fits

(* What NOW and TODAY carry.                                               *)
LEMMA TimeMinor ==
    ASSUME NEW rule \in {25, 26}, NEW rhs, NEW a, NEW nd, NEW low, NEW high, SideFits(rule, rhs, a, nd, low, high)
    PROVE  MinorFits(rule, rhs, a, nd, low, high)
<1>1. nrhs[rule + 1] = 1 /\ lhs[rule + 1] = 40 /\ rightSides[rule][1] \in 1..32
  BY DEF nrhs, lhs, rightSides
<1>2. Minor(rule, rhs) = [base |-> rhs[1], shifts |-> <<>>]
  BY Minors
<1>3. Fits(rightSides[rule][1], rhs[1], a[0] + 1, a[1], nd, low, high)
  BY <1>1 DEF SideFits
<1>4. rhs[1].at \in (a[0] + 1)..a[1]
  BY <1>1, <1>3 DEF Fits
<1>5. \E base, shifts : Minor(rule, rhs) = [base |-> base, shifts |-> shifts] /\ base.at \in (a[0] + 1)..a[1]
  BY <1>2, <1>4
<1> QED BY <1>1, <1>5, TimeFits DEF MinorFits

(* What UNIXTIME and TIME carry.                                           *)
LEMMA FunctionMinor ==
    ASSUME NEW rule \in {27, 28}, NEW rhs, NEW a, NEW nd, NEW low, NEW high, SideFits(rule, rhs, a, nd, low, high)
    PROVE  MinorFits(rule, rhs, a, nd, low, high)
<1>1. nrhs[rule + 1] = 4 /\ lhs[rule + 1] = 40 /\ rightSides[rule][3] = 17
  BY DEF nrhs, lhs, rightSides
<1>2. Minor(rule, rhs) = [base |-> rhs[3], shifts |-> <<>>]
  BY Minors
<1>3. /\ \A i \in 0..4 : a[i] \in Nat
      /\ \A i \in 1..4 : a[i - 1] <= a[i]
      /\ Fits(17, rhs[3], a[2] + 1, a[3], nd, low, high)
  BY <1>1 DEF SideFits
<1>4. rhs[3].at = a[3] /\ a[3] \in (a[2] + 1)..a[3]
  BY <1>3 DEF Fits
<1>5. a[0] <= a[1] /\ a[1] <= a[2] /\ a[3] <= a[4] /\ a[0] \in Nat /\ a[1] \in Nat /\ a[2] \in Nat /\ a[3] \in Nat /\ a[4] \in Nat
  BY <1>3
<1>6. rhs[3].at \in (a[0] + 1)..a[4]
  <2>1. PICK p : p = rhs[3].at
    OBVIOUS
  <2>2. p = a[3] /\ a[2] + 1 <= a[3]
    BY <1>4, <1>5, <2>1
  <2>3. p \in (a[0] + 1)..a[4]
    BY <1>5, <2>2
  <2> QED BY <2>1, <2>3
<1>7. \E base, shifts : Minor(rule, rhs) = [base |-> base, shifts |-> shifts] /\ base.at \in (a[0] + 1)..a[4]
  BY <1>2, <1>6
<1> QED BY <1>1, <1>7, TimeFits DEF MinorFits

(* What TIME_ADD and TIME_SUB carry.                                       *)
LEMMA ShiftedMinor ==
    ASSUME NEW rule \in {29, 30}, NEW rhs, NEW a, NEW nd, NEW low, NEW high, SideFits(rule, rhs, a, nd, low, high)
    PROVE  MinorFits(rule, rhs, a, nd, low, high)
<1>1. nrhs[rule + 1] = 6 /\ lhs[rule + 1] = 40 /\ rightSides[rule][3] = 40
  BY DEF nrhs, lhs, rightSides
<1>2. \E sign : Minor(rule, rhs) = Later(rhs[3], sign, rhs[5])
  BY Minors
<1>3. /\ \A i \in 0..6 : a[i] \in Nat
      /\ \A i \in 1..6 : a[i - 1] <= a[i]
      /\ Fits(40, rhs[3], a[2] + 1, a[3], nd, low, high)
  BY <1>1 DEF SideFits
<1>4. PICK base, shifts : rhs[3] = [base |-> base, shifts |-> shifts] /\ base.at \in (a[2] + 1)..a[3]
  BY <1>3 DEF Fits
<1>5. /\ a[0] <= a[1] /\ a[1] <= a[2] /\ a[3] <= a[4] /\ a[4] <= a[5] /\ a[5] <= a[6]
      /\ a[0] \in Nat /\ a[1] \in Nat /\ a[2] \in Nat /\ a[3] \in Nat /\ a[4] \in Nat /\ a[5] \in Nat /\ a[6] \in Nat
  BY <1>3
<1>6. base.at \in (a[0] + 1)..a[6]
  BY <1>4, <1>5
<1>7. \E s : Minor(rule, rhs) = [base |-> base, shifts |-> s]
  <2>1. PICK sign : Minor(rule, rhs) = Later(rhs[3], sign, rhs[5])
    BY <1>2
  <2>2. \A x : [[base |-> base, shifts |-> shifts] EXCEPT !.shifts = x] = [base |-> base, shifts |-> x]
    OBVIOUS
  <2>3. Later(rhs[3], sign, rhs[5]) = [[base |-> base, shifts |-> shifts] EXCEPT !.shifts = Append(shifts, <<sign, rhs[5].unit, rhs[5].at>>)]
    BY <1>4 DEF Later
  <2> QED BY <2>1, <2>2, <2>3
<1>8. \E b, s : Minor(rule, rhs) = [base |-> b, shifts |-> s] /\ b.at \in (a[0] + 1)..a[6]
  BY <1>6, <1>7
<1> QED BY <1>1, <1>8, TimeFits DEF MinorFits

(* What a time that is used as a value carries.                            *)
LEMMA TimeValueMinor ==
    ASSUME NEW rhs, NEW a, NEW nd, NEW low, NEW high, SideFits(19, rhs, a, nd, low, high)
    PROVE  MinorFits(19, rhs, a, nd, low, high)
<1>1. nrhs[19 + 1] = 1 /\ lhs[19 + 1] = 38 /\ rightSides[19][1] = 40
  BY DEF nrhs, lhs, rightSides
<1>2. Minor(19, rhs) = [type |-> "T_TIME", at |-> rhs[1].base.at, shifts |-> rhs[1].shifts]
  BY Minors
<1>3. Fits(40, rhs[1], a[0] + 1, a[1], nd, low, high)
  BY <1>1 DEF SideFits
<1>4. rhs[1].base.at \in (a[0] + 1)..a[1]
  <2>1. PICK base, shifts : rhs[1] = [base |-> base, shifts |-> shifts] /\ base.at \in (a[0] + 1)..a[1]
    BY <1>3 DEF Fits
  <2>2. rhs[1].base = base
    BY <2>1
  <2> QED BY <2>1, <2>2
<1>5. IsValue(Minor(19, rhs), a[0] + 1, a[1])
  BY <1>2, <1>4 DEF IsValue
<1> QED BY <1>1, <1>5 DEF MinorFits, Fits

(* What a duration carries.                                                *)
LEMMA UnitMinor ==
    ASSUME NEW rule \in 31..34, NEW rhs, NEW a, NEW nd, NEW low, NEW high
    PROVE  MinorFits(rule, rhs, a, nd, low, high)
<1>1. lhs[rule + 1] = 42
  BY DEF lhs
<1>2. Minor(rule, rhs) = [unit |-> rhs[1].word, at |-> rhs[3].at]
  BY DEF Minor
<1>3. \E unit, at : Minor(rule, rhs) = [unit |-> unit, at |-> at]
  BY <1>2
<1>4. 42 \notin 1..32 /\ 42 # 36 /\ 42 # 37 /\ 42 # 38 /\ 42 \notin {39, 41} /\ 42 # 40 /\ 42 # 35
  OBVIOUS
<1>5. ASSUME NEW m, NEW lo, NEW hi, \E unit, at : m = [unit |-> unit, at |-> at]
      PROVE  Fits(42, m, lo, hi, nd, low, high)
  BY <1>4, <1>5, Zenon DEF Fits
<1> QED BY <1>1, <1>3, <1>5 DEF MinorFits

(* Values that lie among some words lie among more.                        *)
LEMMA WiderValues ==
    ASSUME NEW vals, NEW lo \in Nat, NEW hi \in Nat, NEW lo2 \in Nat, NEW hi2 \in Nat, lo2 <= lo, hi <= hi2,
           AreValues(vals, lo, hi)
    PROVE  AreValues(vals, lo2, hi2)
<1>1. \A i \in 1..Len(vals) : IsValue(vals[i], lo2, hi2)
  BY Wider DEF AreValues
<1>2. Len(vals) \in Nat
  BY DEF AreValues, IsList
<1> QED BY <1>1, <1>2 DEF AreValues

(* A condition in parentheses is the one within.                           *)
LEMMA ParenthesisMinor ==
    ASSUME NEW rhs, NEW a, NEW nd, NEW low, NEW high, SideFits(11, rhs, a, nd, low, high),
           \A n \in DOMAIN nd : low[n] \in Nat /\ high[n] \in Nat
    PROVE  MinorFits(11, rhs, a, nd, low, high)
<1>1. nrhs[11 + 1] = 3 /\ lhs[11 + 1] = 35 /\ rightSides[11][2] = 35
  BY DEF nrhs, lhs, rightSides
<1>2. Minor(11, rhs) = rhs[2]
  BY Minors
<1>3. /\ \A i \in 0..3 : a[i] \in Nat
      /\ \A i \in 1..3 : a[i - 1] <= a[i]
      /\ Fits(35, rhs[2], a[1] + 1, a[2], nd, low, high)
  BY <1>1 DEF SideFits
<1>4. PICK n \in DOMAIN nd : rhs[2] = [at |-> n] /\ a[1] + 1 <= low[n] /\ high[n] <= a[2]
  BY <1>3 DEF Fits
<1>5. a[0] <= a[1] /\ a[2] <= a[3] /\ a[0] \in Nat /\ a[1] \in Nat /\ a[2] \in Nat /\ a[3] \in Nat
  BY <1>3
<1>6. a[0] + 1 <= low[n] /\ high[n] <= a[3]
  BY <1>4, <1>5
<1> QED BY <1>1, <1>2, <1>4, <1>6 DEF MinorFits, Fits

(* A list in parentheses has the values within.                            *)
LEMMA ListMinor ==
    ASSUME NEW rhs, NEW a, NEW nd, NEW low, NEW high, SideFits(20, rhs, a, nd, low, high)
    PROVE  MinorFits(20, rhs, a, nd, low, high)
<1>1. nrhs[20 + 1] = 3 /\ lhs[20 + 1] = 39 /\ rightSides[20][2] = 41
  BY DEF nrhs, lhs, rightSides
<1>2. Minor(20, rhs) = rhs[2]
  BY Minors
<1>3. /\ \A i \in 0..3 : a[i] \in Nat
      /\ \A i \in 1..3 : a[i - 1] <= a[i]
      /\ Fits(41, rhs[2], a[1] + 1, a[2], nd, low, high)
  BY <1>1 DEF SideFits
<1>4. PICK vals : rhs[2] = [vals |-> vals] /\ AreValues(vals, a[1] + 1, a[2])
  BY <1>3 DEF Fits
<1>5. a[0] <= a[1] /\ a[2] <= a[3] /\ a[0] \in Nat /\ a[1] \in Nat /\ a[2] \in Nat /\ a[3] \in Nat
  BY <1>3
<1>6. AreValues(vals, a[0] + 1, a[3])
  BY <1>4, <1>5, WiderValues
<1> QED BY <1>1, <1>2, <1>4, <1>6 DEF MinorFits, Fits

(* The first two values of a list.                                         *)
LEMMA PairMinor ==
    ASSUME NEW rhs, NEW a, NEW nd, NEW low, NEW high, SideFits(21, rhs, a, nd, low, high)
    PROVE  MinorFits(21, rhs, a, nd, low, high)
<1>1. nrhs[21 + 1] = 3 /\ lhs[21 + 1] = 41 /\ rightSides[21][1] = 38 /\ rightSides[21][3] = 38
  BY DEF nrhs, lhs, rightSides
<1>2. Minor(21, rhs) = [vals |-> <<rhs[1], rhs[3]>>]
  BY Minors
<1>3. /\ \A i \in 0..3 : a[i] \in Nat
      /\ \A i \in 1..3 : a[i - 1] <= a[i]
      /\ Fits(38, rhs[1], a[0] + 1, a[1], nd, low, high)
      /\ Fits(38, rhs[3], a[2] + 1, a[3], nd, low, high)
  BY <1>1 DEF SideFits
<1>4. IsValue(rhs[1], a[0] + 1, a[1]) /\ IsValue(rhs[3], a[2] + 1, a[3])
  BY <1>3 DEF Fits
<1>5. /\ a[0] <= a[1] /\ a[1] <= a[2] /\ a[2] <= a[3]
      /\ a[0] \in Nat /\ a[1] \in Nat /\ a[2] \in Nat /\ a[3] \in Nat
  BY <1>3
<1>6. IsValue(rhs[1], a[0] + 1, a[3]) /\ IsValue(rhs[3], a[0] + 1, a[3])
  <2>1. a[0] + 1 \in Nat /\ a[2] + 1 \in Nat /\ a[0] + 1 <= a[2] + 1 /\ a[1] <= a[3]
    BY <1>5
  <2> QED BY <1>4, <1>5, <2>1, Wider
<1>7. AreValues(<<rhs[1], rhs[3]>>, a[0] + 1, a[3])
  <2> DEFINE v == <<rhs[1], rhs[3]>>
  <2>1. v \in Seq({rhs[1], rhs[3]}) /\ Len(v) = 2 /\ v[1] = rhs[1] /\ v[2] = rhs[3]
    OBVIOUS
  <2>2. \A i \in 1..2 : i = 1 \/ i = 2
    OBVIOUS
  <2> HIDE DEF v
  <2>3. \A i \in 1..Len(v) : IsValue(v[i], a[0] + 1, a[3])
    BY <1>6, <2>1, <2>2
  <2>4. IsList(v)
    BY <2>1 DEF IsList
  <2>5. 2 <= a[3] - (a[0] + 1) + 1
    <3>1. a[0] + 1 <= a[1] /\ a[2] + 1 <= a[3]
      BY <1>4, <1>5, Occupied
    <3> QED BY <1>5, <3>1
  <2>6. AreValues(v, a[0] + 1, a[3])
    BY <2>1, <2>3, <2>4, <2>5 DEF AreValues
  <2> QED BY <2>6 DEF v
<1>8. Fits(41, [vals |-> <<rhs[1], rhs[3]>>], a[0] + 1, a[3], nd, low, high)
  <2>1. PICK v : v = <<rhs[1], rhs[3]>>
    OBVIOUS
  <2>2. AreValues(v, a[0] + 1, a[3])
    BY <1>7, <2>1
  <2>3. Fits(41, [vals |-> v], a[0] + 1, a[3], nd, low, high)
    BY <2>2 DEF Fits
  <2> QED BY <2>1, <2>3
<1> QED BY <1>1, <1>2, <1>8 DEF MinorFits

(* One more value of a list.                                               *)
LEMMA MoreMinor ==
    ASSUME NEW rhs, NEW a, NEW nd, NEW low, NEW high, SideFits(22, rhs, a, nd, low, high)
    PROVE  MinorFits(22, rhs, a, nd, low, high)
<1>1. nrhs[22 + 1] = 3 /\ lhs[22 + 1] = 41 /\ rightSides[22][1] = 41 /\ rightSides[22][3] = 38
  BY DEF nrhs, lhs, rightSides
<1>2. Minor(22, rhs) = [vals |-> Append(rhs[1].vals, rhs[3])]
  BY Minors
<1>3. /\ \A i \in 0..3 : a[i] \in Nat
      /\ \A i \in 1..3 : a[i - 1] <= a[i]
      /\ Fits(41, rhs[1], a[0] + 1, a[1], nd, low, high)
      /\ Fits(38, rhs[3], a[2] + 1, a[3], nd, low, high)
  BY <1>1 DEF SideFits
<1>4. PICK vals : rhs[1] = [vals |-> vals] /\ AreValues(vals, a[0] + 1, a[1])
  BY <1>3 DEF Fits
<1>5. /\ a[0] <= a[1] /\ a[1] <= a[2] /\ a[2] <= a[3]
      /\ a[0] \in Nat /\ a[1] \in Nat /\ a[2] \in Nat /\ a[3] \in Nat
  BY <1>3
<1>6. AreValues(vals, a[0] + 1, a[3]) /\ IsValue(rhs[3], a[0] + 1, a[3])
  <2>0. IsValue(rhs[3], a[2] + 1, a[3])
    BY <1>3 DEF Fits
  <2>1. a[0] + 1 \in Nat /\ a[2] + 1 \in Nat /\ a[0] + 1 <= a[2] + 1 /\ a[1] <= a[3] /\ a[0] + 1 <= a[0] + 1 /\ a[3] <= a[3]
    BY <1>5
  <2> QED BY <1>4, <1>5, <2>0, <2>1, Wider, WiderValues
<1>7. AreValues(Append(vals, rhs[3]), a[0] + 1, a[3])
  <2>1. PICK S : vals \in Seq(S)
    BY <1>4 DEF AreValues, IsList
  <2> DEFINE v == Append(vals, rhs[3])
  <2>2. /\ v \in Seq(S \cup {rhs[3]}) /\ Len(v) = Len(vals) + 1 /\ Len(vals) \in Nat
        /\ v[Len(vals) + 1] = rhs[3]
        /\ \A i \in 1..Len(vals) : v[i] = vals[i]
    BY <2>1
  <2> HIDE DEF v
  <2>3. \A i \in 1..Len(v) : IsValue(v[i], a[0] + 1, a[3])
    BY <1>6, <2>2 DEF AreValues
  <2>4. Len(v) >= 1
    BY <2>2
  <2>5. IsList(v)
    BY <2>2 DEF IsList
  <2>6. Len(v) <= a[3] - (a[0] + 1) + 1
    <3>1. IsValue(rhs[3], a[2] + 1, a[3])
      BY <1>3 DEF Fits
    <3>2. a[2] + 1 <= a[3]
      BY <1>5, <3>1, Occupied
    <3>3. Len(vals) <= a[1] - (a[0] + 1) + 1
      BY <1>4 DEF AreValues
    <3>4. PICK l, m : l = Len(v) /\ m = Len(vals)
      OBVIOUS
    <3>5. m \in Nat /\ l = m + 1 /\ m <= a[1] - (a[0] + 1) + 1
      BY <2>2, <3>3, <3>4
    <3>6. l <= a[3] - (a[0] + 1) + 1
      BY <1>5, <3>2, <3>5
    <3> QED BY <3>4, <3>6
  <2>7. AreValues(v, a[0] + 1, a[3])
    BY <2>3, <2>4, <2>5, <2>6 DEF AreValues
  <2> QED BY <2>7 DEF v
<1>8. Minor(22, rhs) = [vals |-> Append(vals, rhs[3])]
  BY <1>2, <1>4
<1>9. Fits(41, [vals |-> Append(vals, rhs[3])], a[0] + 1, a[3], nd, low, high)
  <2>1. PICK v : v = Append(vals, rhs[3])
    OBVIOUS
  <2>2. AreValues(v, a[0] + 1, a[3])
    BY <1>7, <2>1
  <2>3. Fits(41, [vals |-> v], a[0] + 1, a[3], nd, low, high)
    BY <2>2 DEF Fits
  <2> QED BY <2>1, <2>3
<1> QED BY <1>1, <1>8, <1>9 DEF MinorFits

(* The node a rule makes for a predicate. *)
LEMMA PredicateNode ==
    ASSUME NEW rule \in 7..10, NEW rhs, NEW a, NEW nd, NEW low, NEW high, SideFits(rule, rhs, a, nd, low, high)
    PROVE  /\ nrhs[rule + 1] = 3 /\ lhs[rule + 1] = 35 /\ rightSides[rule][1] = 37
           /\ a[0] + 1 <= a[1] /\ a[1] <= a[3] /\ a[0] \in Nat /\ a[1] \in Nat /\ a[3] \in Nat
           /\ Minor(rule, rhs) = [at |-> a[1]]
           /\ IsPredicate(NewNode(rule, rhs), a[1], a[0] + 1, a[3])
<1>1. nrhs[rule + 1] = 3 /\ lhs[rule + 1] = 35 /\ rightSides[rule][1] = 37
  BY DEF nrhs, lhs, rightSides
<1>2. Minor(rule, rhs) = [at |-> rhs[1].at]
  <2>1. rule = 7 \/ rule = 8 \/ rule = 9 \/ rule = 10
    OBVIOUS
  <2> QED BY <2>1, Minors
<1>3. /\ \A i \in 0..3 : a[i] \in Nat
      /\ \A i \in 1..3 : a[i - 1] <= a[i]
      /\ Fits(37, rhs[1], a[0] + 1, a[1], nd, low, high)
      /\ Fits(rightSides[rule][2], rhs[2], a[1] + 1, a[2], nd, low, high)
      /\ Fits(rightSides[rule][3], rhs[3], a[2] + 1, a[3], nd, low, high)
  BY <1>1 DEF SideFits
<1>4. a[0] <= a[1] /\ a[1] <= a[2] /\ a[2] <= a[3] /\ a[0] \in Nat /\ a[1] \in Nat /\ a[2] \in Nat /\ a[3] \in Nat
  BY <1>3
<1>5. PICK named \in BOOLEAN : rhs[1] = [named |-> named, at |-> a[1]]
  BY <1>3 DEF Fits
<1>6. a[1] \in (a[0] + 1)..a[1]
  BY <1>3 DEF Fits
<1>7. a[0] + 1 <= a[1] /\ a[1] <= a[3] /\ a[0] + 1 \in Nat /\ a[2] + 1 \in Nat /\ a[0] + 1 <= a[2] + 1
  BY <1>4, <1>6
<1>8. \E op \in Operations : \E vals :
        /\ NewNode(rule, rhs) = Predicate(rhs[1], op, vals)
        /\ op = "IS" => vals = <<Null>>
        /\ op # "IS" => AreValues(vals, a[0] + 1, a[3])
        /\ op # "IN" => Len(vals) = 1
  <2>1. ASSUME NEW v, IsValue(v, a[2] + 1, a[3])
        PROVE  AreValues(<<v>>, a[0] + 1, a[3]) /\ Len(<<v>>) = 1
    <3>1. IsValue(v, a[0] + 1, a[3])
      <4>1. a[3] <= a[3]
        BY <1>4
      <4> QED BY <1>4, <1>7, <2>1, <4>1, Wider
    <3> DEFINE w == <<v>>
    <3>2. w \in Seq({v}) /\ Len(w) = 1 /\ w[1] = v
      OBVIOUS
    <3> HIDE DEF w
    <3>3. \A i \in 1..Len(w) : IsValue(w[i], a[0] + 1, a[3])
      BY <3>1, <3>2
    <3>4. 1 <= a[3] - (a[0] + 1) + 1
      <4>1. a[2] + 1 <= a[3]
        BY <1>4, <1>7, <2>1, Occupied
      <4> QED BY <1>4, <4>1
    <3>5. IsList(w)
      BY <3>2 DEF IsList
    <3>6. AreValues(w, a[0] + 1, a[3]) /\ Len(w) = 1
      BY <3>2, <3>3, <3>4, <3>5 DEF AreValues
    <3> QED BY <3>6 DEF w
  <2>7. CASE rule = 7
    <3>1. rightSides[rule][2] = 36 /\ rightSides[rule][3] = 38
      BY <2>7 DEF rightSides
    <3>2. PICK word \in Comparisons : rhs[2] = [word |-> word, at |-> a[2]]
      BY <1>3, <3>1 DEF Fits
    <3>3. IsValue(rhs[3], a[2] + 1, a[3])
      BY <1>3, <3>1 DEF Fits
    <3>4. NewNode(rule, rhs) = Predicate(rhs[1], word, <<rhs[3]>>)
      <4>1. rhs[2].word = word
        BY <3>2
      <4>2. NewNode(7, rhs) = Predicate(rhs[1], rhs[2].word, <<rhs[3]>>)
        BY Nodes
      <4> QED BY <2>7, <4>1, <4>2
    <3>5. word \in Operations /\ word # "IS"
      BY DEF Operations, Comparisons
    <3>6. AreValues(<<rhs[3]>>, a[0] + 1, a[3]) /\ Len(<<rhs[3]>>) = 1
      BY <2>1, <3>3
    <3> QED BY <3>4, <3>5, <3>6
  <2>8. CASE rule = 8
    <3>1. rightSides[rule][3] \in 1..32
      BY <2>8 DEF rightSides
    <3>2. rhs[3].at = a[3] /\ a[3] \in (a[2] + 1)..a[3]
      BY <1>3, <3>1 DEF Fits
    <3>3. IsValue(Value("T_STRING", rhs[3]), a[2] + 1, a[3])
      BY <3>2 DEF IsValue, Value, LiteralTypes
    <3>4. NewNode(rule, rhs) = Predicate(rhs[1], "LIKE", <<Value("T_STRING", rhs[3])>>)
      BY <2>8, Nodes
    <3>5. "LIKE" \in Operations /\ "LIKE" # "IS"
      BY DEF Operations
    <3>6. AreValues(<<Value("T_STRING", rhs[3])>>, a[0] + 1, a[3]) /\ Len(<<Value("T_STRING", rhs[3])>>) = 1
      BY <2>1, <3>3
    <3> QED BY <3>4, <3>5, <3>6
  <2>9. CASE rule = 9
    <3>4. NewNode(rule, rhs) = Predicate(rhs[1], "IS", <<Null>>)
      BY <2>9, Nodes
    <3>5. "IS" \in Operations /\ "IS" # "IN" /\ Len(<<Null>>) = 1
      BY DEF Operations
    <3> QED BY <3>4, <3>5
  <2>10. CASE rule = 10
    <3>1. rightSides[rule][3] = 39
      BY <2>10 DEF rightSides
    <3>2. PICK vals : rhs[3] = [vals |-> vals] /\ AreValues(vals, a[2] + 1, a[3])
      BY <1>3, <3>1 DEF Fits
    <3>3. AreValues(vals, a[0] + 1, a[3])
      <4>1. a[3] <= a[3]
        BY <1>4
      <4> QED BY <1>4, <1>7, <3>2, <4>1, WiderValues
    <3>4. NewNode(rule, rhs) = Predicate(rhs[1], "IN", vals)
      <4>1. rhs[3].vals = vals
        BY <3>2
      <4>2. NewNode(10, rhs) = Predicate(rhs[1], "IN", rhs[3].vals)
        BY Nodes
      <4> QED BY <2>10, <4>1, <4>2
    <3>5. "IN" \in Operations /\ "IN" # "IS"
      BY DEF Operations
    <3> QED BY <3>3, <3>4, <3>5
  <2> QED BY <2>7, <2>8, <2>9, <2>10
<1>9. IsPredicate(NewNode(rule, rhs), a[1], a[0] + 1, a[3])
  <2>1. PICK op, vals :
        /\ op \in Operations
        /\ NewNode(rule, rhs) = Predicate(rhs[1], op, vals)
        /\ op = "IS" => vals = <<Null>>
        /\ op # "IS" => AreValues(vals, a[0] + 1, a[3])
        /\ op # "IN" => Len(vals) = 1
    BY <1>8
  <2>2. NewNode(rule, rhs) = [t |-> "N_PRED", prop |-> [named |-> named, at |-> a[1]], op |-> op, vals |-> vals]
    BY <1>5, <2>1 DEF Predicate
  <2>3. a[1] < a[3]
    <3>1. a[2] + 1 <= a[3]
      <4>1. rightSides[rule][3] \in 1..32 \/ rightSides[rule][3] = 38 \/ rightSides[rule][3] = 39
        BY DEF rightSides
      <4>2. CASE rightSides[rule][3] \in 1..32
        BY <1>3, <1>4, <4>2 DEF Fits
      <4>3. CASE rightSides[rule][3] = 38
        <5>1. IsValue(rhs[3], a[2] + 1, a[3])
          BY <1>3, <4>3 DEF Fits
        <5> QED BY <1>4, <1>7, <5>1, Occupied
      <4>4. CASE rightSides[rule][3] = 39
        <5>1. PICK v : AreValues(v, a[2] + 1, a[3])
          BY <1>3, <4>4 DEF Fits
        <5>2. IsValue(v[1], a[2] + 1, a[3])
          <6>1. Len(v) \in Nat /\ Len(v) >= 1
            BY <5>1 DEF AreValues, IsList
          <6> QED BY <5>1, <6>1 DEF AreValues
        <5> QED BY <1>4, <1>7, <5>2, Occupied
      <4> QED BY <4>1, <4>2, <4>3, <4>4
    <3> QED BY <1>4, <3>1
  <2>4. \E named1 \in BOOLEAN, op1 \in Operations : \E vals1 :
        /\ NewNode(rule, rhs) = [t |-> "N_PRED", prop |-> [named |-> named1, at |-> a[1]], op |-> op1, vals |-> vals1]
        /\ op1 = "IS" => vals1 = <<Null>>
        /\ op1 # "IS" => AreValues(vals1, a[0] + 1, a[3])
        /\ op1 # "IN" => Len(vals1) = 1
    BY <2>1, <2>2
  <2> QED BY <2>3, <2>4 DEF IsPredicate
<1> QED BY <1>1, <1>2, <1>4, <1>5, <1>7, <1>9

(* The node a rule makes for a connective. *)
Branches(new, rhs, a, nd, low, high) ==
    \E l \in DOMAIN nd, r \in DOMAIN nd : \E op :
       /\ new = [t |-> "N_COND", left |-> l, op |-> op, right |-> r]
       /\ rhs[1] = [at |-> l] /\ rhs[3] = [at |-> r]
       /\ a[0] + 1 <= low[l] /\ high[l] <= a[1]
       /\ a[2] + 1 <= low[r] /\ high[r] <= a[3]

(* The node of AND and OR, with an operand on either side.                 *)
LEMMA ConditionNode ==
    ASSUME NEW rule \in {12, 13}, NEW rhs, NEW a, NEW nd, NEW low, NEW high, SideFits(rule, rhs, a, nd, low, high)
    PROVE  /\ nrhs[rule + 1] = 3 /\ lhs[rule + 1] = 35
           /\ rightSides[rule][1] = 35 /\ rightSides[rule][2] \in 1..2 /\ rightSides[rule][3] = 35
           /\ a[0] <= a[1] /\ a[1] + 1 <= a[2] /\ a[2] <= a[3]
           /\ a[0] \in Nat /\ a[1] \in Nat /\ a[2] \in Nat /\ a[3] \in Nat
           /\ Minor(rule, rhs) = [at |-> a[2]]
           /\ Branches(NewNode(rule, rhs), rhs, a, nd, low, high)
<1>1. /\ nrhs[rule + 1] = 3 /\ lhs[rule + 1] = 35
      /\ rightSides[rule][1] = 35 /\ rightSides[rule][2] \in 1..2 /\ rightSides[rule][3] = 35
  BY DEF nrhs, lhs, rightSides
<1>2. Minor(rule, rhs) = [at |-> rhs[2].at]
  <2>1. rule = 12 \/ rule = 13
    OBVIOUS
  <2> QED BY <2>1, Minors
<1>3. /\ \A i \in 0..3 : a[i] \in Nat
      /\ \A i \in 1..3 : a[i - 1] <= a[i]
      /\ Fits(35, rhs[1], a[0] + 1, a[1], nd, low, high)
      /\ Fits(rightSides[rule][2], rhs[2], a[1] + 1, a[2], nd, low, high)
      /\ Fits(35, rhs[3], a[2] + 1, a[3], nd, low, high)
  BY <1>1 DEF SideFits
<1>4. a[0] <= a[1] /\ a[1] <= a[2] /\ a[2] <= a[3] /\ a[0] \in Nat /\ a[1] \in Nat /\ a[2] \in Nat /\ a[3] \in Nat
  BY <1>3
<1>5. rhs[2].at = a[2] /\ a[2] \in (a[1] + 1)..a[2]
  BY <1>1, <1>3 DEF Fits
<1>6. PICK l \in DOMAIN nd : rhs[1] = [at |-> l] /\ a[0] + 1 <= low[l] /\ high[l] <= a[1]
  BY <1>3 DEF Fits
<1>7. PICK r \in DOMAIN nd : rhs[3] = [at |-> r] /\ a[2] + 1 <= low[r] /\ high[r] <= a[3]
  BY <1>3 DEF Fits
<1>8. \E op : NewNode(rule, rhs) = [t |-> "N_COND", left |-> l, op |-> op, right |-> r]
  <2>1. rule = 12 \/ rule = 13
    OBVIOUS
  <2>2. rhs[1].at = l /\ rhs[3].at = r
    BY <1>6, <1>7
  <2>3. \E op : NewNode(rule, rhs) = Condition(l, op, r)
    BY <2>1, <2>2, Nodes
  <2> QED BY <2>3 DEF Condition
<1>9. Minor(rule, rhs) = [at |-> a[2]] /\ a[1] + 1 <= a[2]
  BY <1>2, <1>4, <1>5
<1>10. Branches(NewNode(rule, rhs), rhs, a, nd, low, high)
  BY <1>6, <1>7, <1>8 DEF Branches
<1> QED BY <1>1, <1>4, <1>9, <1>10

-----------------------------------------------------------------------------
(* The nodes made so far, whatever has become of them. *)
Forest(nd, low, high, max) ==
    /\ max \in Nat
    /\ Shaped(nd, low, high, max)
    /\ \A n \in DOMAIN nd : low[n] >= 1 /\ NodeFits(nd, n, low, high)

(* A node of the text the stack stands for is below a symbol on the stack. *)
Home(n, s, ends, low, high) ==
    \E i \in 2..Len(s) : s[i].major = 35 /\ ends[i - 1] + 1 <= low[n] /\ high[n] <= ends[i]

(* The entry that Parse sets an empty stack up with. *)
Bottom == [stateno |-> 0, major |-> 0, minor |-> [at |-> 0]]

(* The symbols on the stack stand for the words after lo up to hi, one     *)
(* after the other: the i-th for those after ends[i - 1] up to ends[i].    *)
Pictured(s, ends, nd, low, high, lo, hi) ==
    /\ IsList(s) /\ Len(s) >= 1 /\ Linked(s) /\ s[1] = Bottom
    /\ \A i \in 1..Len(s) : ends[i] \in Nat
    /\ ends[1] = lo /\ ends[Len(s)] = hi
    /\ \A i \in 2..Len(s) : /\ ends[i - 1] <= ends[i]
                            /\ Fits(s[i].major, s[i].minor, ends[i - 1] + 1, ends[i], nd, low, high)
    /\ \A n \in DOMAIN nd : n <= lo \/ Home(n, s, ends, low, high)

(* The end of one symbol and the end of a later one. *)
LEMMA Rising ==
    ASSUME NEW ends, NEW n \in Nat, \A i \in 1..n : ends[i] \in Nat, \A i \in 2..n : ends[i - 1] <= ends[i],
           NEW i \in 1..n, NEW j \in 1..n, i <= j
    PROVE  ends[i] <= ends[j]
<1> DEFINE S == {k \in 0..(n - i) : ends[i] <= ends[i + k]}
<1>1. 0 \in S
  BY SMT
<1>2. ASSUME NEW k \in 0..(n - i), k # n - i, k \in S PROVE k + 1 \in S
  <2>1. PICK m : m = i + k + 1
    OBVIOUS
  <2>2. m \in 2..n /\ m - 1 = i + k /\ m - 1 \in 1..n /\ m \in 1..n /\ k + 1 \in 0..(n - i) /\ i + (k + 1) = m
    BY <1>2, <2>1
  <2>3. ends[m - 1] <= ends[m] /\ ends[m - 1] \in Nat /\ ends[m] \in Nat /\ ends[i] \in Nat
    BY <2>2
  <2>4. ends[i] <= ends[i + k]
    BY <1>2
  <2>5. ends[i] <= ends[i + (k + 1)]
    BY <2>2, <2>3, <2>4
  <2> QED BY <2>2, <2>5
<1>3. \A k \in 0..(n - i) : k \in S
  <2>1. \A k \in 0..(n - i) : k # n - i /\ k \in S => k + 1 \in S
    BY <1>2
  <2>2. n - i \in Nat
    OBVIOUS
  <2> HIDE DEF S
  <2> QED BY <1>1, <2>1, <2>2, Upwards, Zenon
<1>4. j - i \in 0..(n - i) /\ i + (j - i) = j
  OBVIOUS
<1>5. j - i \in S
  BY <1>3, <1>4
<1> QED BY <1>4, <1>5

RightHand(s, n) == [i \in 1..n |-> s[Len(s) - n + i].minor]
Ends(s, ends, n) == [i \in 0..n |-> ends[Len(s) - n + i]]

(* The top of the stack fits the right-hand side that is there.            *)
LEMMA SideOf ==
    ASSUME NEW s, NEW ends, NEW nd, NEW low, NEW high, NEW lo, NEW hi, Pictured(s, ends, nd, low, high, lo, hi),
           NEW rule \in 1..34, NEW n \in 1..6, Handled(s, rule, n)
    PROVE  SideFits(rule, RightHand(s, n), Ends(s, ends, n), nd, low, high)
<1>1. Len(s) \in Nat /\ n = nrhs[rule + 1] /\ n < Len(s)
  BY DEF Pictured, IsList, Handled
<1>2. ASSUME NEW i \in 0..n PROVE Ends(s, ends, n)[i] \in Nat
  <2>1. PICK j : j = Len(s) - n + i
    OBVIOUS
  <2>2. j \in 1..Len(s)
    BY <1>1, <2>1
  <2> QED BY <2>1, <2>2 DEF Ends, Pictured
<1>3. ASSUME NEW i \in 1..n
      PROVE  /\ Ends(s, ends, n)[i - 1] <= Ends(s, ends, n)[i]
             /\ Fits(rightSides[rule][i], RightHand(s, n)[i], Ends(s, ends, n)[i - 1] + 1, Ends(s, ends, n)[i], nd, low, high)
  <2>1. PICK j : j = Len(s) - n + i
    OBVIOUS
  <2>2. j \in 2..Len(s) /\ j - 1 = Len(s) - n + (i - 1) /\ i \in 0..n /\ i - 1 \in 0..n
    BY <1>1, <2>1
  <2>3. Ends(s, ends, n)[i] = ends[j] /\ Ends(s, ends, n)[i - 1] = ends[j - 1] /\ RightHand(s, n)[i] = s[j].minor
    BY <2>1, <2>2 DEF Ends, RightHand
  <2>4. s[j].major = rightSides[rule][i]
    BY <2>1 DEF Handled
  <2>5. ends[j - 1] <= ends[j] /\ Fits(s[j].major, s[j].minor, ends[j - 1] + 1, ends[j], nd, low, high)
    BY <2>2 DEF Pictured
  <2> QED BY <2>3, <2>4, <2>5
<1> QED BY <1>1, <1>2, <1>3 DEF SideFits

IsTopped(s2, s, k, e) ==
    /\ IsList(s2) /\ Len(s2) = k + 1 /\ s2[k + 1] = e
    /\ \A i \in 1..k : s2[i] = s[i]
    /\ Last(SubSeq(s, 1, k)) = s[k]

(* The stack after a pop and a push.                                       *)
LEMMA Topped ==
    ASSUME NEW s, IsList(s), NEW k \in 1..Len(s), NEW e
    PROVE  IsTopped(Append(SubSeq(s, 1, k), e), s, k, e)
<1> DEFINE s3 == Append(SubSeq(s, 1, k), e)
<1>0. PICK s2 : s2 = s3
  OBVIOUS
<1>1. PICK S : s \in Seq(S)
  BY DEF IsList
<1>2. PICK b : b = SubSeq(s, 1, k)
  OBVIOUS
<1>3. b \in Seq(S) /\ Len(b) = k /\ \A i \in 1..k : b[i] = s[i]
  BY <1>1, <1>2
<1>4. k \in 1..k
  OBVIOUS
<1>5. Last(b) = s[k]
  BY <1>3, <1>4 DEF Last
<1>6. s2 \in Seq(S \cup {e}) /\ Len(s2) = k + 1 /\ s2[k + 1] = e /\ \A i \in 1..k : s2[i] = b[i]
  BY <1>0, <1>2, <1>3
<1>7. \A i \in 1..k : s2[i] = s[i]
  BY <1>3, <1>6
<1>8. IsTopped(s2, s, k, e)
  BY <1>2, <1>5, <1>6, <1>7 DEF IsList, IsTopped
<1> HIDE DEF s3
<1>9. IsTopped(s3, s, k, e)
  BY <1>0, <1>8
<1> QED BY <1>9 DEF s3

(* Nodes are added and none is changed. *)
Keeps(nd, low, high, nd2, low2, high2) ==
    \A n \in DOMAIN nd : n \in DOMAIN nd2 /\ nd2[n] = nd[n] /\ low2[n] = low[n] /\ high2[n] = high[n]

(* What a symbol carries still fits when nodes are added to the tree.      *)
LEMMA FitsKept ==
    ASSUME NEW nd, NEW low, NEW high, NEW nd2, NEW low2, NEW high2, Keeps(nd, low, high, nd2, low2, high2),
           NEW major, NEW m, NEW lo, NEW hi, Fits(major, m, lo, hi, nd, low, high)
    PROVE  Fits(major, m, lo, hi, nd2, low2, high2)
<1>1. major = 35 => \E n \in DOMAIN nd2 : m = [at |-> n] /\ lo <= low2[n] /\ high2[n] <= hi
  BY DEF Keeps, Fits
<1> QED BY <1>1, Zenon DEF Fits

(* Where a node's home is when a symbol takes the place of those after the k-th. *)
Carried(m, s, ends, low, high, lo, hi, k, major) ==
    \/ m <= lo
    \/ major = 35 /\ ends[k] + 1 <= low[m] /\ high[m] <= hi
    \/ \E i \in 2..k : s[i].major = 35 /\ ends[i - 1] + 1 <= low[m] /\ high[m] <= ends[i]

(* The picture of the stack after a symbol has taken the place of those    *)
(* above the k-th.                                                         *)
LEMMA Repictured ==
    ASSUME NEW s, NEW ends, NEW nd, NEW low, NEW high, NEW lo, NEW hi, Pictured(s, ends, nd, low, high, lo, hi),
           NEW nd2, NEW low2, NEW high2, Keeps(nd, low, high, nd2, low2, high2),
           NEW k \in 1..Len(s), NEW hi2 \in Nat, ends[k] <= hi2,
           NEW e, e.stateno \in 1..77, e.major = entered[e.stateno], s[k].stateno \in beneath[e.stateno],
           Fits(e.major, e.minor, ends[k] + 1, hi2, nd2, low2, high2),
           \A n \in DOMAIN nd2 : Carried(n, s, ends, low2, high2, lo, hi2, k, e.major)
    PROVE  \E ends2 : Pictured(Append(SubSeq(s, 1, k), e), ends2, nd2, low2, high2, lo, hi2)
<1> DEFINE s3 == Append(SubSeq(s, 1, k), e)
           ends3 == [i \in 1..(k + 1) |-> IF i <= k THEN ends[i] ELSE hi2]
<1>1. PICK s2 : s2 = s3
  OBVIOUS
<1>2. PICK ends2 : ends2 = ends3
  OBVIOUS
<1>3. /\ IsList(s2) /\ Len(s2) = k + 1 /\ s2[k + 1] = e
      /\ \A i \in 1..k : s2[i] = s[i]
  <2>1. IsList(s)
    BY DEF Pictured
  <2>2. IsTopped(Append(SubSeq(s, 1, k), e), s, k, e)
    BY <2>1, Topped
  <2>3. IsTopped(s3, s, k, e)
    BY <2>2 DEF s3
  <2> HIDE DEF s3
  <2>4. IsTopped(s2, s, k, e)
    BY <1>1, <2>3
  <2> QED BY <2>4 DEF IsTopped
<1>4. Len(s) \in Nat /\ k \in Nat /\ k >= 1 /\ k <= Len(s)
  BY DEF Pictured, IsList
<1>5. ends2[k + 1] = hi2 /\ (\A i \in 1..k : ends2[i] = ends[i] /\ ends[i] \in Nat /\ ends2[i] \in Nat) /\ 1 \in 1..k
  BY <1>2, <1>4 DEF Pictured
<1>6. Linked(s2)
  <2>1. s2[1].stateno = 0
    BY <1>3, <1>4, <1>5 DEF Pictured, Linked
  <2>2. ASSUME NEW i \in 2..(k + 1)
        PROVE  /\ s2[i].stateno \in 1..77
               /\ s2[i].major = entered[s2[i].stateno]
               /\ s2[i - 1].stateno \in beneath[s2[i].stateno]
    <3>1. CASE i = k + 1
      <4>1. i - 1 = k /\ k \in 1..k
        BY <1>4, <3>1
      <4> QED BY <1>3, <3>1, <4>1
    <3>2. CASE i # k + 1
      <4>1. i \in 2..Len(s) /\ i \in 1..k /\ i - 1 \in 1..k
        BY <1>4, <3>2
      <4>2. s2[i] = s[i] /\ s2[i - 1] = s[i - 1]
        BY <1>3, <4>1
      <4> QED BY <4>1, <4>2 DEF Pictured, Linked
    <3> QED BY <3>1, <3>2
  <2> QED BY <1>3, <2>1, <2>2 DEF Linked
<1>7. \A i \in 1..(k + 1) : ends2[i] \in Nat
  <2>1. \A i \in 1..(k + 1) : i = k + 1 \/ i \in 1..k
    BY <1>4
  <2> QED BY <1>5, <2>1
<1>8. ASSUME NEW i \in 2..(k + 1)
      PROVE  /\ ends2[i - 1] <= ends2[i]
             /\ Fits(s2[i].major, s2[i].minor, ends2[i - 1] + 1, ends2[i], nd2, low2, high2)
  <2>1. CASE i = k + 1
    <3>1. i - 1 = k /\ k \in 1..k
      BY <1>4, <2>1
    <3> QED BY <1>3, <1>5, <2>1, <3>1
  <2>2. CASE i # k + 1
    <3>1. i \in 2..Len(s) /\ i \in 1..k /\ i - 1 \in 1..k
      BY <1>4, <2>2
    <3>2. s2[i] = s[i] /\ ends2[i] = ends[i] /\ ends2[i - 1] = ends[i - 1]
      BY <1>3, <1>5, <3>1
    <3>3. ends[i - 1] <= ends[i] /\ Fits(s[i].major, s[i].minor, ends[i - 1] + 1, ends[i], nd, low, high)
      BY <3>1 DEF Pictured
    <3>4. Fits(s[i].major, s[i].minor, ends[i - 1] + 1, ends[i], nd2, low2, high2)
      BY <3>3, FitsKept
    <3> QED BY <3>2, <3>3, <3>4
  <2> QED BY <2>1, <2>2
<1>9. ASSUME NEW n \in DOMAIN nd2 PROVE n <= lo \/ Home(n, s2, ends2, low2, high2)
  <2>1. CASE e.major = 35 /\ ends[k] + 1 <= low2[n] /\ high2[n] <= hi2
    <3>1. k + 1 \in 2..(k + 1) /\ (k + 1) - 1 = k /\ k \in 1..k
      BY <1>4
    <3> QED BY <1>3, <1>5, <2>1, <3>1 DEF Home
  <2>2. ASSUME NEW i \in 2..k, s[i].major = 35, ends[i - 1] + 1 <= low2[n], high2[n] <= ends[i]
        PROVE  Home(n, s2, ends2, low2, high2)
    <3>1. i \in 2..(k + 1) /\ i \in 1..k /\ i - 1 \in 1..k
      BY <1>4, <2>2
    <3>2. s2[i] = s[i] /\ ends2[i] = ends[i] /\ ends2[i - 1] = ends[i - 1]
      BY <1>3, <1>5, <3>1
    <3> QED BY <1>3, <2>2, <3>1, <3>2 DEF Home
  <2> QED BY <2>1, <2>2 DEF Carried
<1>10. Pictured(s2, ends2, nd2, low2, high2, lo, hi2)
  <2>1. Len(s2) >= 1 /\ ends2[1] = lo /\ s2[1] = Bottom
    BY <1>3, <1>4, <1>5 DEF Pictured
  <2> QED BY <1>3, <1>5, <1>6, <1>7, <1>8, <1>9, <2>1 DEF Pictured
<1> HIDE DEF s3
<1>11. \E x : Pictured(s3, x, nd2, low2, high2, lo, hi2)
  BY <1>1, <1>10
<1> QED BY <1>11 DEF s3

(* A table with one more entry. *)
Grown(D, f, made, x) == [n \in D \cup {made} |-> IF n = made THEN x ELSE f[n]]

(* A node that is added around, or beside, the trees that are there leaves *)
(* trees.                                                                  *)
LEMMA Grows ==
    ASSUME NEW nd, NEW low, NEW high, NEW max, Forest(nd, low, high, max),
           NEW made, made \notin DOMAIN nd, NEW lo \in Nat, NEW hi \in Nat, made \in Nat,
           1 <= lo, lo <= made, made <= hi, hi <= max,
           NEW new,
           \/ IsPredicate(new, made, lo, hi)
           \/ \E l \in DOMAIN nd, r \in DOMAIN nd : \E op :
                 /\ new = [t |-> "N_COND", left |-> l, op |-> op, right |-> r]
                 /\ lo <= low[l] /\ high[l] < made /\ made < low[r] /\ high[r] <= hi,
           NEW nd2, nd2 = Grown(DOMAIN nd, nd, made, new),
           NEW low2, low2 = Grown(DOMAIN nd, low, made, lo),
           NEW high2, high2 = Grown(DOMAIN nd, high, made, hi)
    PROVE  Forest(nd2, low2, high2, max) /\ Keeps(nd, low, high, nd2, low2, high2)
<1>1. /\ DOMAIN nd2 = DOMAIN nd \cup {made}
      /\ nd2[made] = new /\ low2[made] = lo /\ high2[made] = hi
      /\ \A n \in DOMAIN nd : nd2[n] = nd[n] /\ low2[n] = low[n] /\ high2[n] = high[n]
  BY DEF Grown
<1>2. Keeps(nd, low, high, nd2, low2, high2)
  BY <1>1 DEF Keeps
<1>3. ASSUME NEW n \in DOMAIN nd2
      PROVE  /\ n \in Nat /\ low2[n] \in Nat /\ high2[n] \in Nat
             /\ low2[n] <= n /\ n <= high2[n] /\ high2[n] <= max
             /\ IsCond(nd2, n) =>
                   /\ nd2[n].left \in DOMAIN nd2 /\ nd2[n].right \in DOMAIN nd2
                   /\ low2[n] <= low2[nd2[n].left] /\ high2[nd2[n].left] < n
                   /\ n < low2[nd2[n].right] /\ high2[nd2[n].right] <= high2[n]
             /\ low2[n] >= 1 /\ NodeFits(nd2, n, low2, high2)
  <2>1. CASE n \in DOMAIN nd
    <3>1. /\ n \in Nat /\ low[n] \in Nat /\ high[n] \in Nat
          /\ low[n] <= n /\ n <= high[n] /\ high[n] <= max
          /\ IsCond(nd, n) =>
                /\ nd[n].left \in DOMAIN nd /\ nd[n].right \in DOMAIN nd
                /\ low[n] <= low[nd[n].left] /\ high[nd[n].left] < n
                /\ n < low[nd[n].right] /\ high[nd[n].right] <= high[n]
          /\ low[n] >= 1 /\ NodeFits(nd, n, low, high)
      BY <2>1 DEF Forest, Shaped
    <3>2. nd2[n] = nd[n] /\ low2[n] = low[n] /\ high2[n] = high[n]
      BY <1>1, <2>1
    <3>3. NodeFits(nd2, n, low2, high2)
      BY <3>1, <3>2 DEF NodeFits
    <3>4. IsCond(nd2, n) =>
                   /\ nd2[n].left \in DOMAIN nd2 /\ nd2[n].right \in DOMAIN nd2
                   /\ low2[n] <= low2[nd2[n].left] /\ high2[nd2[n].left] < n
                   /\ n < low2[nd2[n].right] /\ high2[nd2[n].right] <= high2[n]
      BY <1>1, <3>1, <3>2 DEF IsCond
    <3> QED BY <3>1, <3>2, <3>3, <3>4
  <2>2. CASE n = made /\ IsPredicate(new, made, lo, hi)
    <3>1. NodeFits(nd2, n, low2, high2)
      BY <1>1, <2>2 DEF NodeFits
    <3>2. ~IsCond(nd2, n)
      BY <1>1, <2>2 DEF IsCond, IsPredicate
    <3>3. max \in Nat
      BY DEF Forest
    <3> QED BY <1>1, <2>2, <3>1, <3>2, <3>3
  <2>3. ASSUME n = made, NEW l \in DOMAIN nd, NEW r \in DOMAIN nd, NEW op,
               new = [t |-> "N_COND", left |-> l, op |-> op, right |-> r],
               lo <= low[l], high[l] < made, made < low[r], high[r] <= hi
        PROVE  /\ IsCond(nd2, n) =>
                   /\ nd2[n].left \in DOMAIN nd2 /\ nd2[n].right \in DOMAIN nd2
                   /\ low2[n] <= low2[nd2[n].left] /\ high2[nd2[n].left] < n
                   /\ n < low2[nd2[n].right] /\ high2[nd2[n].right] <= high2[n]
               /\ NodeFits(nd2, n, low2, high2)
    <3>0. IsCondition(new)
      BY <2>3 DEF IsCondition
    <3>1. NodeFits(nd2, n, low2, high2)
      BY <1>1, <2>3, <3>0 DEF NodeFits
    <3>2. nd2[n].left = l /\ nd2[n].right = r
      BY <1>1, <2>3
    <3>3. low2[l] = low[l] /\ high2[l] = high[l] /\ low2[r] = low[r] /\ high2[r] = high[r] /\ l \in DOMAIN nd2 /\ r \in DOMAIN nd2
      BY <1>1
    <3> QED BY <1>1, <2>3, <3>1, <3>2, <3>3
  <2>4. ASSUME n = made PROVE n \in Nat /\ low2[n] \in Nat /\ high2[n] \in Nat /\ low2[n] <= n /\ n <= high2[n] /\ high2[n] <= max
                            /\ low2[n] >= 1
    BY <1>1, <2>4
  <2> QED BY <1>1, <2>1, <2>2, <2>3, <2>4
<1>4. max \in Nat
  BY DEF Forest
<1> QED BY <1>2, <1>3, <1>4 DEF Forest, Shaped

(* A condition among the symbols of a right-hand side makes the left-hand side one. *)
LEMMA CondRules ==
    ASSUME NEW rule \in 1..34
    PROVE  lhs[rule + 1] = 35 \/ \A i \in 1..nrhs[rule + 1] : rightSides[rule][i] # 35
<1>1. CASE rule \in 7..13
  BY <1>1 DEF lhs
<1>2. CASE rule \in 1..6
  BY <1>2 DEF nrhs, rightSides
<1>3. CASE rule \in 14..19
  BY <1>3 DEF nrhs, rightSides
<1>4. CASE rule \in 20..22
  <2>1. nrhs[rule + 1] = 3
    BY <1>4 DEF nrhs
  <2>2. rightSides[rule][1] # 35 /\ rightSides[rule][2] # 35 /\ rightSides[rule][3] # 35
    BY <1>4 DEF rightSides
  <2>3. \A i \in 1..3 : i = 1 \/ i = 2 \/ i = 3
    OBVIOUS
  <2> QED BY <2>1, <2>2, <2>3
<1>5. CASE rule \in 23..26
  <2>1. nrhs[rule + 1] = 1
    BY <1>5 DEF nrhs
  <2>2. rightSides[rule][1] # 35
    BY <1>5 DEF rightSides
  <2>3. \A i \in 1..1 : i = 1
    OBVIOUS
  <2> QED BY <2>1, <2>2, <2>3
<1>6. CASE rule \in 27..28
  <2>1. nrhs[rule + 1] = 4
    BY <1>6 DEF nrhs
  <2>2. rightSides[rule][1] # 35 /\ rightSides[rule][2] # 35 /\ rightSides[rule][3] # 35 /\ rightSides[rule][4] # 35
    BY <1>6 DEF rightSides
  <2>3. \A i \in 1..4 : i = 1 \/ i = 2 \/ i = 3 \/ i = 4
    OBVIOUS
  <2> QED BY <2>1, <2>2, <2>3
<1>7. CASE rule \in 29..30
  <2>1. nrhs[rule + 1] = 6
    BY <1>7 DEF nrhs
  <2>2. rightSides[rule][1] # 35 /\ rightSides[rule][2] # 35 /\ rightSides[rule][3] # 35 /\ rightSides[rule][4] # 35 /\ rightSides[rule][5] # 35 /\ rightSides[rule][6] # 35
    BY <1>7 DEF rightSides
  <2>3. \A i \in 1..6 : i = 1 \/ i = 2 \/ i = 3 \/ i = 4 \/ i = 5 \/ i = 6
    OBVIOUS
  <2> QED BY <2>1, <2>2, <2>3
<1>8. CASE rule \in 31..34
  <2>1. nrhs[rule + 1] = 4
    BY <1>8 DEF nrhs
  <2>2. rightSides[rule][1] # 35 /\ rightSides[rule][2] # 35 /\ rightSides[rule][3] # 35 /\ rightSides[rule][4] # 35
    BY <1>8 DEF rightSides
  <2>3. \A i \in 1..4 : i = 1 \/ i = 2 \/ i = 3 \/ i = 4
    OBVIOUS
  <2> QED BY <2>1, <2>2, <2>3
<1> QED BY <1>1, <1>2, <1>3, <1>4, <1>5, <1>6, <1>7, <1>8

(* No node stands at a word whose symbol is not a condition. *)
LEMMA Fresh ==
    ASSUME NEW s, NEW ends, NEW nd, NEW low, NEW high, NEW lo, NEW hi, NEW max,
           Pictured(s, ends, nd, low, high, lo, hi), Forest(nd, low, high, max),
           NEW j \in 2..Len(s), s[j].major # 35, NEW made \in Nat, ends[j - 1] + 1 <= made, made <= ends[j]
    PROVE  made \notin DOMAIN nd
<1>1. Len(s) \in Nat
  BY DEF Pictured, IsList
<1>2. (\A i \in 1..Len(s) : ends[i] \in Nat) /\ \A i \in 2..Len(s) : ends[i - 1] <= ends[i]
  BY DEF Pictured
<1>3. j \in 1..Len(s) /\ j - 1 \in 1..Len(s) /\ 1 \in 1..Len(s) /\ 1 <= j - 1
  BY <1>1
<1>4. lo <= ends[j - 1] /\ lo \in Nat
  BY <1>1, <1>2, <1>3, Rising DEF Pictured
<1>5. ends[j - 1] \in Nat /\ ends[j] \in Nat
  BY <1>2, <1>3
<1> SUFFICES ASSUME made \in DOMAIN nd PROVE FALSE
  OBVIOUS
<1>6. ~(made <= lo)
  BY <1>4, <1>5
<1>7. Home(made, s, ends, low, high)
  BY <1>6 DEF Pictured
<1>8. PICK i \in 2..Len(s) : s[i].major = 35 /\ ends[i - 1] + 1 <= low[made] /\ high[made] <= ends[i]
  BY <1>7 DEF Home
<1>9. low[made] \in Nat /\ high[made] \in Nat /\ low[made] <= made /\ made <= high[made]
  BY DEF Forest, Shaped
<1>10. i \in 1..Len(s) /\ i - 1 \in 1..Len(s) /\ ends[i] \in Nat /\ ends[i - 1] \in Nat
  BY <1>1, <1>2
<1>11. i # j
  BY <1>8
<1>12. CASE i < j
  <2>1. i <= j - 1
    BY <1>1, <1>12
  <2>2. ends[i] <= ends[j - 1]
    BY <1>1, <1>2, <1>3, <1>10, <2>1, Rising
  <2>3. PICK x, y, z : x = ends[i] /\ y = ends[j - 1] /\ z = high[made]
    OBVIOUS
  <2> QED BY <1>5, <1>8, <1>9, <1>10, <2>2, <2>3, SMTT(30)
<1>13. CASE j < i
  <2>1. j <= i - 1
    BY <1>1, <1>13
  <2>2. ends[j] <= ends[i - 1]
    BY <1>1, <1>2, <1>3, <1>10, <2>1, Rising
  <2> QED BY <1>5, <1>8, <1>9, <1>10, <2>2
<1> QED BY <1>1, <1>11, <1>12, <1>13

(* What the rules that make no node carry over.                            *)
LEMMA PlainMinor ==
    ASSUME NEW rule \in 1..34, rule \notin MakesNode, NEW rhs, NEW a, NEW nd, NEW low, NEW high,
           SideFits(rule, rhs, a, nd, low, high), \A n \in DOMAIN nd : low[n] \in Nat /\ high[n] \in Nat
    PROVE  MinorFits(rule, rhs, a, nd, low, high)
<1>1. rule \in 1..6 \/ rule \in 14..18 \/ rule \in {23, 24} \/ rule \in {25, 26} \/ rule \in {27, 28} \/ rule \in {29, 30}
        \/ rule \in 31..34 \/ rule = 11 \/ rule = 19 \/ rule = 20 \/ rule = 21 \/ rule = 22
  BY DEF MakesNode
<1>2. CASE rule \in 1..6
  BY <1>2, OperatorMinor
<1>3. CASE rule \in 14..18
  BY <1>3, LiteralMinor
<1>4. CASE rule \in {23, 24}
  BY <1>4, PropertyMinor
<1>5. CASE rule \in {25, 26}
  BY <1>5, TimeMinor
<1>6. CASE rule \in {27, 28}
  BY <1>6, FunctionMinor
<1>7. CASE rule \in {29, 30}
  BY <1>7, ShiftedMinor
<1>8. CASE rule \in 31..34
  BY <1>8, UnitMinor
<1>9. CASE rule = 11
  BY <1>9, ParenthesisMinor
<1>10. CASE rule = 19
  BY <1>10, TimeValueMinor
<1>11. CASE rule = 20
  BY <1>11, ListMinor
<1>12. CASE rule = 21
  BY <1>12, PairMinor
<1>13. CASE rule = 22
  BY <1>13, MoreMinor
<1> QED BY <1>1, <1>2, <1>3, <1>4, <1>5, <1>6, <1>7, <1>8, <1>9, <1>10, <1>11, <1>12, <1>13

(* Where the nodes are whose symbols a rule takes from the stack. *)
LEMMA Moved ==
    ASSUME NEW s, NEW ends, NEW nd, NEW low, NEW high, NEW lo, NEW hi, NEW max,
           Pictured(s, ends, nd, low, high, lo, hi), Forest(nd, low, high, max),
           NEW rule \in 1..34, NEW n \in 1..6, Handled(s, rule, n), NEW k, k = Len(s) - n,
           NEW m \in DOMAIN nd
    PROVE  Carried(m, s, ends, low, high, lo, hi, k, lhs[rule + 1])
<1>1. Len(s) \in Nat /\ n < Len(s) /\ n = nrhs[rule + 1]
  BY DEF Pictured, IsList, Handled
<1>2. (\A i \in 1..Len(s) : ends[i] \in Nat) /\ (\A i \in 2..Len(s) : ends[i - 1] <= ends[i]) /\ ends[Len(s)] = hi
  BY DEF Pictured
<1>3. k \in 1..Len(s) /\ Len(s) \in 1..Len(s)
  BY <1>1
<1> SUFFICES ASSUME NEW i \in 2..Len(s), s[i].major = 35, ends[i - 1] + 1 <= low[m], high[m] <= ends[i], ~(i <= k)
             PROVE  lhs[rule + 1] = 35 /\ ends[k] + 1 <= low[m] /\ high[m] <= hi
  <2>1. m <= lo \/ Home(m, s, ends, low, high)
    BY DEF Pictured
  <2>2. \A i \in 2..Len(s) : i <= k => i \in 2..k
    BY <1>3
  <2> QED BY <2>1, <2>2 DEF Home, Carried
<1>4. i - k \in 1..n /\ Len(s) - n + (i - k) = i
  <2>1. PICK length : length = Len(s)
    OBVIOUS
  <2>2. length \in Nat /\ k = length - n /\ i \in 2..length /\ ~(i <= k) /\ n \in 1..6
    BY <1>1, <2>1
  <2>3. i - k \in 1..n /\ length - n + (i - k) = i
    BY <2>2
  <2> QED BY <2>1, <2>3
<1>5. rightSides[rule][i - k] = 35
  <2>1. PICK j : j = i - k
    OBVIOUS
  <2>2. s[i].major = rightSides[rule][j]
    BY <1>4, <2>1 DEF Handled
  <2> QED BY <2>1, <2>2
<1>6. lhs[rule + 1] = 35
  BY <1>1, <1>4, <1>5, CondRules
<1>7. k <= i - 1 /\ i - 1 \in 1..Len(s) /\ i \in 1..Len(s) /\ i <= Len(s)
  <2>1. PICK length : length = Len(s)
    OBVIOUS
  <2>2. length \in Nat /\ k \in 1..length /\ i \in 2..length /\ ~(i <= k)
    BY <1>1, <1>3, <2>1
  <2>3. k <= i - 1 /\ i - 1 \in 1..length /\ i \in 1..length /\ i <= length
    BY <2>2
  <2> QED BY <2>1, <2>3
<1>8. ends[k] <= ends[i - 1] /\ ends[i] <= hi
  BY <1>1, <1>2, <1>3, <1>7, Rising
<1>9. /\ ends[k] \in Nat /\ ends[i - 1] \in Nat /\ ends[i] \in Nat /\ hi \in Nat
      /\ low[m] \in Nat /\ high[m] \in Nat
  BY <1>2, <1>3, <1>7 DEF Forest, Shaped
<1>10. ends[k] + 1 <= low[m]
  <2>1. PICK x, y, z : x = ends[k] /\ y = ends[i - 1] /\ z = low[m]
    OBVIOUS
  <2>2. x \in Nat /\ y \in Nat /\ z \in Nat /\ x <= y /\ y + 1 <= z
    BY <1>8, <1>9, <2>1, Zenon
  <2>3. x + 1 <= z
    BY <2>2
  <2> QED BY <2>1, <2>3, Zenon
<1>11. high[m] <= hi
  <2>1. PICK x, y : x = high[m] /\ y = ends[i]
    OBVIOUS
  <2>2. x \in Nat /\ y \in Nat /\ x <= y /\ y <= hi
    BY <1>8, <1>9, <2>1, Zenon
  <2>3. x <= hi
    BY <1>9, <2>2
  <2> QED BY <2>1, <2>3, Zenon
<1> QED BY <1>6, <1>10, <1>11

(* The nodes after a reduction. *)
NodesAfter(nd, rule, rhs) ==
    IF rule \in MakesNode THEN Grown(DOMAIN nd, nd, Minor(rule, rhs).at, NewNode(rule, rhs)) ELSE nd

Entered(s, n, rule) ==
    [stateno |-> FindReduceAction(s[Len(s) - n].stateno, lhs[rule + 1]),
     major |-> lhs[rule + 1], minor |-> Minor(rule, RightHand(s, n))]

(* What a reduction needs of the tables it leaves, for the stack to be     *)
(* pictured again.                                                         *)
LEMMA Reentered ==
    ASSUME NEW s, NEW ends, NEW nd, NEW low, NEW high, NEW lo, NEW hi, NEW max,
           Pictured(s, ends, nd, low, high, lo, hi), Forest(nd, low, high, max),
           NEW rule \in 1..34, NEW n \in 1..6, Handled(s, rule, n), NEW k, k = Len(s) - n,
           NEW nd2, NEW low2, NEW high2, Keeps(nd, low, high, nd2, low2, high2),
           Fits(lhs[rule + 1], Minor(rule, RightHand(s, n)), ends[k] + 1, hi, nd2, low2, high2),
           \A m \in DOMAIN nd2 : \/ m \in DOMAIN nd
                                 \/ lhs[rule + 1] = 35 /\ ends[k] + 1 <= low2[m] /\ high2[m] <= hi
    PROVE  \E ends2 : Pictured(Append(SubSeq(s, 1, k), Entered(s, n, rule)), ends2, nd2, low2, high2, lo, hi)
<1>1. Len(s) \in Nat /\ n < Len(s) /\ n = nrhs[rule + 1]
  BY DEF Pictured, IsList, Handled
<1>2. (\A i \in 1..Len(s) : ends[i] \in Nat) /\ (\A i \in 2..Len(s) : ends[i - 1] <= ends[i]) /\ ends[Len(s)] = hi
  BY DEF Pictured
<1>3. k \in 1..Len(s) /\ Len(s) \in 1..Len(s) /\ k <= Len(s)
  BY <1>1
<1>4. ends[k] <= hi /\ hi \in Nat
  BY <1>1, <1>2, <1>3, Rising
<1>5. PICK e : e = Entered(s, n, rule)
  OBVIOUS
<1>6. e.stateno = FindReduceAction(s[k].stateno, e.major) /\ e.major = lhs[rule + 1] /\ e.minor = Minor(rule, RightHand(s, n))
  BY <1>5 DEF Entered
<1>7. e.stateno \in 1..77 /\ e.major = entered[e.stateno] /\ s[k].stateno \in beneath[e.stateno]
  <2>1. Leads(s[k].stateno, lhs[rule + 1])
    BY DEF Handled
  <2> QED BY <2>1, <1>6 DEF Leads
<1>8. Fits(e.major, e.minor, ends[k] + 1, hi, nd2, low2, high2)
  BY <1>6
<1>9. ASSUME NEW m \in DOMAIN nd2
      PROVE  Carried(m, s, ends, low2, high2, lo, hi, k, e.major)
  <2>1. CASE m \in DOMAIN nd
    <3>1. Carried(m, s, ends, low, high, lo, hi, k, lhs[rule + 1])
      BY <2>1, Moved
    <3>2. low2[m] = low[m] /\ high2[m] = high[m]
      BY <2>1 DEF Keeps
    <3> QED BY <1>6, <2>1, <3>1, <3>2 DEF Carried
  <2>2. CASE m \notin DOMAIN nd
    BY <1>6, <2>2 DEF Carried
  <2> QED BY <2>1, <2>2
<1>10. \E ends2 : Pictured(Append(SubSeq(s, 1, k), e), ends2, nd2, low2, high2, lo, hi)
  BY <1>3, <1>4, <1>7, <1>8, <1>9, Repictured
<1> QED BY <1>5, <1>10

IsReduced(s2, nd2, nd, low, high, lo, hi, max) ==
    \E ends2, low2, high2 : /\ Forest(nd2, low2, high2, max) /\ Keeps(nd, low, high, nd2, low2, high2)
                            /\ Pictured(s2, ends2, nd2, low2, high2, lo, hi)

(* yy_reduce keeps the picture of the stack and of the trees.              *)
LEMMA Reduced ==
    ASSUME NEW s, NEW ends, NEW nd, NEW low, NEW high, NEW lo, NEW hi, NEW max,
           Pictured(s, ends, nd, low, high, lo, hi), Forest(nd, low, high, max), hi <= max,
           NEW rule \in 1..34, NEW n \in 1..6, Handled(s, rule, n), NEW k, k = Len(s) - n,
           NEW nd2, nd2 = NodesAfter(nd, rule, RightHand(s, n))
    PROVE  IsReduced(Append(SubSeq(s, 1, k), Entered(s, n, rule)), nd2, nd, low, high, lo, hi, max)
<1> DEFINE rhs == RightHand(s, n)
           a == Ends(s, ends, n)
<1>1. Len(s) \in Nat /\ n < Len(s) /\ n = nrhs[rule + 1]
  BY DEF Pictured, IsList, Handled
<1>2. (\A i \in 1..Len(s) : ends[i] \in Nat) /\ (\A i \in 2..Len(s) : ends[i - 1] <= ends[i]) /\ ends[Len(s)] = hi
  BY DEF Pictured
<1>3. SideFits(rule, rhs, a, nd, low, high)
  BY SideOf
<1>4. /\ a[0] = ends[k] /\ a[n] = hi
      /\ \A i \in 0..n : a[i] = ends[k + i] /\ a[i] \in Nat
  <2>1. PICK length : length = Len(s) /\ length \in Nat /\ n \in 1..6 /\ n < length /\ k = length - n
    BY <1>1
  <2>2. /\ 0 \in 0..n /\ n \in 0..n /\ k + 0 = k /\ k + n = length
        /\ \A i \in 0..n : k + i \in 1..length
    BY <2>1
  <2>3. \A i \in 0..n : a[i] = ends[k + i]
    BY <2>1 DEF Ends
  <2> HIDE DEF a
  <2>4. \A i \in 0..n : ends[k + i] \in Nat
    BY <1>2, <2>1, <2>2
  <2>5. a[0] = ends[k] /\ a[n] = ends[length]
    BY <2>2, <2>3
  <2> QED BY <1>2, <2>1, <2>3, <2>4, <2>5
<1>5. \A m \in DOMAIN nd : low[m] \in Nat /\ high[m] \in Nat
  BY DEF Forest, Shaped
<1>6. hi \in Nat /\ max \in Nat
  BY <1>1, <1>2 DEF Forest
<1>7. CASE rule \notin MakesNode
  <2>1. MinorFits(rule, rhs, a, nd, low, high)
    <3> HIDE DEF rhs, a
    <3> QED BY <1>3, <1>5, <1>7, PlainMinor
  <2>2. Fits(lhs[rule + 1], Minor(rule, RightHand(s, n)), ends[k] + 1, hi, nd, low, high)
    BY <1>1, <1>4, <2>1 DEF MinorFits
  <2>3. nd2 = nd
    BY <1>7 DEF NodesAfter
  <2>4. Keeps(nd, low, high, nd, low, high)
    BY DEF Keeps
  <2>5. \E ends2 : Pictured(Append(SubSeq(s, 1, k), Entered(s, n, rule)), ends2, nd, low, high, lo, hi)
    BY <2>2, <2>4, Reentered
  <2> QED BY <2>3, <2>4, <2>5 DEF IsReduced
<1>8. ASSUME rule \in MakesNode, lhs[rule + 1] = 35, NEW j \in 1..n, rightSides[rule][j] # 35,
             Minor(rule, rhs) = [at |-> a[j]], a[0] + 1 <= a[j - 1] + 1, a[j - 1] + 1 <= a[j], a[j] <= a[n],
             \/ IsPredicate(NewNode(rule, rhs), a[j], a[0] + 1, a[n])
             \/ \E l \in DOMAIN nd, r \in DOMAIN nd : \E op :
                   /\ NewNode(rule, rhs) = [t |-> "N_COND", left |-> l, op |-> op, right |-> r]
                   /\ a[0] + 1 <= low[l] /\ high[l] < a[j] /\ a[j] < low[r] /\ high[r] <= a[n]
      PROVE  IsReduced(Append(SubSeq(s, 1, k), Entered(s, n, rule)), nd2, nd, low, high, lo, hi, max)
  <2>1. PICK made : made = a[j]
    OBVIOUS
  <2>2. PICK new : new = NewNode(rule, rhs)
    OBVIOUS
  <2>3. PICK low2 : low2 = Grown(DOMAIN nd, low, made, a[0] + 1)
    OBVIOUS
  <2>4. PICK high2 : high2 = Grown(DOMAIN nd, high, made, a[n])
    OBVIOUS
  <2>5. nd2 = Grown(DOMAIN nd, nd, made, new)
    <3>1. Minor(rule, rhs).at = made
      BY <1>8, <2>1
    <3> QED BY <1>8, <2>2, <3>1 DEF NodesAfter
  <2>6. /\ a[0] \in Nat /\ a[j] \in Nat /\ a[n] \in Nat /\ a[j - 1] \in Nat
        /\ a[j] = ends[k + j] /\ a[j - 1] = ends[k + j - 1]
    <3>1. 0 \in 0..n /\ n \in 0..n /\ j \in 0..n /\ j - 1 \in 0..n
      OBVIOUS
    <3>2. k + (j - 1) = k + j - 1
      BY <1>1
    <3> HIDE DEF a
    <3> QED BY <1>4, <3>1, <3>2
  <2>7. made \notin DOMAIN nd
    <3>1. PICK i : i = k + j
      OBVIOUS
    <3>2. i \in 2..Len(s) /\ i = Len(s) - n + j
      BY <1>1, <3>1
    <3>3. s[i].major # 35
      BY <1>8, <3>2 DEF Handled
    <3>4. made \in Nat /\ ends[i - 1] + 1 <= made /\ made <= ends[i]
      <4> HIDE DEF a
      <4> QED BY <1>8, <2>1, <2>6, <3>1
    <3> QED BY <3>2, <3>3, <3>4, Fresh
  <2> HIDE DEF rhs, a
  <2>8. /\ a[0] + 1 \in Nat /\ made \in Nat /\ 1 <= a[0] + 1 /\ a[0] + 1 <= made /\ made <= a[n] /\ a[n] <= max
    <3>1. a[0] + 1 <= a[j - 1] + 1 /\ a[j - 1] + 1 <= a[j] /\ a[j] <= a[n]
      BY <1>8
    <3>2. a[n] <= max
      BY <1>4
    <3>3. PICK a0, aj, b : a0 = a[0] /\ aj = a[j] /\ b = a[j - 1]
      OBVIOUS
    <3>4. a0 \in Nat /\ aj \in Nat /\ b \in Nat /\ a0 + 1 <= b + 1 /\ b + 1 <= aj
      BY <2>6, <3>1, <3>3
    <3>5. a0 + 1 \in Nat /\ 1 <= a0 + 1 /\ a0 + 1 <= aj
      BY <3>4
    <3> QED BY <2>1, <2>6, <3>1, <3>2, <3>3, <3>5
  <2>9. \/ IsPredicate(new, made, a[0] + 1, a[n])
        \/ \E l \in DOMAIN nd, r \in DOMAIN nd : \E op :
              /\ new = [t |-> "N_COND", left |-> l, op |-> op, right |-> r]
              /\ a[0] + 1 <= low[l] /\ high[l] < made /\ made < low[r] /\ high[r] <= a[n]
    BY <1>8, <2>1, <2>2
  <2>10. Forest(nd2, low2, high2, max) /\ Keeps(nd, low, high, nd2, low2, high2)
    BY <2>3, <2>4, <2>5, <2>6, <2>7, <2>8, <2>9, Grows
  <2>11. DOMAIN nd2 = DOMAIN nd \cup {made} /\ low2[made] = a[0] + 1 /\ high2[made] = a[n]
    BY <2>3, <2>4, <2>5 DEF Grown
  <2>12. Fits(35, [at |-> made], ends[k] + 1, hi, nd2, low2, high2)
    <3>1. /\ made \in DOMAIN nd2 /\ ends[k] + 1 <= low2[made] /\ high2[made] <= hi
      BY <1>4, <1>6, <2>6, <2>11
    <3> QED BY <3>1 DEF Fits
  <2>13. Fits(lhs[rule + 1], Minor(rule, RightHand(s, n)), ends[k] + 1, hi, nd2, low2, high2)
    BY <1>8, <2>1, <2>12 DEF rhs
  <2>14. \A m \in DOMAIN nd2 : \/ m \in DOMAIN nd
                               \/ lhs[rule + 1] = 35 /\ ends[k] + 1 <= low2[m] /\ high2[m] <= hi
    <3>1. ends[k] + 1 <= low2[made] /\ high2[made] <= hi
      BY <1>4, <1>6, <2>6, <2>11
    <3> QED BY <1>8, <2>11, <3>1
  <2>15. \E ends2 : Pictured(Append(SubSeq(s, 1, k), Entered(s, n, rule)), ends2, nd2, low2, high2, lo, hi)
    BY <2>10, <2>13, <2>14, Reentered
  <2> QED BY <2>10, <2>15 DEF IsReduced
<1>9. CASE rule \in 7..10
  <2> HIDE DEF rhs, a
  <2>1. /\ nrhs[rule + 1] = 3 /\ lhs[rule + 1] = 35 /\ rightSides[rule][1] = 37
        /\ a[0] + 1 <= a[1] /\ a[1] <= a[3]
        /\ Minor(rule, rhs) = [at |-> a[1]]
        /\ IsPredicate(NewNode(rule, rhs), a[1], a[0] + 1, a[3])
    BY <1>3, <1>9, PredicateNode
  <2>2. n = 3 /\ 1 \in 1..n /\ 1 - 1 = 0 /\ a[0] \in Nat /\ a[0] + 1 <= a[1 - 1] + 1 /\ a[1 - 1] + 1 <= a[1] /\ rule \in MakesNode
    BY <1>1, <1>4, <1>9, <2>1, SMTT(30) DEF MakesNode
  <2> QED BY <1>8, <2>1, <2>2
<1>10. CASE rule \in {12, 13}
  <2> HIDE DEF rhs, a
  <2>1. /\ nrhs[rule + 1] = 3 /\ lhs[rule + 1] = 35
           /\ rightSides[rule][1] = 35 /\ rightSides[rule][2] \in 1..2 /\ rightSides[rule][3] = 35
           /\ a[0] <= a[1] /\ a[1] + 1 <= a[2] /\ a[2] <= a[3]
           /\ a[0] \in Nat /\ a[1] \in Nat /\ a[2] \in Nat /\ a[3] \in Nat
           /\ Minor(rule, rhs) = [at |-> a[2]]
    BY <1>3, <1>10, ConditionNode
  <2>2. PICK l, r, op :
                 /\ l \in DOMAIN nd /\ r \in DOMAIN nd
                 /\ NewNode(rule, rhs) = [t |-> "N_COND", left |-> l, op |-> op, right |-> r]
                 /\ rhs[1] = [at |-> l] /\ rhs[3] = [at |-> r]
                 /\ a[0] + 1 <= low[l] /\ high[l] <= a[1]
                 /\ a[2] + 1 <= low[r] /\ high[r] <= a[3]
    <3>1. Branches(NewNode(rule, rhs), rhs, a, nd, low, high)
      BY <1>3, <1>10, ConditionNode
    <3> QED BY <3>1 DEF Branches
  <2>3. n = 3 /\ 2 \in 1..n /\ 2 - 1 = 1 /\ a[0] + 1 <= a[2 - 1] + 1 /\ a[2 - 1] + 1 <= a[2] /\ rule \in MakesNode
          /\ rightSides[rule][2] # 35
    BY <1>1, <1>10, <2>1, SMTT(30) DEF MakesNode
  <2>4. high[l] < a[2] /\ a[2] < low[r] /\ high[r] <= a[n]
    <3>1. high[l] \in Nat /\ low[r] \in Nat
      BY <1>5, <2>2
    <3>2. high[l] <= a[1] /\ a[1] + 1 <= a[2] /\ a[2] + 1 <= low[r] /\ high[r] <= a[3] /\ a[1] \in Nat /\ a[2] \in Nat
      BY <2>1, <2>2
    <3> QED BY <2>3, <3>1, <3>2
  <2>5. \E l1 \in DOMAIN nd, r1 \in DOMAIN nd : \E op1 :
                   /\ NewNode(rule, rhs) = [t |-> "N_COND", left |-> l1, op |-> op1, right |-> r1]
                   /\ a[0] + 1 <= low[l1] /\ high[l1] < a[2] /\ a[2] < low[r1] /\ high[r1] <= a[n]
    BY <2>2, <2>4
  <2> QED BY <1>8, <2>1, <2>3, <2>5
<1>11. rule \in MakesNode => rule \in 7..10 \/ rule \in {12, 13}
  BY DEF MakesNode
<1> QED BY <1>7, <1>9, <1>10, <1>11

-----------------------------------------------------------------------------
(* The state of the parser: what the stack stands for has been read, up to *)
(* the token that is being parsed.                                         *)
Consumed == IF look \in 1..32 THEN Len(text) - 1 ELSE Len(text)

InStep ==
    \E low, high, ends :
        /\ Forest(node, low, high, Len(text))
        /\ stack # <<>> => Pictured(stack, ends, node, low, high, restart, Consumed)

ParseInv ==
    /\ text \in Seq(Range(Terminals))
    /\ restart \in Nat /\ restart <= Len(text)
    /\ look \in 0..32 \cup {YYNOCODE}
    /\ look # YYNOCODE => stack # <<>>
    /\ Len(stack) <= YYSTACKDEPTH
    /\ look \in 1..32 => Len(text) >= 1 /\ Last(text) = Terminals[look]
    /\ phase \in {"reading", "closing"} \/ (stack = <<>> /\ look = YYNOCODE)
    /\ phase \in {"reading", "closing"} => ctx.root = NoNode
    /\ ctx = [root |-> ctx.root, ok |-> ctx.ok]
    /\ ctx.root # NoNode => ctx.root \in DOMAIN node
    /\ InStep

(* The number of a word of the language.                                   *)
LEMMA Codes ==
    ASSUME NEW word \in Range(Terminals)
    PROVE  Code(word) \in 1..32 /\ Terminals[Code(word)] = word
<1>1. DOMAIN Terminals = 1..32
  BY DEF Terminals
<1>2. PICK n \in DOMAIN Terminals : Terminals[n] = word
  BY DEF Range
<1> QED BY <1>1, <1>2 DEF Code

(* Trees of a text are trees of a longer one.                              *)
LEMMA ForestUp ==
    ASSUME NEW nd, NEW low, NEW high, NEW max, Forest(nd, low, high, max), NEW max2 \in Nat, max <= max2
    PROVE  Forest(nd, low, high, max2)
BY DEF Forest, Shaped

(* The stack as it is when the parser is set up. *)
LEMMA SetUp ==
    ASSUME NEW nd, NEW low, NEW high, NEW max, Forest(nd, low, high, max), NEW e, e = Bottom
    PROVE  Pictured(<<e>>, [i \in 1..1 |-> max], nd, low, high, max, max)
<1>1. PICK s : s = <<e>>
  OBVIOUS
<1>2. PICK ends : ends = [i \in 1..1 |-> max]
  OBVIOUS
<1>3. s \in Seq({e}) /\ Len(s) = 1 /\ s[1] = e
  BY <1>1
<1>4. max \in Nat /\ \A n \in DOMAIN nd : n <= max
  BY DEF Forest, Shaped
<1>5. \A i \in 1..1 : ends[i] = max
  BY <1>2
<1>6. \A i \in 2..1 : FALSE
  OBVIOUS
<1>7. Linked(s) /\ s[1] = Bottom
  BY <1>3, <1>6 DEF Linked, Bottom
<1>8. Pictured(s, ends, nd, low, high, max, max)
  BY <1>3, <1>4, <1>5, <1>6, <1>7 DEF Pictured, IsList
<1> QED BY <1>1, <1>2, <1>8

Extends(T, S, t, w) == T \in Seq(S) /\ Len(T) = Len(t) + 1 /\ Last(T) = w /\ Len(t) \in Nat

(* A sequence with one element more.                                       *)
LEMMA Appended ==
    ASSUME NEW S, NEW t \in Seq(S), NEW w \in S
    PROVE  Extends(Append(t, w), S, t, w)
<1>1. /\ Append(t, w) \in Seq(S) /\ Len(Append(t, w)) = Len(t) + 1 /\ Len(t) \in Nat
      /\ Append(t, w)[Len(t) + 1] = w
  OBVIOUS
<1> QED BY <1>1 DEF Last, Extends

(* The invariant of the parser holds at first,                             *)
LEMMA ParseInit == ParserInit => ParseInv
<1> SUFFICES ASSUME ParserInit PROVE ParseInv
  OBVIOUS
<1> USE DEF ParserInit
<1>1. Forest(node, node, node, Len(text))
  BY DEF Forest, Shaped
<1>2. InStep
  BY <1>1 DEF InStep
<1>3. Len(stack) <= YYSTACKDEPTH
  BY ParserAssumption
<1> QED BY <1>2, <1>3 DEF ParseInv, YYNOCODE, NoNode

(* when a token is read,                                                   *)
LEMMA ParseToken ==
    ASSUME ParseInv, NEW word \in Range(Terminals), Token(word)
    PROVE  ParseInv'
<1> USE DEF Token, Reading, YYNOCODE
<1>1. /\ text' \in Seq(Range(Terminals)) /\ Len(text') = Len(text) + 1 /\ Last(text') = word /\ Len(text) \in Nat
  <2>1. text \in Seq(Range(Terminals))
    BY DEF ParseInv
  <2>2. text' = Append(text, word)
    BY Zenon DEF Token
  <2>3. Extends(Append(text, word), Range(Terminals), text, word)
    BY <2>1, Appended
  <2>4. Extends(text', Range(Terminals), text, word)
    BY <2>2, <2>3, Zenon
  <2> HIDE DEF Token
  <2> QED BY <2>4, Zenon DEF Extends
<1>2. look' \in 1..32 /\ Terminals[look'] = word /\ look' # 44
  <2>1. Code(word) \in 1..32 /\ Terminals[Code(word)] = word
    BY Codes
  <2>2. look' = Code(word)
    BY DEF Parse
  <2>3. PICK c : c = look'
    OBVIOUS
  <2>4. c \in 1..32 /\ Terminals[c] = word
    BY <2>1, <2>2, <2>3, Zenon
  <2>5. c # 44
    BY <2>4
  <2> QED BY <2>3, <2>4, <2>5, Zenon
<1>3. Consumed = Len(text) /\ Consumed' = Len(text)
  BY <1>1, <1>2 DEF Consumed
<1>4. PICK low, high, ends :
        /\ Forest(node, low, high, Len(text))
        /\ stack # <<>> => Pictured(stack, ends, node, low, high, restart, Consumed)
  BY DEF ParseInv, InStep
<1>5. Forest(node, low, high, Len(text'))
  BY <1>1, <1>4, ForestUp
<1>6. stack' # <<>> /\ restart' \in Nat /\ restart' <= Len(text') /\ InStep' /\ Len(stack') <= YYSTACKDEPTH
  <2>1. CASE stack = <<>>
    <3>1. stack' = <<[stateno |-> 0, major |-> 0, minor |-> [at |-> 0]]>> /\ restart' = Len(text)
      BY <2>1 DEF Parse
    <3>2. \E x : Pictured(stack', x, node, low, high, Len(text), Len(text))
      BY <1>4, <3>1, SetUp DEF Bottom
    <3>3. InStep'
      BY <1>3, <1>5, <3>1, <3>2 DEF InStep
    <3>4. Len(stack') = 1
      BY <3>1
    <3> QED BY <1>1, <3>1, <3>3, <3>4, ParserAssumption
  <2>2. CASE stack # <<>>
    <3>1. stack' = stack /\ restart' = restart
      BY <2>2 DEF Parse
    <3>2. InStep'
      BY <1>3, <1>4, <1>5, <2>2, <3>1 DEF InStep
    <3> QED BY <1>1, <2>2, <3>1, <3>2 DEF ParseInv
  <2> QED BY <2>1, <2>2
<1> QED BY <1>1, <1>2, <1>6 DEF ParseInv

(* when the text ends,                                                     *)
LEMMA ParseTextEnds ==
    ASSUME ParseInv, TextEnds
    PROVE  ParseInv'
<1> USE DEF TextEnds, Reading, YYNOCODE, EndOfText
<1>1. Len(text) \in Nat /\ text' = text /\ node' = node /\ ctx' = ctx
  BY DEF ParseInv
<1>2. look' = 0 /\ look' \notin 1..32
  BY DEF Parse
<1>3. Consumed = Len(text) /\ Consumed' = Len(text)
  BY <1>1, <1>2 DEF Consumed
<1>4. PICK low, high, ends :
        /\ Forest(node, low, high, Len(text))
        /\ stack # <<>> => Pictured(stack, ends, node, low, high, restart, Consumed)
  BY DEF ParseInv, InStep
<1>6. stack' # <<>> /\ restart' \in Nat /\ restart' <= Len(text') /\ InStep' /\ Len(stack') <= YYSTACKDEPTH
  <2>1. CASE stack = <<>>
    <3>1. stack' = <<[stateno |-> 0, major |-> 0, minor |-> [at |-> 0]]>> /\ restart' = Len(text)
      BY <2>1 DEF Parse
    <3>2. \E x : Pictured(stack', x, node, low, high, Len(text), Len(text))
      BY <1>4, <3>1, SetUp DEF Bottom
    <3>3. InStep'
      BY <1>1, <1>3, <1>4, <3>1, <3>2 DEF InStep
    <3>4. Len(stack') = 1
      BY <3>1
    <3> QED BY <1>1, <3>1, <3>3, <3>4, ParserAssumption
  <2>2. CASE stack # <<>>
    <3>1. stack' = stack /\ restart' = restart
      BY <2>2 DEF Parse
    <3>2. InStep'
      BY <1>1, <1>3, <1>4, <2>2, <3>1 DEF InStep
    <3> QED BY <1>1, <2>2, <3>1, <3>2 DEF ParseInv
  <2> QED BY <2>1, <2>2
<1> QED BY <1>1, <1>2, <1>6 DEF ParseInv

(* The parser at work: the state on top of the stack and what it does. *)
LEMMA AtWork ==
    ASSUME ParseInv, InParse
    PROVE  /\ look \in 0..32 /\ stack # <<>> /\ Len(stack) \in Nat /\ Len(stack) >= 1
           /\ Last(stack) = stack[Len(stack)]
           /\ stack[Len(stack)].stateno \in 0..77
           /\ IsList(stack) /\ Linked(stack)
           /\ Action = FindShiftAction(stack[Len(stack)].stateno, look)
<1>1. look \in 0..32 /\ stack # <<>>
  BY DEF ParseInv, InParse, YYNOCODE
<1>2. PICK low, high, ends : Pictured(stack, ends, node, low, high, restart, Consumed)
  BY <1>1 DEF ParseInv, InStep
<1>3. IsList(stack) /\ Linked(stack) /\ Len(stack) >= 1
  BY <1>2 DEF Pictured
<1>4. Len(stack) \in Nat /\ Last(stack) = stack[Len(stack)]
  BY <1>3 DEF IsList, Last
<1>5. stack[Len(stack)].stateno \in 0..77
  <2>1. PICK n : n = Len(stack)
    OBVIOUS
  <2>2. n = 1 \/ n \in 2..Len(stack)
    BY <1>3, <1>4, <2>1
  <2>3. stack[n].stateno \in 0..77
    BY <1>3, <1>4, <2>1, <2>2 DEF Linked
  <2> QED BY <2>1, <2>3
<1> QED BY <1>1, <1>3, <1>4, <1>5 DEF Action

(* What can be shifted, and where it leads.                                *)
LEMMA Shifts ==
    ASSUME ParseInv, InParse, Action < YYNSTATE
    PROVE  /\ look \in 1..32
           /\ Action \in 1..77 /\ entered[Action] = look /\ stack[Len(stack)].stateno \in beneath[Action]
<1>1. PICK t : t = stack[Len(stack)].stateno
  OBVIOUS
<1>2. t \in 0..77 /\ look \in 0..32 /\ Action = FindShiftAction(t, look)
  BY <1>1, AtWork
<1>3. Action \in 1..77 /\ entered[Action] = look /\ t \in beneath[Action]
  <2>1. IsAction(Action, t, look)
    BY <1>2, ShiftTable
  <2> QED BY <2>1 DEF IsAction, YYNSTATE
<1>4. PICK a : a = Action
  OBVIOUS
<1>5. look # 0
  <2>1. a \in 1..77
    BY <1>3, <1>4
  <2>2. entered[a] # 0
    BY <2>1 DEF entered
  <2> QED BY <1>3, <1>4, <2>2
<1>6. look \in 1..32
  BY <1>2, <1>5
<1> QED BY <1>1, <1>3, <1>6

(* The rule that is called for has its right-hand side on the stack.       *)
LEMMA Rules ==
    ASSUME ParseInv, InParse, Action - YYNSTATE \in 1..(YYNRULE - 1)
    PROVE  \E n \in {1, 3, 4, 6} : Action - YYNSTATE \in 1..34 /\ Handled(stack, Action - YYNSTATE, n)
<1>1. PICK t : t = stack[Len(stack)].stateno
  OBVIOUS
<1>2. t \in 0..77 /\ look \in 0..32 /\ Action = FindShiftAction(t, look)
  BY <1>1, AtWork
<1>3. IsAction(Action, t, look) /\ Action \in 0..113
  <2>1. IsAction(Action, t, look)
    BY <1>2, ShiftTable
  <2> QED BY <2>1 DEF IsAction
<1>4. PICK rule : rule = Action - YYNSTATE
  OBVIOUS
<1>5. rule \in 1..34 /\ Action = rule + 78 /\ Action \in 79..112
  <2>1. PICK a : a = Action
    OBVIOUS
  <2>2. a \in 0..113 /\ rule = a - 78 /\ rule \in 1..34
    BY <1>3, <1>4, <2>1 DEF YYNSTATE, YYNRULE
  <2>3. a = rule + 78 /\ a \in 79..112
    BY <2>2
  <2> QED BY <2>1, <2>2, <2>3
<1>6. (t = 17 /\ Action = 90) \/ (t >= 45 /\ Action = yy_default[t + 1])
  BY <1>3, <1>5 DEF IsAction
<1>7. Reduces(t, rule)
  BY <1>2, <1>5, <1>6 DEF Reduces, YYNSTATE
<1>8. \E n \in {1, 3, 4, 6} : Handled(stack, rule, n)
  BY <1>1, <1>7, AtWork, Handle
<1> QED BY <1>4, <1>5, <1>8

(* The invariant of the parser is kept by yy_shift,                        *)
LEMMA ParseShift ==
    ASSUME ParseInv, Shift
    PROVE  ParseInv'
<1> USE DEF Shift
<1>1. /\ look \in 1..32
      /\ Action \in 1..77 /\ entered[Action] = look /\ stack[Len(stack)].stateno \in beneath[Action]
  BY Shifts
<1>2. stack # <<>> /\ Len(stack) \in Nat /\ Len(stack) >= 1 /\ IsList(stack)
  BY AtWork
<1>3. PICK low, high, ends :
        /\ Forest(node, low, high, Len(text))
        /\ Pictured(stack, ends, node, low, high, restart, Consumed)
  BY <1>2 DEF ParseInv, InStep
<1>4. Len(text) \in Nat /\ Len(text) >= 1 /\ Last(text) = Terminals[look]
  BY <1>1 DEF ParseInv
<1>5. Consumed = Len(text) - 1 /\ Consumed' = Len(text) /\ look' = 44
  BY <1>1 DEF Consumed, YYNOCODE
<1>6. PICK k : k = Len(stack)
  OBVIOUS
<1>7. PICK e : e = [stateno |-> Action, major |-> look, minor |-> [word |-> Last(text), at |-> Len(text)]]
  OBVIOUS
<1>8. ends[k] = Len(text) - 1 /\ ends[k] + 1 = Len(text) /\ ends[k] <= Len(text) /\ ends[k] \in Nat /\ k \in 1..Len(stack)
  BY <1>2, <1>3, <1>4, <1>5, <1>6 DEF Pictured
<1>9. Fits(e.major, e.minor, ends[k] + 1, Len(text), node, low, high)
  <2>1. e.major = look /\ e.minor = [word |-> Terminals[look], at |-> Len(text)]
    BY <1>4, <1>7
  <2>2. Len(text) \in (ends[k] + 1)..Len(text)
    BY <1>4, <1>8
  <2>3. look # 36 /\ look # 37 /\ look # 38 /\ look \notin {39, 41} /\ look # 40 /\ look # 42 /\ look # 35
    BY <1>1
  <2> QED BY <2>1, <2>2, <2>3, Zenon DEF Fits
<1>10. Keeps(node, low, high, node, low, high)
  BY DEF Keeps
<1>11. ASSUME NEW n \in DOMAIN node PROVE Carried(n, stack, ends, low, high, restart, Len(text), k, e.major)
  <2>1. n <= restart \/ Home(n, stack, ends, low, high)
    BY <1>3 DEF Pictured
  <2> QED BY <1>6, <2>1 DEF Carried, Home
<1>12. \E ends2 : Pictured(Append(SubSeq(stack, 1, k), e), ends2, node, low, high, restart, Len(text))
  <2>1. e.stateno \in 1..77 /\ e.major = entered[e.stateno] /\ stack[k].stateno \in beneath[e.stateno]
    BY <1>1, <1>6, <1>7
  <2> QED BY <1>3, <1>4, <1>8, <1>9, <1>10, <1>11, <2>1, Repictured
<1>13. SubSeq(stack, 1, k) = stack
  BY <1>2, <1>6 DEF IsList
<1>14. stack' = Append(SubSeq(stack, 1, k), e)
  BY <1>7, <1>13 DEF Push
<1>15. InStep'
  BY <1>3, <1>5, <1>12, <1>14 DEF InStep
<1>16. stack' # <<>> /\ Len(stack') <= YYSTACKDEPTH
  <2>1. IsTopped(Append(SubSeq(stack, 1, k), e), stack, k, e)
    BY <1>2, <1>8, Topped
  <2>2. IsTopped(stack', stack, k, e)
    BY <1>14, <2>1
  <2>3. Len(stack') = Len(stack) + 1
    BY <1>6, <2>2 DEF IsTopped
  <2>4. Len(stack) # YYSTACKDEPTH /\ Len(stack) <= YYSTACKDEPTH
    BY DEF ParseInv
  <2> QED BY <1>2, <2>3, <2>4, ParserAssumption
<1> QED BY <1>4, <1>5, <1>15, <1>16 DEF ParseInv, YYNOCODE, InParse

(* by a syntax error and by an overflow of the stack,                      *)
LEMMA ParseDropped ==
    ASSUME ParseInv, StackOverflow \/ SyntaxError
    PROVE  ParseInv'
<1> USE DEF StackOverflow, SyntaxError, PopAll
<1>1. PICK low, high, ends : Forest(node, low, high, Len(text))
  BY DEF ParseInv, InStep
<1>2. stack' = <<>> /\ node' = node /\ text' = text /\ look' = YYNOCODE /\ restart' = restart
  OBVIOUS
<1>3. InStep'
  BY <1>1, <1>2 DEF InStep
<1>4. ctx' = [root |-> ctx'.root, ok |-> ctx'.ok] /\ ctx'.root = ctx.root
  BY DEF ParseInv
<1>5. phase' = phase \/ phase' = "parsed"
  OBVIOUS
<1>6. phase \in {"reading", "closing"}
  BY DEF ParseInv, InParse
<1>7. Len(stack') <= YYSTACKDEPTH
  BY <1>2, ParserAssumption
<1> QED BY <1>2, <1>3, <1>4, <1>5, <1>6, <1>7 DEF ParseInv, YYNOCODE

(* What yy_reduce makes of the stack, of the trees and of the heap.        *)
IsReduction(rule, n, low, high, ends) ==
    /\ Handled(stack, rule, n)
    /\ Forest(node, low, high, Len(text)) /\ Pictured(stack, ends, node, low, high, restart, Consumed)
    /\ node' = NodesAfter(node, rule, RightHand(stack, n))
    /\ stack' = Append(SubSeq(stack, 1, Len(stack) - n), Entered(stack, n, rule))
    /\ heap' = Alloc(NewBlocks(rule, RightHand(stack, n)))
    /\ IsReduced(stack', node', node, low, high, restart, Consumed, Len(text))

LEMMA Reduction ==
    ASSUME ParseInv, Reduce
    PROVE  \E rule \in 1..34, n \in {1, 3, 4, 6} : \E low, high, ends : IsReduction(rule, n, low, high, ends)
<1>1. InParse /\ Action - YYNSTATE \in 1..(YYNRULE - 1)
  BY DEF Reduce
<1>2. stack # <<>> /\ Len(stack) \in Nat /\ Len(stack) >= 1 /\ IsList(stack)
  BY <1>1, AtWork
<1>3. PICK rule : rule = Action - YYNSTATE
  OBVIOUS
<1>4. PICK n \in {1, 3, 4, 6} : rule \in 1..34 /\ Handled(stack, rule, n)
  BY <1>1, <1>3, Rules
<1>5. n \in 1..6 /\ n = nrhs[rule + 1] /\ n < Len(stack)
  BY <1>4 DEF Handled
<1>6. PICK k : k = Len(stack) - n
  OBVIOUS
<1>7. PICK low, high, ends :
        /\ Forest(node, low, high, Len(text))
        /\ Pictured(stack, ends, node, low, high, restart, Consumed)
  BY <1>2 DEF ParseInv, InStep
<1>8. Consumed <= Len(text) /\ Len(text) \in Nat
  BY DEF Consumed, ParseInv
<1>9. RightHand(stack, n) = [i \in 1..nrhs[rule + 1] |-> stack[Len(stack) - nrhs[rule + 1] + i].minor]
  BY <1>5 DEF RightHand
<1>10. node' = NodesAfter(node, rule, RightHand(stack, n))
  <2>1. rule \in {7, 8, 9, 10, 12, 13} <=> rule \in MakesNode
    BY DEF MakesNode
  <2> HIDE DEF MakesNode
  <2> QED BY <1>3, <1>9, <2>1 DEF Reduce, NodesAfter, Grown
<1>11. Last(SubSeq(stack, 1, k)) = stack[k]
  <2>1. k \in 1..Len(stack)
    BY <1>2, <1>5, <1>6
  <2> QED BY <1>2, <2>1, Topped DEF IsTopped
<1>12. stack' = Append(SubSeq(stack, 1, k), Entered(stack, n, rule))
  BY <1>3, <1>5, <1>6, <1>9, <1>11 DEF Reduce, Push, Entered
<1>13. IsReduced(stack', node', node, low, high, restart, Consumed, Len(text))
  BY <1>4, <1>5, <1>6, <1>7, <1>8, <1>10, <1>12, Reduced
<1>14. heap' = Alloc(NewBlocks(rule, RightHand(stack, n)))
  BY <1>3, <1>9 DEF Reduce
<1>15. IsReduction(rule, n, low, high, ends)
  BY <1>4, <1>6, <1>7, <1>10, <1>12, <1>13, <1>14 DEF IsReduction
<1> QED BY <1>4, <1>15

(* and by yy_reduce.                                                       *)
LEMMA ParseReduce ==
    ASSUME ParseInv, Reduce
    PROVE  ParseInv'
<1>1. InParse
  BY DEF Reduce
<1>2. stack # <<>> /\ Len(stack) \in Nat /\ Len(stack) >= 1 /\ IsList(stack)
  BY <1>1, AtWork
<1>3. PICK rule \in 1..34, n \in {1, 3, 4, 6} : \E low, high, ends : IsReduction(rule, n, low, high, ends)
  BY Reduction
<1>4. PICK low, high, ends : IsReduction(rule, n, low, high, ends)
  BY <1>3
<1>5. n \in 1..6 /\ n < Len(stack)
  BY <1>4 DEF IsReduction, Handled
<1>6. PICK k : k = Len(stack) - n
  OBVIOUS
<1>12. stack' = Append(SubSeq(stack, 1, k), Entered(stack, n, rule))
  BY <1>4, <1>6 DEF IsReduction
<1>13. PICK ends2, low2, high2 :
         /\ Forest(node', low2, high2, Len(text)) /\ Keeps(node, low, high, node', low2, high2)
         /\ Pictured(stack', ends2, node', low2, high2, restart, Consumed)
  BY <1>4 DEF IsReduction, IsReduced
<1>14. text' = text /\ look' = look /\ restart' = restart /\ Consumed' = Consumed /\ phase' = phase /\ ctx' = ctx
  BY DEF Reduce, Consumed
<1>15. InStep'
  BY <1>13, <1>14 DEF InStep
<1>16. stack' # <<>>
  BY <1>13 DEF Pictured
<1>17. phase \in {"reading", "closing"}
  BY <1>1 DEF ParseInv, InParse
<1>18. ctx'.root = NoNode
  BY <1>14, <1>17 DEF ParseInv
<1>19. Len(stack') <= YYSTACKDEPTH
  <2>1. PICK e : e = Entered(stack, n, rule)
    OBVIOUS
  <2>2. k \in 1..Len(stack) /\ k + 1 <= Len(stack)
    BY <1>2, <1>5, <1>6
  <2>3. IsTopped(Append(SubSeq(stack, 1, k), e), stack, k, e)
    BY <1>2, <2>2, Topped
  <2>4. IsTopped(stack', stack, k, e)
    BY <1>12, <2>1, <2>3
  <2>5. Len(stack') = k + 1 /\ Len(stack) <= YYSTACKDEPTH
    BY <2>4 DEF IsTopped, ParseInv
  <2> QED BY <1>2, <2>2, <2>5, ParserAssumption
<1> QED BY <1>14, <1>15, <1>16, <1>17, <1>18, <1>19 DEF ParseInv, YYNOCODE

(* When the first rule is called for, the stack holds one tree and nothing *)
(* else.                                                                   *)
LEMMA Accepts ==
    ASSUME ParseInv, InParse, Action = YYNSTATE
    PROVE  /\ stack # <<>> /\ Len(stack) = 2 /\ Last(stack) = stack[2] /\ stack[1].stateno = 0 /\ stack[2].major = 35
           /\ \E n \in DOMAIN node : stack[2].minor = [at |-> n]
<1>1. InParse /\ Action = YYNSTATE
  OBVIOUS
<1>2. /\ look \in 0..32 /\ stack # <<>> /\ Len(stack) \in Nat /\ Len(stack) >= 1
      /\ Last(stack) = stack[Len(stack)] /\ IsList(stack) /\ Linked(stack)
  BY <1>1, AtWork
<1>3. stack[Len(stack)].stateno = 15
  <2>1. PICK t : t = stack[Len(stack)].stateno
    OBVIOUS
  <2>2. t \in 0..77 /\ Action = FindShiftAction(t, look)
    BY <1>1, <2>1, AtWork
  <2>3. t = 15
    <3>1. Action = 78
      BY <1>1 DEF YYNSTATE
    <3>2. IsAction(Action, t, look)
      BY <1>2, <2>2, ShiftTable
    <3> QED BY <3>1, <3>2 DEF IsAction
  <2> QED BY <2>1, <2>3
<1>4. Len(stack) - 1 \in 1..Len(stack) /\ stack[Len(stack)].major = 35 /\ stack[Len(stack) - 1].stateno = 0
  <2>1. Len(stack) \in 1..Len(stack) /\ 15 \in 1..77
    BY <1>2
  <2>2. Len(stack) - 1 \in 1..Len(stack) /\ stack[Len(stack)].major = entered[15]
        /\ stack[Len(stack) - 1].stateno \in beneath[15]
    <3>1. PICK i : i = Len(stack)
      OBVIOUS
    <3>2. i \in 1..Len(stack) /\ stack[i].stateno = 15 /\ stack[i].stateno \in 1..77
      BY <1>3, <2>1, <3>1
    <3>3. i - 1 \in 1..Len(stack) /\ stack[i].major = entered[stack[i].stateno] /\ stack[i - 1].stateno \in beneath[stack[i].stateno]
      BY <1>2, <3>2, Under1
    <3> QED BY <3>1, <3>2, <3>3
  <2>3. entered[15] = 35 /\ beneath[15] = {0}
    BY DEF entered, beneath
  <2> QED BY <2>2, <2>3
<1>5. Len(stack) = 2
  <2>1. PICK i : i = Len(stack) - 1
    OBVIOUS
  <2>2. i \in 1..Len(stack) /\ stack[i].stateno = 0
    BY <1>4, <2>1
  <2>3. i \notin 2..Len(stack)
    <3>1. 0 \notin 1..77
      OBVIOUS
    <3> QED BY <1>2, <2>2, <3>1 DEF Linked
  <2> QED BY <1>2, <2>1, <2>2, <2>3
<1>6. PICK low, high, ends :
        /\ Forest(node, low, high, Len(text))
        /\ Pictured(stack, ends, node, low, high, restart, Consumed)
  BY <1>2 DEF ParseInv, InStep
<1>7. Fits(35, stack[2].minor, ends[2 - 1] + 1, ends[2], node, low, high)
  BY <1>4, <1>5, <1>6 DEF Pictured
<1>8. PICK n \in DOMAIN node : stack[2].minor = [at |-> n]
  BY <1>7 DEF Fits
<1> QED BY <1>2, <1>4, <1>5, <1>8

(* The first rule hands over the one tree that is on the stack. *)
LEMMA ParseAccept ==
    ASSUME ParseInv, AcceptClause
    PROVE  ParseInv' /\ Len(stack) = 2 /\ stack[2].major = 35 /\ ctx'.root = stack[2].minor.at /\ ctx'.root \in DOMAIN node
<1>2. stack # <<>> /\ Len(stack) = 2 /\ Last(stack) = stack[2] /\ stack[2].major = 35
  BY Accepts DEF AcceptClause
<1>6. PICK low, high, ends :
        /\ Forest(node, low, high, Len(text))
        /\ Pictured(stack, ends, node, low, high, restart, Consumed)
  BY <1>2 DEF ParseInv, InStep
<1>8. PICK n \in DOMAIN node : stack[2].minor = [at |-> n]
  BY Accepts DEF AcceptClause
<1>9. ctx' = [root |-> n, ok |-> ctx.ok]
  <2>1. ctx' = [ctx EXCEPT !.root = n]
    BY <1>2, <1>8 DEF AcceptClause
  <2>2. ctx = [root |-> ctx.root, ok |-> ctx.ok]
    BY DEF ParseInv
  <2> QED BY <2>1, <2>2
<1>10. /\ stack' = <<>> /\ look' = YYNOCODE /\ phase' = "parsed"
       /\ text' = text /\ node' = node /\ restart' = restart
  BY DEF AcceptClause
<1>11. InStep'
  BY <1>6, <1>10 DEF InStep
<1>12. ParseInv'
  <2>1. Len(stack') <= YYSTACKDEPTH
    BY <1>10, ParserAssumption
  <2> QED BY <1>9, <1>10, <1>11, <2>1 DEF ParseInv, YYNOCODE
<1> QED BY <1>2, <1>8, <1>9, <1>12

(* What is below a node has its operands below the node, too.              *)
LEMMA BelowClosed ==
    ASSUME NEW tree, NEW low, NEW high, NEW max \in Nat, Shaped(tree, low, high, max)
    PROVE  \A k \in DOMAIN tree : \A n \in Below(tree, k) :
              IsCond(tree, n) => tree[n].left \in Below(tree, k) /\ tree[n].right \in Below(tree, k)
<1> DEFINE P(k) == \A n \in Below(tree, k) :
                      IsCond(tree, n) => tree[n].left \in Below(tree, k) /\ tree[n].right \in Below(tree, k)
           S == {k \in DOMAIN tree : P(k)}
<1>1. ASSUME NEW k \in DOMAIN tree, IsCond(tree, k) => tree[k].left \in S /\ tree[k].right \in S
      PROVE  k \in S
  <2>1. CASE ~IsCond(tree, k)
    <3>1. Below(tree, k) = {k}
      BY <2>1, BelowIs
    <3> QED BY <2>1, <3>1
  <2>2. CASE IsCond(tree, k)
    <3>1. PICK l, r : l = tree[k].left /\ r = tree[k].right
      OBVIOUS
    <3>2. P(l) /\ P(r) /\ l \in DOMAIN tree /\ r \in DOMAIN tree
      BY <2>2, <1>1, <3>1
    <3>3. Below(tree, k) = {k} \cup (Below(tree, l) \cup Below(tree, r))
      BY <2>2, <3>1, BelowIs
    <3>4. l \in Below(tree, l) /\ r \in Below(tree, r)
      BY <3>2, BelowFacts
    <3>5. ASSUME NEW n \in Below(tree, k), IsCond(tree, n)
          PROVE  tree[n].left \in Below(tree, k) /\ tree[n].right \in Below(tree, k)
      <4>1. CASE n = k
        BY <4>1, <3>1, <3>3, <3>4
      <4>2. CASE n \in Below(tree, l)
        BY <4>2, <3>2, <3>3, <3>5
      <4>3. CASE n \in Below(tree, r)
        BY <4>3, <3>2, <3>3, <3>5
      <4> QED BY <3>3, <4>1, <4>2, <4>3
    <3> QED BY <3>5
  <2> QED BY <2>1, <2>2
<1>2. \A n \in DOMAIN tree : n \in S
  <2> HIDE DEF S
  <2> QED BY <1>1, FromLeaves
<1> QED BY <1>2

-----------------------------------------------------------------------------
(* The query before it is normalised: its nodes are a tree, its values     *)
(* those of the text or a limit.                                           *)
QueryTypes == LiteralTypes \cup {"T_INF", "T_NEGINF"}

IsQueryValue(v) ==
    \/ \E type \in QueryTypes, p \in Nat : v = [type |-> type, at |-> p]
    \/ \E p \in Nat : \E shifts : v = [type |-> "T_TIME", at |-> p, shifts |-> shifts]

IsQueryCondition(q) ==
    \E left, right, op, propId :
        q = [t |-> "N_COND", left |-> left, right |-> right, op |-> op, propId |-> propId]

(* A predicate of a query, with the names of its parts.                    *)
IsPred(p, t, vals) ==
    \/ p = [t |-> t, vals |-> vals]
    \/ \E ends : p = [t |-> t, vals |-> vals, exclusive |-> ends]

(* What toQueryNode makes of a predicate.                                  *)
Converted(p, max) ==
    \E t \in {"PRED_RNG", "PRED_EQ", "PRED_IN", "PRED_ISNULL"} : \E vals :
        /\ IsPred(p, t, vals)
        /\ IsList(vals) /\ Len(vals) \in 1..max
        /\ t = "PRED_ISNULL" => vals = <<Null>>
        /\ t # "PRED_ISNULL" => \A i \in 1..Len(vals) : IsQueryValue(vals[i])

IsQueryPredicate(q, max) == \E propId, p : q = [t |-> "N_PRED", propId |-> propId, pred |-> p] /\ Converted(p, max)

IsQueryTree(nodes, max) ==
    /\ max \in Nat
    /\ \E low, high : Shaped(nodes, low, high, max)
    /\ \A n \in DOMAIN nodes : IsQueryCondition(nodes[n]) \/ IsQueryPredicate(nodes[n], max)

(* A value of the tree is one of the query.                                *)
LEMMA ToQueryValue ==
    ASSUME NEW v, NEW lo \in Nat, NEW hi \in Nat, IsValue(v, lo, hi)
    PROVE  IsQueryValue(v)
<1>1. lo..hi \subseteq Nat
  OBVIOUS
<1>2. LiteralTypes \subseteq QueryTypes
  BY DEF QueryTypes
<1> QED BY <1>1, <1>2 DEF IsValue, IsQueryValue

(* The open ends of a range are values of a query.                         *)
LEMMA Limits == IsQueryValue(Inf) /\ IsQueryValue(NegativeInf)
<1>1. "T_INF" \in QueryTypes /\ "T_NEGINF" \in QueryTypes /\ 0 \in Nat
  BY DEF QueryTypes
<1> QED BY <1>1 DEF IsQueryValue, Inf, NegativeInf

(* A list of one.                                                          *)
LEMMA OneList == ASSUME NEW v PROVE IsList(<<v>>) /\ Len(<<v>>) = 1 /\ <<v>>[1] = v
<1>1. <<v>> \in Seq({v})
  OBVIOUS
<1> QED BY <1>1 DEF IsList

(* A list of two.                                                          *)
LEMMA TwoList == ASSUME NEW v, NEW w PROVE IsList(<<v, w>>) /\ Len(<<v, w>>) = 2 /\ <<v, w>>[1] = v /\ <<v, w>>[2] = w
<1>1. <<v, w>> \in Seq({v, w})
  OBVIOUS
<1> QED BY <1>1 DEF IsList

(* A range, as toQueryNode makes it.                                       *)
LEMMA ConvertedRange ==
    ASSUME NEW v, NEW w, NEW b, NEW c, NEW max \in Nat, 2 <= max, IsQueryValue(v), IsQueryValue(w)
    PROVE  Converted(Between(v, w, b, c), max)
<1>1. PICK vals : vals = <<v, w>>
  OBVIOUS
<1>2. IsList(vals) /\ Len(vals) = 2 /\ vals[1] = v /\ vals[2] = w
  BY <1>1, TwoList
<1>3. \A i \in 1..2 : i = 1 \/ i = 2
  OBVIOUS
<1>4. \A i \in 1..Len(vals) : IsQueryValue(vals[i])
  BY <1>2, <1>3
<1>5. IsPred(Between(v, w, b, c), "PRED_RNG", vals)
  <2>1. Between(v, w, b, c) = [t |-> "PRED_RNG", vals |-> vals, exclusive |-> <<b, c>>]
    BY <1>1 DEF Between
  <2> QED BY <2>1, Zenon DEF IsPred
<1>6. PICK p : p = Between(v, w, b, c)
  OBVIOUS
<1>7. IsPred(p, "PRED_RNG", vals) /\ "PRED_RNG" # "PRED_ISNULL" /\ Len(vals) \in 1..max
  BY <1>2, <1>5, <1>6
<1>8. Converted(p, max)
  BY <1>2, <1>4, <1>7 DEF Converted
<1> QED BY <1>6, <1>8

(* An equality, as toQueryNode makes it.                                   *)
LEMMA ConvertedOne ==
    ASSUME NEW v, NEW max \in Nat, 2 <= max, IsQueryValue(v)
    PROVE  Converted([t |-> "PRED_EQ", vals |-> <<v>>], max)
<1>1. PICK vals : vals = <<v>>
  OBVIOUS
<1>2. IsList(vals) /\ Len(vals) = 1 /\ vals[1] = v
  BY <1>1, OneList
<1>4. \A i \in 1..Len(vals) : IsQueryValue(vals[i])
  BY <1>2
<1>5. IsPred([t |-> "PRED_EQ", vals |-> <<v>>], "PRED_EQ", vals)
  <2>1. [t |-> "PRED_EQ", vals |-> <<v>>] = [t |-> "PRED_EQ", vals |-> vals]
    BY <1>1
  <2> QED BY <2>1, Zenon DEF IsPred
<1>6. PICK p : p = [t |-> "PRED_EQ", vals |-> <<v>>]
  OBVIOUS
<1>7. IsPred(p, "PRED_EQ", vals) /\ "PRED_EQ" # "PRED_ISNULL" /\ Len(vals) \in 1..max
  BY <1>2, <1>5, <1>6
<1>8. Converted(p, max)
  BY <1>2, <1>4, <1>7 DEF Converted
<1> QED BY <1>6, <1>8

(* toQueryNode makes a predicate of the query of every predicate but !=.   *)
LEMMA ConvertedPredicate ==
    ASSUME NEW pn, NEW place, NEW lo \in Nat, NEW hi \in Nat, 1 <= lo, lo <= place, place \in Nat,
           IsPredicate(pn, place, lo, hi), pn.op # "NE", NEW wild, NEW max \in Nat, hi <= max
    PROVE  Converted(ToPredicate(pn, wild), max)
<1>1. PICK named, op, vals :
        /\ named \in BOOLEAN /\ op \in Operations
        /\ pn = [t |-> "N_PRED", prop |-> [named |-> named, at |-> place], op |-> op, vals |-> vals]
        /\ op = "IS" => vals = <<Null>>
        /\ op # "IS" => AreValues(vals, lo, hi)
        /\ op # "IN" => Len(vals) = 1
  BY DEF IsPredicate
<1>2. 2 <= max
  BY DEF IsPredicate
<1>3. pn.op = op /\ pn.vals = vals /\ op # "NE"
  BY <1>1
<1>4. ASSUME op # "IS" PROVE IsQueryValue(vals[1]) /\ IsList(vals) /\ Len(vals) \in 1..max /\ \A i \in 1..Len(vals) : IsQueryValue(vals[i])
  <2>1. AreValues(vals, lo, hi)
    BY <1>1, <1>4
  <2>2. IsList(vals) /\ Len(vals) \in Nat /\ Len(vals) >= 1 /\ Len(vals) <= hi - lo + 1
    BY <2>1 DEF AreValues, IsList
  <2>3. \A i \in 1..Len(vals) : IsQueryValue(vals[i])
    BY <2>1, ToQueryValue DEF AreValues
  <2> QED BY <2>2, <2>3
<1>5. op \in {"EQ", "GT", "GE", "LT", "LE", "LIKE", "IN", "IS"}
  BY <1>1, <1>3 DEF Operations, Comparisons
<1> DEFINE val == pn.vals[1]
           prefix == pn.op = "LIKE" /\ val.at \in wild
<1>6. val = vals[1]
  BY <1>3
<1> HIDE DEF val
<1>7. CASE op = "EQ"
  <2>1. ToPredicate(pn, wild) = [t |-> "PRED_EQ", vals |-> <<vals[1]>>]
    BY <1>3, <1>7 DEF ToPredicate
  <2> QED BY <1>2, <1>4, <1>7, <2>1, ConvertedOne
<1>8. CASE op = "LIKE"
  <2>1. CASE vals[1].at \in wild
    <3>1. ToPredicate(pn, wild) = Between(vals[1], vals[1], FALSE, FALSE)
      BY <1>3, <1>8, <2>1 DEF ToPredicate
    <3> QED BY <1>2, <1>4, <1>8, <3>1, ConvertedRange
  <2>2. CASE vals[1].at \notin wild
    <3>1. ToPredicate(pn, wild) = [t |-> "PRED_EQ", vals |-> <<vals[1]>>]
      BY <1>3, <1>8, <2>2 DEF ToPredicate
    <3> QED BY <1>2, <1>4, <1>8, <3>1, ConvertedOne
  <2> QED BY <2>1, <2>2
<1>9. CASE op \in {"GT", "GE"}
  <2>1. \E b, c : ToPredicate(pn, wild) = Between(vals[1], Inf, b, c)
    BY <1>3, <1>9 DEF ToPredicate
  <2> QED BY <1>2, <1>4, <1>9, <2>1, ConvertedRange, Limits
<1>10. CASE op \in {"LT", "LE"}
  <2>1. \E b, c : ToPredicate(pn, wild) = Between(NegativeInf, vals[1], b, c)
    BY <1>3, <1>10 DEF ToPredicate
  <2> QED BY <1>2, <1>4, <1>10, <2>1, ConvertedRange, Limits
<1>11. CASE op = "IN"
  <2>1. ToPredicate(pn, wild) = [t |-> "PRED_IN", vals |-> vals]
    BY <1>3, <1>11 DEF ToPredicate
  <2>2. IsPred([t |-> "PRED_IN", vals |-> vals], "PRED_IN", vals)
    BY DEF IsPred
  <2>3. "PRED_IN" \in {"PRED_RNG", "PRED_EQ", "PRED_IN", "PRED_ISNULL"}
    OBVIOUS
  <2> QED BY <1>4, <1>11, <2>1, <2>2, <2>3 DEF Converted
<1>12. CASE op = "IS"
  <2>1. ToPredicate(pn, wild) = [t |-> "PRED_ISNULL", vals |-> <<vals[1]>>]
    BY <1>3, <1>12 DEF ToPredicate
  <2>2. vals = <<Null>> /\ vals[1] = Null
    BY <1>1, <1>12, OneList
  <2>3. IsPred([t |-> "PRED_ISNULL", vals |-> <<Null>>], "PRED_ISNULL", <<Null>>)
    BY DEF IsPred
  <2>4. IsList(<<Null>>) /\ Len(<<Null>>) \in 1..max
    BY <1>2, OneList
  <2>5. \E t \in {"PRED_RNG", "PRED_EQ", "PRED_IN", "PRED_ISNULL"} : \E v :
        /\ IsPred(ToPredicate(pn, wild), t, v)
        /\ IsList(v) /\ Len(v) \in 1..max
        /\ t = "PRED_ISNULL" => v = <<Null>>
        /\ t # "PRED_ISNULL" => \A i \in 1..Len(v) : IsQueryValue(v[i])
    BY <2>1, <2>2, <2>3, <2>4
  <2> QED BY <2>5 DEF Converted
<1> QED BY <1>5, <1>7, <1>8, <1>9, <1>10, <1>11, <1>12

(* The nodes traverseNode makes are a tree.                                *)
LEMMA ConvertedTree ==
    ASSUME NEW nd, NEW low, NEW high, NEW max, Forest(nd, low, high, max), NEW root \in DOMAIN nd, node = nd,
           NEW ids, NEW wild, \A n \in Below(nd, root) : nd[n].t = "N_PRED" => nd[n].op # "NE",
           NEW nodes, nodes = [n \in Below(nd, root) |-> ToQueryNode(n, ids, wild)]
    PROVE  IsQueryTree(nodes, max)
<1>0. max \in Nat /\ Shaped(nd, low, high, max)
  BY DEF Forest
<1>1. Below(nd, root) \subseteq DOMAIN nd
  BY <1>0, BelowFacts
<1>2. DOMAIN nodes = Below(nd, root)
  OBVIOUS
<1>3. ASSUME NEW n \in Below(nd, root)
      PROVE  \/ /\ IsCond(nd, n)
                /\ \E op : nodes[n] = [t |-> "N_COND", left |-> nd[n].left, right |-> nd[n].right, op |-> op, propId |-> -1]
             \/ ~IsCond(nd, n) /\ IsPredicate(nd[n], n, low[n], high[n])
                  /\ nodes[n] = [t |-> "N_PRED", propId |-> ids[n], pred |-> ToPredicate(nd[n], wild)]
  <2>1. IsCondition(nd[n]) \/ IsPredicate(nd[n], n, low[n], high[n])
    BY <1>1 DEF Forest, NodeFits
  <2>2. nodes[n] = ToQueryNode(n, ids, wild)
    OBVIOUS
  <2>3. CASE IsCond(nd, n)
    BY <2>2, <2>3 DEF ToQueryNode, IsCond
  <2>4. CASE ~IsCond(nd, n)
    <3>1. IsPredicate(nd[n], n, low[n], high[n])
      <4>1. ASSUME IsCondition(nd[n]) PROVE FALSE
        <5>1. nd[n].t = "N_COND"
          BY <4>1 DEF IsCondition
        <5> QED BY <2>4, <5>1 DEF IsCond
      <4> QED BY <2>1, <4>1
    <3>2. nodes[n] = [t |-> "N_PRED", propId |-> ids[n], pred |-> ToPredicate(nd[n], wild)]
      BY <2>2, <2>4 DEF ToQueryNode, IsCond
    <3> QED BY <2>4, <3>1, <3>2
  <2> QED BY <2>3, <2>4
<1>4. Shaped(nodes, low, high, max)
  <2>1. ASSUME NEW n \in DOMAIN nodes
        PROVE  /\ n \in Nat /\ low[n] \in Nat /\ high[n] \in Nat
               /\ low[n] <= n /\ n <= high[n] /\ high[n] <= max
               /\ IsCond(nodes, n) =>
                     /\ nodes[n].left \in DOMAIN nodes /\ nodes[n].right \in DOMAIN nodes
                     /\ low[n] <= low[nodes[n].left] /\ high[nodes[n].left] < n
                     /\ n < low[nodes[n].right] /\ high[nodes[n].right] <= high[n]
    <3>1. /\ n \in Nat /\ low[n] \in Nat /\ high[n] \in Nat
          /\ low[n] <= n /\ n <= high[n] /\ high[n] <= max
          /\ IsCond(nd, n) =>
                /\ nd[n].left \in DOMAIN nd /\ nd[n].right \in DOMAIN nd
                /\ low[n] <= low[nd[n].left] /\ high[nd[n].left] < n
                /\ n < low[nd[n].right] /\ high[nd[n].right] <= high[n]
      BY <1>0, <1>1, <1>2 DEF Shaped
    <3>2. ASSUME IsCond(nodes, n)
          PROVE  /\ IsCond(nd, n) /\ nodes[n].left = nd[n].left /\ nodes[n].right = nd[n].right
      BY <1>2, <1>3, <3>2 DEF IsCond
    <3>3. IsCond(nd, n) => nd[n].left \in DOMAIN nodes /\ nd[n].right \in DOMAIN nodes
      BY <1>0, <1>2, BelowClosed
    <3> QED BY <3>1, <3>2, <3>3
  <2> QED BY <2>1 DEF Shaped
<1>5. ASSUME NEW n \in DOMAIN nodes PROVE IsQueryCondition(nodes[n]) \/ IsQueryPredicate(nodes[n], max)
  <2>1. CASE IsCond(nd, n)
    BY <1>2, <1>3, <2>1 DEF IsQueryCondition
  <2>2. CASE ~IsCond(nd, n)
    <3>1. /\ IsPredicate(nd[n], n, low[n], high[n])
          /\ nodes[n] = [t |-> "N_PRED", propId |-> ids[n], pred |-> ToPredicate(nd[n], wild)]
      BY <1>2, <1>3, <2>2
    <3>2. nd[n].t = "N_PRED"
      BY <3>1 DEF IsPredicate
    <3>3. nd[n].op # "NE"
      BY <1>2, <3>2
    <3>4. n \in Nat /\ low[n] \in Nat /\ high[n] \in Nat /\ low[n] <= n /\ high[n] <= max /\ 1 <= low[n]
      BY <1>1, <1>2 DEF Forest, Shaped
    <3>5. Converted(ToPredicate(nd[n], wild), max)
      BY <1>0, <3>1, <3>3, <3>4, ConvertedPredicate
    <3>6. IsQueryPredicate(nodes[n], max)
      BY <3>1, <3>5, Zenon DEF IsQueryPredicate
    <3> QED BY <3>6
  <2> QED BY <2>1, <2>2
<1> QED BY <1>0, <1>4, <1>5 DEF IsQueryTree

-----------------------------------------------------------------------------
(* The marks of SIQuery_Normalize.                                         *)
Marked(nodes) ==
    \A n \in DOMAIN nodes :
        \/ nodes[n].t = "N_PRED"
        \/ /\ IsCond(nodes, n)
           /\ nodes[n].propId = IF nodes[nodes[n].left].propId = nodes[nodes[n].right].propId
                                THEN nodes[nodes[n].left].propId ELSE -1

Leaves(nodes, n) == {k \in Below(nodes, n) : nodes[k].t = "N_PRED"}
Ids(nodes, n) == {nodes[m].propId : m \in Leaves(nodes, n)}

(* A mark that is not -1 is the one property of the leaves below; one      *)
(* property of the leaves is the mark.                                     *)
LEMMA IdsOf ==
    ASSUME NEW nodes, NEW low, NEW high, NEW max \in Nat, Shaped(nodes, low, high, max), Marked(nodes)
    PROVE  \A n \in DOMAIN nodes : /\ Ids(nodes, n) # {}
                                   /\ nodes[n].propId # -1 => Ids(nodes, n) = {nodes[n].propId}
                                   /\ \A x : Ids(nodes, n) = {x} => nodes[n].propId = x
<1> DEFINE P(n) == /\ Ids(nodes, n) # {}
                   /\ nodes[n].propId # -1 => Ids(nodes, n) = {nodes[n].propId}
                   /\ \A x : Ids(nodes, n) = {x} => nodes[n].propId = x
           S == {n \in DOMAIN nodes : P(n)}
<1>1. ASSUME NEW n \in DOMAIN nodes, IsCond(nodes, n) => nodes[n].left \in S /\ nodes[n].right \in S
      PROVE  n \in S
  <2>1. CASE ~IsCond(nodes, n)
    <3>1. Below(nodes, n) = {n} /\ nodes[n].t = "N_PRED"
      BY <2>1, BelowIs DEF Marked
    <3>2. Ids(nodes, n) = {nodes[n].propId}
      BY <3>1 DEF Ids, Leaves
    <3> QED BY <3>2
  <2>2. CASE IsCond(nodes, n)
    <3>1. PICK l, r : l = nodes[n].left /\ r = nodes[n].right
      OBVIOUS
    <3>2. P(l) /\ P(r)
      BY <2>2, <1>1, <3>1
    <3>3. Below(nodes, n) = {n} \cup (Below(nodes, l) \cup Below(nodes, r))
      BY <2>2, <3>1, BelowIs
    <3>4. nodes[n].t # "N_PRED"
      BY <2>2 DEF IsCond
    <3>5. Leaves(nodes, n) = Leaves(nodes, l) \cup Leaves(nodes, r)
      BY <3>3, <3>4 DEF Leaves
    <3>6. Ids(nodes, n) = Ids(nodes, l) \cup Ids(nodes, r)
      BY <3>5 DEF Ids
    <3>7. nodes[n].propId = IF nodes[l].propId = nodes[r].propId THEN nodes[l].propId ELSE -1
      BY <3>1, <3>4 DEF Marked
    <3>8. P(n)
      <4>1. Ids(nodes, n) # {}
        BY <3>2, <3>6
      <4>2. nodes[n].propId # -1 => Ids(nodes, n) = {nodes[n].propId}
        BY <3>2, <3>6, <3>7
      <4>3. ASSUME NEW x, Ids(nodes, n) = {x} PROVE nodes[n].propId = x
        <5>1. Ids(nodes, l) = {x} /\ Ids(nodes, r) = {x}
          BY <3>2, <3>6, <4>3
        <5> QED BY <3>2, <3>7, <5>1
      <4> QED BY <4>1, <4>2, <4>3
    <3> QED BY <3>8
  <2> QED BY <2>1, <2>2
<1>2. \A n \in DOMAIN nodes : n \in S
  <2> HIDE DEF S
  <2> QED BY <1>1, FromLeaves
<1> QED BY <1>2

Alike(nodes) ==
    \A n \in DOMAIN nodes :
        LET ids == {nodes[m].propId : m \in {k \in Below(nodes, n) : nodes[k].t = "N_PRED"}}
        IN  nodes[n].propId = IF Cardinality(ids) = 1 THEN CHOOSE i \in ids : TRUE ELSE -1

(* Nodes that are marked by their operands are marked by all that is below *)
(* them.                                                                   *)
LEMMA MarkedIsAlike ==
    ASSUME NEW nodes, NEW low, NEW high, NEW max \in Nat, Shaped(nodes, low, high, max), Marked(nodes)
    PROVE  Alike(nodes)
<1> SUFFICES ASSUME NEW n \in DOMAIN nodes
             PROVE  nodes[n].propId = IF Cardinality(Ids(nodes, n)) = 1 THEN CHOOSE i \in Ids(nodes, n) : TRUE ELSE -1
  BY Zenon DEF Alike, Ids, Leaves
<1>1. PICK ids : ids = Ids(nodes, n)
  OBVIOUS
<1>2. /\ ids # {}
      /\ nodes[n].propId # -1 => ids = {nodes[n].propId}
      /\ \A x : ids = {x} => nodes[n].propId = x
  BY <1>1, IdsOf
<1>3. IsFiniteSet(ids)
  <2>1. Leaves(nodes, n) \subseteq 0..max
    <3>1. Below(nodes, n) \subseteq DOMAIN nodes
      BY BelowFacts
    <3>2. \A k \in DOMAIN nodes : k \in 0..max
      BY DEF Shaped
    <3> QED BY <3>1, <3>2 DEF Leaves
  <2>2. IsFiniteSet(Leaves(nodes, n))
    <3>1. PICK I, L : I = 0..max /\ L = Leaves(nodes, n)
      OBVIOUS
    <3>2. IsFiniteSet(I) /\ L \subseteq I
      BY <2>1, <3>1, FS_Interval
    <3>3. IsFiniteSet(L)
      BY <3>2, FS_Subset
    <3> QED BY <3>1, <3>3
  <2>3. IsFiniteSet({nodes[m].propId : m \in Leaves(nodes, n)})
    <3> DEFINE f == [m \in Leaves(nodes, n) |-> nodes[m].propId]
               T == {nodes[m].propId : m \in Leaves(nodes, n)}
    <3>1. f \in Surjection(Leaves(nodes, n), T)
      BY DEF Surjection
    <3> HIDE DEF f, T
    <3>2. IsFiniteSet(T)
      BY <2>2, <3>1, FS_Surjection
    <3> QED BY <3>2 DEF T
  <2> QED BY <1>1, <2>3 DEF Ids
<1>4. CASE \E x : ids = {x}
  <2>1. PICK x : ids = {x}
    BY <1>4
  <2>2. Cardinality(ids) = 1 /\ (CHOOSE i \in ids : TRUE) = x
    BY <2>1, FS_Singleton
  <2> QED BY <1>1, <1>2, <2>1, <2>2
<1>5. CASE ~\E x : ids = {x}
  <2>1. Cardinality(ids) # 1
    BY <1>3, <1>5, FS_Singleton
  <2> QED BY <1>1, <1>2, <1>5, <2>1
<1> QED BY <1>4, <1>5

-----------------------------------------------------------------------------
(* What SIQuery_Normalize makes of the nodes: each is marked with the      *)
(* property of what is below it.                                           *)
IsMark(id, nodes) ==
    \A n \in DOMAIN nodes :
        id[n] = IF ~IsCond(nodes, n) THEN nodes[n].propId
                ELSE IF id[nodes[n].left] = id[nodes[n].right] THEN id[nodes[n].left] ELSE -1

(* markSamePropertyLogicNodes reaches every node and marks it by its       *)
(* operands.                                                               *)
LEMMA MarksAre ==
    ASSUME NEW nodes, NEW max, IsQueryTree(nodes, max)
    PROVE  \E id : /\ IsMark(id, nodes)
                   /\ MarkSameProperty(nodes) = [n \in DOMAIN nodes |-> [nodes[n] EXCEPT !.propId = id[n]]]
<1> DEFINE D == DOMAIN nodes
           V == {nodes[n].propId : n \in D} \cup {-1}
           F(id) == [n \in DOMAIN nodes |->
                       IF nodes[n].t = "N_PRED" THEN nodes[n].propId
                       ELSE IF id[nodes[n].left] = id[nodes[n].right] THEN id[nodes[n].left] ELSE -1]
           U == CHOOSE id : id = F(id)
           base == [n \in D |-> nodes[n].propId]
           step == [n \in D |-> [p \in V \X V |-> IF p[1] = p[2] THEN p[1] ELSE -1]]
<1>0. PICK low, high : Shaped(nodes, low, high, max)
  BY DEF IsQueryTree
<1>1. max \in Nat /\ base \in [D -> V] /\ step \in [D -> [V \X V -> V]]
  BY DEF IsQueryTree
<1>2. PICK f \in [D -> V] : IsFold(f, nodes, base, step)
  <2> HIDE DEF base, step, V
  <2> QED BY <1>0, <1>1, TreeFunction
<1>3. \A n \in D : (nodes[n].t = "N_PRED") <=> ~IsCond(nodes, n)
  <2>1. ASSUME NEW n \in D, IsQueryCondition(nodes[n]) PROVE (nodes[n].t = "N_PRED") <=> ~IsCond(nodes, n)
    BY <2>1 DEF IsQueryCondition, IsCond
  <2>2. ASSUME NEW n \in D, IsQueryPredicate(nodes[n], max) PROVE (nodes[n].t = "N_PRED") <=> ~IsCond(nodes, n)
    BY <2>2 DEF IsQueryPredicate, IsCond
  <2> QED BY <2>1, <2>2 DEF IsQueryTree
<1>4. f = F(f)
  <2>1. ASSUME NEW n \in D PROVE f[n] = F(f)[n]
    <3>1. CASE ~IsCond(nodes, n)
      BY <1>2, <1>3, <3>1 DEF Folded, IsFold
    <3>2. CASE IsCond(nodes, n)
      <4>1. <<f[nodes[n].left], f[nodes[n].right]>> \in V \X V
        <5>1. nodes[n].left \in D /\ nodes[n].right \in D
          BY <1>0, <3>2 DEF Shaped
        <5> HIDE DEF V
        <5> QED BY <1>2, <5>1
      <4>2. f[n] = step[n][<<f[nodes[n].left], f[nodes[n].right]>>]
        BY <1>2, <3>2 DEF Folded, IsFold
      <4>3. f[n] = IF f[nodes[n].left] = f[nodes[n].right] THEN f[nodes[n].left] ELSE -1
        <5> HIDE DEF V
        <5> QED BY <4>1, <4>2
      <4> QED BY <1>3, <4>3, <3>2
    <3> QED BY <3>1, <3>2, Zenon
  <2> QED BY <2>1
<1>5. U = F(U)
  <2> HIDE DEF F
  <2> QED BY <1>4
<1>6. MarkSameProperty(nodes) = [n \in DOMAIN nodes |-> [nodes[n] EXCEPT !.propId = U[n]]]
  BY Zenon DEF MarkSameProperty
<1>7. IsMark(U, nodes)
  <2>1. PICK g : g = U
    OBVIOUS
  <2>2. g = F(g)
    <3> HIDE DEF F, U
    <3> QED BY <1>5, <2>1
  <2>3. IsMark(g, nodes)
    BY <1>3, <2>2 DEF IsMark
  <2> QED BY <2>1, <2>3
<1> HIDE DEF U
<1> QED BY <1>6, <1>7

(* The nodes of a query after they were marked and some of their values    *)
(* cast: what is under new is what is under old, and it is marked.         *)
LEMMA MarkedTree ==
    ASSUME NEW old, NEW max, IsQueryTree(old, max), NEW id, IsMark(id, old),
           NEW new, DOMAIN new = DOMAIN old,
           \A n \in DOMAIN old :
              /\ new[n].t = old[n].t /\ new[n].propId = id[n]
              /\ IsCond(old, n) => new[n].left = old[n].left /\ new[n].right = old[n].right
    PROVE  Alike(new)
<1>0. PICK low, high : Shaped(old, low, high, max)
  BY DEF IsQueryTree
<1>1. max \in Nat
  BY DEF IsQueryTree
<1>2. \A n \in DOMAIN old : IsCond(new, n) <=> IsCond(old, n)
  BY DEF IsCond
<1>3. Shaped(new, low, high, max)
  BY <1>0, <1>2 DEF Shaped
<1>4. \A n \in DOMAIN old : ~IsCond(old, n) => old[n].t = "N_PRED"
  <2>1. ASSUME NEW n \in DOMAIN old, IsQueryCondition(old[n]), ~IsCond(old, n) PROVE FALSE
    BY <2>1 DEF IsQueryCondition, IsCond
  <2>2. ASSUME NEW n \in DOMAIN old, IsQueryPredicate(old[n], max) PROVE old[n].t = "N_PRED"
    BY <2>2 DEF IsQueryPredicate
  <2> QED BY <2>1, <2>2 DEF IsQueryTree
<1>5. ASSUME NEW n \in DOMAIN new
      PROVE  \/ new[n].t = "N_PRED"
             \/ /\ IsCond(new, n)
                /\ new[n].propId = IF new[new[n].left].propId = new[new[n].right].propId
                                   THEN new[new[n].left].propId ELSE -1
  <2>1. CASE ~IsCond(old, n)
    BY <1>4, <2>1
  <2>2. CASE IsCond(old, n)
    <3>1. PICK l, r : l = old[n].left /\ r = old[n].right
      OBVIOUS
    <3>2. l \in DOMAIN old /\ r \in DOMAIN old /\ new[n].left = l /\ new[n].right = r
      BY <1>0, <2>2, <3>1 DEF Shaped
    <3>3. id[n] = IF id[l] = id[r] THEN id[l] ELSE -1
      BY <2>2, <3>1 DEF IsMark
    <3>4. new[n].propId = IF new[l].propId = new[r].propId THEN new[l].propId ELSE -1
      BY <3>2, <3>3
    <3> QED BY <1>2, <2>2, <3>2, <3>4
  <2> QED BY <2>1, <2>2
<1>6. Marked(new)
  BY <1>5 DEF Marked
<1> QED BY <1>1, <1>3, <1>6, MarkedIsAlike

-----------------------------------------------------------------------------
(* The parser's state outlives the parse.                                  *)
LEMMA ParseStays ==
    ASSUME ParseInv, UNCHANGED <<text, stack, look, ctx, node, restart>>,
           phase' = phase \/ (phase \notin {"reading", "closing"} /\ phase' \notin {"reading", "closing"})
    PROVE  ParseInv'
<1>1. Consumed' = Consumed
  BY DEF Consumed
<1>2. InStep'
  BY <1>1 DEF ParseInv, InStep
<1> QED BY <1>2 DEF ParseInv

(* The parser's steps keep its invariant, and happen while the text is     *)
(* read.                                                                   *)
LEMMA ParseMoves ==
    ASSUME ParseInv, Engine \/ ReadText
    PROVE  /\ ParseInv'
           /\ phase \in {"reading", "closing"} /\ phase' \in {"reading", "closing", "parsed"}
<1>1. ASSUME NEW word \in Range(Terminals), Token(word) PROVE ParseInv' /\ phase = "reading" /\ phase' = phase
  BY <1>1, ParseToken DEF Token, Reading
<1>2. ASSUME TextEnds PROVE ParseInv' /\ phase = "reading" /\ phase' = "closing"
  BY <1>2, ParseTextEnds DEF TextEnds, Reading
<1>3. ASSUME InParse PROVE phase \in {"reading", "closing"}
  BY <1>3 DEF InParse, ParseInv
<1>4. ASSUME Shift PROVE ParseInv' /\ InParse /\ phase' = phase
  BY <1>4, ParseShift DEF Shift
<1>5. ASSUME StackOverflow PROVE ParseInv' /\ InParse /\ phase' = phase
  BY <1>5, ParseDropped DEF StackOverflow
<1>6. ASSUME SyntaxError PROVE ParseInv' /\ InParse /\ phase' = "parsed"
  BY <1>6, ParseDropped DEF SyntaxError
<1>7. ASSUME Reduce PROVE ParseInv' /\ InParse /\ phase' = phase
  BY <1>7, ParseReduce DEF Reduce
<1>8. ASSUME AcceptClause PROVE ParseInv' /\ InParse /\ phase' = "parsed"
  BY <1>8, ParseAccept DEF AcceptClause
<1> QED BY <1>1, <1>2, <1>3, <1>4, <1>5, <1>6, <1>7, <1>8 DEF Engine, ReadText

Verdicts == {"QE_OK", "QE_INVALID_PROPERTY", "QE_INVALID_VALUE"}

QueryInv ==
    /\ ParseInv
    /\ spec \in Specs
    /\ query = [root |-> query.root, numPredicates |-> query.numPredicates, nodes |-> query.nodes]
    /\ verdict \in {"none"} \cup Verdicts
    /\ verdict # "none" => phase \in {"ready", "done"}
    /\ phase \in {"converted", "ready"} /\ verdict = "none" => IsQueryTree(query.nodes, Len(text))
    /\ MarkedAlike
    /\ NormalizeExact

(* Before SIQuery_Normalize there is nothing to say of what it did.        *)
LEMMA NoVerdict == verdict = "none" => MarkedAlike /\ NormalizeExact
<1> SUFFICES ASSUME verdict = "none" PROVE MarkedAlike /\ NormalizeExact
  OBVIOUS
<1>1. MarkedAlike
  BY DEF MarkedAlike
<1>2. verdict # "QE_OK" /\ verdict \notin {"QE_INVALID_PROPERTY", "QE_INVALID_VALUE"}
  OBVIOUS
<1>3. NormalizeExact
  BY <1>2, Zenon DEF NormalizeExact
<1> QED BY <1>1, <1>3

(* The invariant of the query holds at first,                              *)
LEMMA QueryInit == Init => QueryInv
<1> SUFFICES ASSUME Init PROVE QueryInv
  OBVIOUS
<1>1. ParseInv /\ phase = "reading" /\ verdict = "none" /\ query = NoQuery /\ spec \in Specs
  BY ParseInit DEF Init, ParserInit
<1>2. MarkedAlike /\ NormalizeExact
  BY <1>1, NoVerdict
<1> QED BY <1>1, <1>2 DEF QueryInv, NoQuery

(* The steps before the query is normalised, apart from the conversion.    *)
LEMMA QueryBefore ==
    ASSUME QueryInv, Parsing \/ Refused \/ Unsupported \/ FreeTree
    PROVE  QueryInv'
<1>1. verdict = "none" /\ verdict' = verdict /\ spec' = spec /\ query' = query
  <2>1. verdict' = verdict /\ spec' = spec /\ query' = query
    BY DEF Parsing, Refused, Unsupported, FreeTree
  <2>2. Parsing => phase \in {"reading", "closing"}
    BY ParseMoves DEF Parsing, QueryInv
  <2>3. phase \notin {"ready", "done"}
    BY <2>2 DEF Refused, Unsupported, FreeTree
  <2> QED BY <2>1, <2>3 DEF QueryInv
<1>2. MarkedAlike' /\ NormalizeExact'
  <2>1. (verdict = "none" => MarkedAlike /\ NormalizeExact)'
    BY NoVerdict, PTL
  <2> QED BY <1>1, <2>1
<1>3. ParseInv'
  <2>1. Parsing => ParseInv'
    BY ParseMoves DEF Parsing, QueryInv
  <2>2. Refused \/ Unsupported \/ FreeTree => ParseInv'
    BY ParseStays DEF QueryInv, Refused, Unsupported, FreeTree
  <2> QED BY <2>1, <2>2
<1>4. phase' \in {"converted", "ready"} => IsQueryTree(query'.nodes, Len(text'))
  <2>1. ASSUME Parsing PROVE phase' \notin {"converted", "ready"}
    BY <2>1, ParseMoves DEF Parsing, QueryInv
  <2>2. ASSUME FreeTree PROVE IsQueryTree(query.nodes, Len(text)) /\ text' = text
    BY <1>1, <2>2 DEF FreeTree, QueryInv
  <2> QED BY <1>1, <2>1, <2>2 DEF Refused, Unsupported
<1> QED BY <1>1, <1>2, <1>3, <1>4 DEF QueryInv

(* What traverseNode makes of the tree.                                    *)
LEMMA Conversion ==
    ASSUME Convert
    PROVE  \E nodes, num, ids, wild :
              /\ query' = [root |-> ctx.root, numPredicates |-> num, nodes |-> nodes]
              /\ nodes = [n \in Below(node, ctx.root) |-> ToQueryNode(n, ids, wild)]
              /\ \A n \in Below(node, ctx.root) : node[n].t = "N_PRED" => node[n].op # "NE"
<1> DEFINE tree == Below(node, ctx.root)
           preds == {n \in tree : node[n].t = "N_PRED"}
           likes == {node[n].vals[1].at : n \in {m \in preds : node[m].op = "LIKE"}}
<1>1. \A n \in preds : node[n].op # "NE"
  BY Zenon DEF Convert
<1>2. \E ids \in [preds -> -1..Len(spec)], wild \in SUBSET likes :
        query' = [root |-> ctx.root, numPredicates |-> Cardinality(preds),
                  nodes |-> [n \in tree |-> ToQueryNode(n, ids, wild)]]
  BY DEF Convert
<1>3. PICK ids, wild :
        query' = [root |-> ctx.root, numPredicates |-> Cardinality(preds),
                  nodes |-> [n \in tree |-> ToQueryNode(n, ids, wild)]]
  BY <1>2
<1>4. PICK nodes, num : nodes = [n \in tree |-> ToQueryNode(n, ids, wild)] /\ num = Cardinality(preds)
  OBVIOUS
<1>5. query' = [root |-> ctx.root, numPredicates |-> num, nodes |-> nodes]
  BY <1>3, <1>4
<1> QED BY <1>1, <1>4, <1>5

(* when the tree is converted,                                             *)
LEMMA QueryConvert ==
    ASSUME QueryInv, Convert
    PROVE  QueryInv'
<1>1. phase = "parsed" /\ ctx.root # NoNode /\ verdict' = verdict /\ spec' = spec /\ phase' = "converted"
      /\ UNCHANGED <<text, stack, look, ctx, node, restart>>
  BY DEF Convert
<1>2. verdict = "none"
  BY <1>1 DEF QueryInv
<1>3. PICK nodes, num :
        /\ query' = [root |-> ctx.root, numPredicates |-> num, nodes |-> nodes]
        /\ \E ids, wild : nodes = [n \in Below(node, ctx.root) |-> ToQueryNode(n, ids, wild)]
        /\ \A n \in Below(node, ctx.root) : node[n].t = "N_PRED" => node[n].op # "NE"
  BY Conversion
<1>4. IsQueryTree(nodes, Len(text))
  <2>1. PICK low, high : Forest(node, low, high, Len(text))
    BY DEF QueryInv, ParseInv, InStep
  <2>2. ctx.root \in DOMAIN node
    BY <1>1 DEF QueryInv, ParseInv
  <2>3. PICK ids, wild : nodes = [n \in Below(node, ctx.root) |-> ToQueryNode(n, ids, wild)]
    BY <1>3
  <2>4. PICK nd, root, max : nd = node /\ root = ctx.root /\ max = Len(text)
    OBVIOUS
  <2>5. /\ Forest(nd, low, high, max) /\ root \in DOMAIN nd
        /\ nodes = [n \in Below(nd, root) |-> ToQueryNode(n, ids, wild)]
        /\ \A n \in Below(nd, root) : nd[n].t = "N_PRED" => nd[n].op # "NE"
    BY <1>3, <2>1, <2>2, <2>3, <2>4
  <2>6. node = nd
    BY <2>4
  <2>7. IsQueryTree(nodes, max)
    BY <2>5, <2>6, ConvertedTree, Zenon
  <2> QED BY <2>4, <2>7
<1>5. MarkedAlike' /\ NormalizeExact'
  <2>1. (verdict = "none" => MarkedAlike /\ NormalizeExact)'
    BY NoVerdict, PTL
  <2> QED BY <1>1, <1>2, <2>1
<1>6. ParseInv'
  BY <1>1, ParseStays DEF QueryInv
<1>7. IsQueryTree(query'.nodes, Len(text'))
  BY <1>1, <1>3, <1>4
<1> QED BY <1>1, <1>2, <1>3, <1>5, <1>6, <1>7 DEF QueryInv

-----------------------------------------------------------------------------
(* SIQuery_Normalize: which values fail, what it answers, the new nodes.   *)
CastNodes(failing) ==
    [n \in DOMAIN MarkSameProperty(query.nodes) |->
        IF MarkSameProperty(query.nodes)[n].t = "N_COND" THEN MarkSameProperty(query.nodes)[n]
        ELSE [MarkSameProperty(query.nodes)[n] EXCEPT !.pred.vals =
                 [i \in DOMAIN MarkSameProperty(query.nodes)[n].pred.vals |->
                     IF <<n, i>> \in Reached(failing)
                     THEN CastTo(MarkSameProperty(query.nodes)[n].pred.vals[i], PropType(<<n, i>>), <<n, i>>)
                     ELSE MarkSameProperty(query.nodes)[n].pred.vals[i]]]]

Fails(s) ==
    \/ Unbound(s[1])
    \/ query.nodes[s[1]].pred.t = "PRED_ISNULL"
    \/ \E b : ~Castable(ValueAt(query.nodes, s), PropType(s), b)
Passes(s) ==
    /\ ~Unbound(s[1])
    /\ query.nodes[s[1]].pred.t # "PRED_ISNULL"
    /\ \E b : Castable(ValueAt(query.nodes, s), PropType(s), b)

Answers(failing) ==
    /\ failing \subseteq Values(query.nodes)
    /\ \A s \in failing : Fails(s)
    /\ \A s \in Values(query.nodes) \ failing : Passes(s)
    /\ verdict' \in Verdicts
    /\ verdict' = "QE_OK" <=> failing = {}
    /\ query' = [query EXCEPT !.nodes = CastNodes(failing)]

Failing(readable) ==
    {s \in Values(query.nodes) : Unbound(s[1])} \cup
        {s \in Values(query.nodes) \ {s \in Values(query.nodes) : Unbound(s[1])} :
            \/ query.nodes[s[1]].pred.t = "PRED_ISNULL"
            \/ ~Castable(ValueAt(query.nodes, s), PropType(s), s \in readable)}

(* What SIQuery_Normalize does, told by the set of values that fail.       *)
LEMMA NormalizeAnswers ==
    ASSUME Normalize
    PROVE  \E failing : Answers(failing)
<1> DEFINE unbound == {s \in Values(query.nodes) : Unbound(s[1])}
<1>1. \E readable :
         /\ \E bad : verdict' = CASE Failing(readable) = {} -> "QE_OK"
                                 [] Failing(readable) # {} /\ bad \in unbound -> "QE_INVALID_PROPERTY"
                                 [] OTHER -> "QE_INVALID_VALUE"
         /\ query' = [query EXCEPT !.nodes = CastNodes(Failing(readable))]
  <2> DEFINE slots == Values(query.nodes)
             strings == {s \in slots : ValueAt(query.nodes, s).type = "T_STRING"}
             marked == MarkSameProperty(query.nodes)
  <2>1. \E readable \in SUBSET strings :
           LET failing == Failing(readable)
               first == CHOOSE f \in failing : \A g \in failing \ {f} : Before(f, g)
               cast(n) == [i \in DOMAIN marked[n].pred.vals |->
                                IF <<n, i>> \in Reached(failing)
                                THEN CastTo(marked[n].pred.vals[i], PropType(<<n, i>>), <<n, i>>)
                                ELSE marked[n].pred.vals[i]]
               nodes == [n \in DOMAIN marked |->
                              IF marked[n].t = "N_COND" THEN marked[n]
                              ELSE [marked[n] EXCEPT !.pred.vals = cast(n)]]
           IN  /\ verdict' = CASE failing = {} -> "QE_OK"
                               [] failing # {} /\ first \in unbound -> "QE_INVALID_PROPERTY"
                               [] OTHER -> "QE_INVALID_VALUE"
               /\ query' = [query EXCEPT !.nodes = nodes]
    BY DEF Normalize, Failing
  <2>2. PICK readable :
           /\ verdict' = CASE Failing(readable) = {} -> "QE_OK"
                           [] Failing(readable) # {}
                                /\ (CHOOSE f \in Failing(readable) : \A g \in Failing(readable) \ {f} : Before(f, g)) \in unbound
                              -> "QE_INVALID_PROPERTY"
                           [] OTHER -> "QE_INVALID_VALUE"
           /\ query' = [query EXCEPT !.nodes = CastNodes(Failing(readable))]
    BY <2>1, Zenon DEF CastNodes
  <2> HIDE DEF unbound
  <2> QED BY <2>2, Zenon
<1>2. PICK readable, bad :
         /\ verdict' = CASE Failing(readable) = {} -> "QE_OK"
                         [] Failing(readable) # {} /\ bad \in unbound -> "QE_INVALID_PROPERTY"
                         [] OTHER -> "QE_INVALID_VALUE"
         /\ query' = [query EXCEPT !.nodes = CastNodes(Failing(readable))]
  <2> HIDE DEF unbound
  <2> QED BY <1>1
<1>3. PICK fails : fails = Failing(readable)
  OBVIOUS
<1>4. fails \subseteq Values(query.nodes)
  BY <1>3 DEF Failing
<1>5. ASSUME NEW s \in Values(query.nodes)
      PROVE  s \in fails => Fails(s)
  <2>1. s \in fails <=> \/ Unbound(s[1])
                       \/ query.nodes[s[1]].pred.t = "PRED_ISNULL"
                       \/ ~Castable(ValueAt(query.nodes, s), PropType(s), s \in readable)
    BY <1>3, Zenon DEF Failing
  <2> QED BY <2>1, Zenon DEF Fails
<1>6. ASSUME NEW s \in Values(query.nodes)
      PROVE  s \notin fails => Passes(s)
  <2>1. s \in fails <=> \/ Unbound(s[1])
                       \/ query.nodes[s[1]].pred.t = "PRED_ISNULL"
                       \/ ~Castable(ValueAt(query.nodes, s), PropType(s), s \in readable)
    BY <1>3, Zenon DEF Failing
  <2> QED BY <2>1, Zenon DEF Passes
<1>7. verdict' \in Verdicts /\ (verdict' = "QE_OK" <=> fails = {})
  <2> HIDE DEF unbound
  <2>1. PICK p, q : p = (fails = {}) /\ q = (bad \in unbound)
    OBVIOUS
  <2>2. verdict' = CASE p -> "QE_OK"
                     [] ~p /\ q -> "QE_INVALID_PROPERTY"
                     [] OTHER -> "QE_INVALID_VALUE"
    BY <1>2, <1>3, <2>1
  <2>3. verdict' \in Verdicts /\ (verdict' = "QE_OK" <=> p)
    BY <2>1, <2>2 DEF Verdicts
  <2> QED BY <2>1, <2>3
<1>8. query' = [query EXCEPT !.nodes = CastNodes(fails)]
  BY <1>2, <1>3
<1>9. Answers(fails)
  BY <1>4, <1>5, <1>6, <1>7, <1>8 DEF Answers
<1> QED BY <1>9

(* The new nodes, one by one.                                              *)
LEMMA CastNode ==
    ASSUME QueryInv, phase = "ready", verdict = "none", NEW failing, NEW new, new = CastNodes(failing)
    PROVE  /\ \E id : /\ IsMark(id, query.nodes)
                      /\ \A n \in DOMAIN query.nodes : new[n].propId = id[n]
           /\ DOMAIN new = DOMAIN query.nodes
           /\ \A n \in DOMAIN query.nodes :
                 /\ new[n].t = query.nodes[n].t
                 /\ IsCond(query.nodes, n) =>
                       new[n].left = query.nodes[n].left /\ new[n].right = query.nodes[n].right
                 /\ ~IsCond(query.nodes, n) =>
                       /\ new[n].propId = query.nodes[n].propId
                       /\ new[n].pred.t = query.nodes[n].pred.t
                       /\ new[n].pred.vals = [i \in DOMAIN query.nodes[n].pred.vals |->
                              IF <<n, i>> \in Reached(failing)
                              THEN CastTo(query.nodes[n].pred.vals[i], PropType(<<n, i>>), <<n, i>>)
                              ELSE query.nodes[n].pred.vals[i]]
<1>1. PICK old, marked : old = query.nodes /\ marked = MarkSameProperty(query.nodes)
  OBVIOUS
<1>2. IsQueryTree(old, Len(text))
  BY <1>1 DEF QueryInv
<1>3. PICK id : /\ IsMark(id, old)
                /\ marked = [n \in DOMAIN old |-> [old[n] EXCEPT !.propId = id[n]]]
  <2>1. \E id : /\ IsMark(id, old)
                /\ MarkSameProperty(old) = [n \in DOMAIN old |-> [old[n] EXCEPT !.propId = id[n]]]
    BY <1>2, MarksAre
  <2> QED BY <1>1, <2>1
<1> DEFINE cast(n, p) == [i \in DOMAIN p.vals |->
                              IF <<n, i>> \in Reached(failing)
                              THEN CastTo(p.vals[i], PropType(<<n, i>>), <<n, i>>)
                              ELSE p.vals[i]]
<1>4. DOMAIN new = DOMAIN old
  BY <1>1, <1>3 DEF CastNodes
<1>5. ASSUME NEW n \in DOMAIN old
      PROVE  new[n] = IF marked[n].t = "N_COND" THEN marked[n]
                      ELSE [marked[n] EXCEPT !.pred.vals = cast(n, marked[n].pred)]
  BY <1>1, <1>3, <1>5 DEF CastNodes
<1>6. ASSUME NEW n \in DOMAIN old, IsQueryCondition(old[n])
      PROVE  /\ IsCond(old, n) /\ new[n].t = old[n].t /\ new[n].propId = id[n]
             /\ new[n].left = old[n].left /\ new[n].right = old[n].right
  <2>1. PICK left, right, op, propId :
          old[n] = [t |-> "N_COND", left |-> left, right |-> right, op |-> op, propId |-> propId]
    BY <1>6 DEF IsQueryCondition
  <2>2. marked[n] = [t |-> "N_COND", left |-> left, right |-> right, op |-> op, propId |-> id[n]]
    BY <1>3, <2>1
  <2>3. new[n] = marked[n]
    <3> HIDE DEF cast
    <3> QED BY <1>5, <2>2
  <2> QED BY <2>1, <2>2, <2>3 DEF IsCond
<1>7. ASSUME NEW n \in DOMAIN old, IsQueryPredicate(old[n], Len(text))
      PROVE  /\ ~IsCond(old, n) /\ new[n].t = old[n].t /\ new[n].propId = id[n]
             /\ new[n].propId = old[n].propId
             /\ new[n].pred.t = old[n].pred.t
             /\ new[n].pred.vals = cast(n, old[n].pred)
  <2>1. PICK propId, p : old[n] = [t |-> "N_PRED", propId |-> propId, pred |-> p] /\ Converted(p, Len(text))
    BY <1>7 DEF IsQueryPredicate
  <2>2. marked[n] = [t |-> "N_PRED", propId |-> id[n], pred |-> p]
    BY <1>3, <2>1
  <2>3. PICK vals : vals = cast(n, p)
    OBVIOUS
  <2>4. new[n] = [marked[n] EXCEPT !.pred.vals = vals]
    <3>1. marked[n].t # "N_COND" /\ marked[n].pred = p
      BY <2>2
    <3> HIDE DEF cast
    <3> QED BY <1>5, <2>3, <3>1
  <2>5. PICK t, vals0 : IsPred(p, t, vals0)
    BY <2>1 DEF Converted
  <2>6. PICK p2 : p2 = [p EXCEPT !.vals = vals]
    OBVIOUS
  <2>7. new[n] = [t |-> "N_PRED", propId |-> id[n], pred |-> p2] /\ p2.vals = vals /\ p2.t = p.t
    <3>1. p2.vals = vals /\ p2.t = p.t
      BY <2>5, <2>6 DEF IsPred
    <3>2. new[n] = [t |-> "N_PRED", propId |-> id[n], pred |-> p2]
      BY <2>2, <2>4, <2>6
    <3> QED BY <3>1, <3>2
  <2>8. id[n] = propId /\ ~IsCond(old, n)
    <3>1. ~IsCond(old, n) /\ old[n].propId = propId
      BY <2>1 DEF IsCond
    <3>2. id[n] = old[n].propId
      BY <1>3, <1>7, <3>1, Zenon DEF IsMark
    <3> QED BY <3>1, <3>2, Zenon
  <2>9. new[n].t = "N_PRED" /\ new[n].propId = id[n] /\ new[n].pred.vals = vals /\ new[n].pred.t = p.t
    BY <2>7
  <2>10. old[n].t = "N_PRED" /\ old[n].propId = propId /\ old[n].pred = p
    BY <2>1
  <2> HIDE DEF cast
  <2> QED BY <2>3, <2>8, <2>9, <2>10
<1>8. \A n \in DOMAIN old : IsQueryCondition(old[n]) \/ IsQueryPredicate(old[n], Len(text))
  BY <1>2 DEF IsQueryTree
<1>9. \A n \in DOMAIN old : new[n].propId = id[n]
  BY <1>6, <1>7, <1>8
<1>10. \A n \in DOMAIN old :
         /\ new[n].t = old[n].t
         /\ IsCond(old, n) => new[n].left = old[n].left /\ new[n].right = old[n].right
         /\ ~IsCond(old, n) => /\ new[n].propId = old[n].propId /\ new[n].pred.t = old[n].pred.t
                               /\ new[n].pred.vals = cast(n, old[n].pred)
  <2> HIDE DEF cast
  <2> QED BY <1>6, <1>7, <1>8
<1> QED BY <1>1, <1>3, <1>4, <1>9, <1>10

(* The slots of a query's values, and what they hold.                      *)
LEMMA SlotValue ==
    ASSUME IsQueryTree(query.nodes, Len(text)), NEW s \in Values(query.nodes)
    PROVE  /\ s[1] \in DOMAIN query.nodes /\ ~IsCond(query.nodes, s[1])
           /\ s = <<s[1], s[2]>> /\ s[1] \in Nat /\ s[2] \in Nat /\ s[2] \in DOMAIN query.nodes[s[1]].pred.vals
           /\ query.nodes[s[1]].pred.t # "PRED_ISNULL" => IsQueryValue(ValueAt(query.nodes, s))
           /\ query.nodes[s[1]].pred.t = "PRED_ISNULL" => ValueAt(query.nodes, s) = Null
<1>1. PICK old, n, i :
        old = query.nodes /\ s = <<n, i>> /\ n \in DOMAIN old /\ i \in 1..Len(text) /\ old[n].t = "N_PRED" /\ i \in DOMAIN old[n].pred.vals
  BY DEF Values
<1>2. s[1] = n /\ s[2] = i
  BY <1>1
<1>3. IsQueryPredicate(old[n], Len(text))
  <2>1. ASSUME IsQueryCondition(old[n]) PROVE FALSE
    <3>1. old[n].t = "N_COND"
      BY <2>1 DEF IsQueryCondition
    <3> QED BY <1>1, <3>1
  <2> QED BY <1>1, <2>1 DEF IsQueryTree
<1>4. n \in Nat /\ i \in Nat
  <2>1. PICK low, high, max : Shaped(old, low, high, max)
    BY <1>1 DEF IsQueryTree
  <2>2. Len(text) \in Nat
    BY DEF IsQueryTree
  <2> QED BY <1>1, <2>1, <2>2 DEF Shaped
<1>5. PICK p : old[n].pred = p /\ Converted(p, Len(text))
  <2>1. PICK propId, p : old[n] = [t |-> "N_PRED", propId |-> propId, pred |-> p] /\ Converted(p, Len(text))
    BY <1>3 DEF IsQueryPredicate
  <2> QED BY <2>1
<1>6. PICK t, vals :
        /\ IsPred(p, t, vals)
        /\ IsList(vals) /\ Len(vals) \in 1..Len(text)
        /\ t = "PRED_ISNULL" => vals = <<Null>>
        /\ t # "PRED_ISNULL" => \A j \in 1..Len(vals) : IsQueryValue(vals[j])
  BY <1>5 DEF Converted
<1>7. p.t = t /\ p.vals = vals
  BY <1>6 DEF IsPred
<1>8. i \in 1..Len(vals)
  <2>1. DOMAIN vals = 1..Len(vals)
    BY <1>6 DEF IsList
  <2> QED BY <1>1, <1>5, <1>7, <2>1
<1>9. ValueAt(query.nodes, s) = vals[i]
  BY <1>1, <1>2, <1>5, <1>7 DEF ValueAt
<1>10. t = "PRED_ISNULL" => vals[i] = Null
  <2>1. ASSUME t = "PRED_ISNULL" PROVE vals[i] = Null
    <3>1. vals = <<Null>> /\ Len(vals) = 1 /\ vals[1] = Null
      BY <1>6, <2>1, OneList
    <3>2. i = 1
      BY <1>8, <3>1
    <3> QED BY <3>1, <3>2
  <2> QED BY <2>1
<1> QED BY <1>1, <1>2, <1>4, <1>5, <1>6, <1>7, <1>8, <1>9, <1>10 DEF IsCond

(* SIQuery_Normalize leaves the slots, and changes what is in those it     *)
(* reached.                                                                *)
LEMMA CastSlots ==
    ASSUME QueryInv, phase = "ready", verdict = "none", NEW failing, NEW new, new = CastNodes(failing),
           NEW old, old = query.nodes
    PROVE  /\ \A s : s \in Values(new) <=> s \in Values(old)
           /\ \A s \in Values(old) :
                 ValueAt(new, s) = IF s \in Reached(failing) THEN CastTo(ValueAt(old, s), PropType(s), s)
                                   ELSE ValueAt(old, s)
<1>1. IsQueryTree(old, Len(text))
  BY DEF QueryInv
<1>2. /\ DOMAIN new = DOMAIN old
      /\ \A n \in DOMAIN old :
            /\ new[n].t = old[n].t
            /\ ~IsCond(old, n) =>
                  new[n].pred.vals = [i \in DOMAIN old[n].pred.vals |->
                         IF <<n, i>> \in Reached(failing)
                         THEN CastTo(old[n].pred.vals[i], PropType(<<n, i>>), <<n, i>>)
                         ELSE old[n].pred.vals[i]]
  BY CastNode
<1>3. ASSUME NEW n \in DOMAIN old, old[n].t = "N_PRED" PROVE DOMAIN new[n].pred.vals = DOMAIN old[n].pred.vals
  <2>1. ~IsCond(old, n)
    BY <1>3 DEF IsCond
  <2> QED BY <1>2, <2>1
<1>4. ASSUME NEW s \in Values(old) PROVE s \in Values(new)
  <2>1. PICK n, i : s = <<n, i>> /\ n \in DOMAIN old /\ i \in 1..Len(text) /\ old[n].t = "N_PRED" /\ i \in DOMAIN old[n].pred.vals
    BY DEF Values
  <2>2. n \in DOMAIN new /\ new[n].t = "N_PRED" /\ i \in DOMAIN new[n].pred.vals
    BY <1>2, <1>3, <2>1
  <2> QED BY <2>1, <2>2 DEF Values
<1>5. ASSUME NEW s \in Values(new) PROVE s \in Values(old)
  <2>1. PICK n, i : s = <<n, i>> /\ n \in DOMAIN new /\ i \in 1..Len(text) /\ new[n].t = "N_PRED" /\ i \in DOMAIN new[n].pred.vals
    BY DEF Values
  <2>2. n \in DOMAIN old /\ old[n].t = "N_PRED" /\ i \in DOMAIN old[n].pred.vals
    BY <1>2, <1>3, <2>1
  <2> QED BY <2>1, <2>2 DEF Values
<1>6. ASSUME NEW s \in Values(old)
      PROVE  ValueAt(new, s) = IF s \in Reached(failing) THEN CastTo(ValueAt(old, s), PropType(s), s)
                               ELSE ValueAt(old, s)
  <2>1. /\ s[1] \in DOMAIN old /\ ~IsCond(old, s[1]) /\ s = <<s[1], s[2]>>
        /\ s[2] \in DOMAIN old[s[1]].pred.vals
    BY <1>1, SlotValue
  <2>2. PICK n, i : n = s[1] /\ i = s[2]
    OBVIOUS
  <2>3. n \in DOMAIN old /\ ~IsCond(old, n) /\ s = <<n, i>> /\ i \in DOMAIN old[n].pred.vals
    BY <2>1, <2>2
  <2>4. new[n].pred.vals = [j \in DOMAIN old[n].pred.vals |->
                         IF <<n, j>> \in Reached(failing)
                         THEN CastTo(old[n].pred.vals[j], PropType(<<n, j>>), <<n, j>>)
                         ELSE old[n].pred.vals[j]]
    BY <1>2, <2>3
  <2>5. new[n].pred.vals[i] = IF s \in Reached(failing) THEN CastTo(old[n].pred.vals[i], PropType(s), s)
                              ELSE old[n].pred.vals[i]
    BY <2>3, <2>4
  <2>6. ValueAt(new, s) = new[n].pred.vals[i] /\ ValueAt(old, s) = old[n].pred.vals[i]
    BY <2>2 DEF ValueAt
  <2> QED BY <2>5, <2>6
<1> QED BY <1>4, <1>5, <1>6

(* A value that the property of its condition takes, or a bool.            *)
Taken(s) == ~Unbound(s[1]) /\ (Comparable(s) \/ UncastBool(s))

(* NormalizeExact, with the value's fitness named.                         *)
LEMMA ExactIs ==
    NormalizeExact <=> (phase = "ready" =>
           /\ verdict = "QE_OK" => \A s \in Values(query.nodes) : Taken(s)
           /\ verdict \in {"QE_INVALID_PROPERTY", "QE_INVALID_VALUE"} => ~ \A s \in Values(query.nodes) : Taken(s))
BY Zenon DEF NormalizeExact, Taken

(* MarkedAlike, told of the nodes alone.                                   *)
LEMMA AlikeIs == MarkedAlike <=> (verdict # "none" => Alike(query.nodes))
BY Zenon DEF MarkedAlike, Alike

(* SIQuery_Normalize keeps the invariant of the query: after QE_OK no      *)
(* value has failed and all were cast; the first that fails keeps its      *)
(* type.                                                                   *)
LEMMA QueryNormalize ==
    ASSUME QueryInv, Normalize
    PROVE  QueryInv'
<1>1. phase = "ready" /\ verdict = "none" /\ phase' = phase /\ spec' = spec
      /\ UNCHANGED <<text, stack, look, ctx, node, restart>>
  BY DEF Normalize
<1>2. PICK failing : Answers(failing)
  BY NormalizeAnswers
<1>3. PICK new : new = CastNodes(failing)
  OBVIOUS
<1>4. query' = [root |-> query.root, numPredicates |-> query.numPredicates, nodes |-> new]
  <2>1. query' = [query EXCEPT !.nodes = new]
    BY <1>2, <1>3 DEF Answers
  <2>2. query = [root |-> query.root, numPredicates |-> query.numPredicates, nodes |-> query.nodes]
    BY DEF QueryInv
  <2> QED BY <2>1, <2>2
<1>5. PICK old : old = query.nodes
  OBVIOUS
<1>6. IsQueryTree(old, Len(text))
  BY <1>1, <1>5 DEF QueryInv
<1>7. /\ \E id : IsMark(id, old) /\ \A n \in DOMAIN old : new[n].propId = id[n]
      /\ DOMAIN new = DOMAIN old
      /\ \A n \in DOMAIN old :
            /\ new[n].t = old[n].t
            /\ IsCond(old, n) => new[n].left = old[n].left /\ new[n].right = old[n].right
            /\ ~IsCond(old, n) =>
                  /\ new[n].propId = old[n].propId
                  /\ new[n].pred.vals = [i \in DOMAIN old[n].pred.vals |->
                         IF <<n, i>> \in Reached(failing)
                         THEN CastTo(old[n].pred.vals[i], PropType(<<n, i>>), <<n, i>>)
                         ELSE old[n].pred.vals[i]]
  BY <1>1, <1>3, <1>5, CastNode
<1>8. Alike(new)
  <2>1. PICK id : IsMark(id, old) /\ \A n \in DOMAIN old : new[n].propId = id[n]
    BY <1>7
  <2>2. \A n \in DOMAIN old :
           /\ new[n].t = old[n].t /\ new[n].propId = id[n]
           /\ IsCond(old, n) => new[n].left = old[n].left /\ new[n].right = old[n].right
    BY <1>7, <2>1
  <2>3. PICK max : max = Len(text)
    OBVIOUS
  <2>4. IsQueryTree(old, max) /\ DOMAIN new = DOMAIN old
    BY <1>6, <1>7, <2>3
  <2> QED BY <2>1, <2>2, <2>4, MarkedTree
<1>9. MarkedAlike'
  <2>1. query'.nodes = new
    BY <1>4
  <2>2. (MarkedAlike <=> (verdict # "none" => Alike(query.nodes)))'
    BY AlikeIs, PTL
  <2> QED BY <1>8, <2>1, <2>2
<1>10. verdict' \in Verdicts /\ (verdict' = "QE_OK" <=> failing = {}) /\ failing \subseteq Values(old)
       /\ (\A s \in failing : Fails(s)) /\ (\A s \in Values(old) \ failing : Passes(s))
  BY <1>2, <1>5 DEF Answers
<1>11. Values(query.nodes)' = Values(old)
  <2>1. query'.nodes = new /\ text' = text
    BY <1>1, <1>4
  <2>2. Values(query.nodes)' = Values(new)
    BY <2>1 DEF Values
  <2>3. PICK V, W : V = Values(new) /\ W = Values(old)
    OBVIOUS
  <2>4. \A s : s \in V <=> s \in W
    BY <1>1, <1>3, <1>5, <2>3, CastSlots
  <2> QED BY <2>2, <2>3, <2>4
<1>12. ASSUME NEW s \in Values(old)
       PROVE  /\ Unbound(s[1])' <=> Unbound(s[1])
              /\ PropType(s)' = PropType(s)
              /\ ValueAt(query.nodes, s)' = IF s \in Reached(failing) THEN CastTo(ValueAt(old, s), PropType(s), s)
                                            ELSE ValueAt(old, s)
  <2>1. s[1] \in DOMAIN old /\ ~IsCond(old, s[1])
    BY <1>5, <1>6, <1>12, SlotValue
  <2>2. new[s[1]].propId = old[s[1]].propId
    BY <1>7, <2>1
  <2>3. query'.nodes = new
    BY <1>4
  <2>4. ValueAt(query.nodes, s)' = ValueAt(new, s)
    BY <2>3 DEF ValueAt
  <2>5. Unbound(s[1])' <=> Unbound(s[1])
    BY <1>1, <1>5, <2>2, <2>3 DEF Unbound
  <2>6. PropType(s)' = PropType(s)
    BY <1>1, <1>5, <2>2, <2>3 DEF PropType
  <2>7. ValueAt(new, s) = IF s \in Reached(failing) THEN CastTo(ValueAt(old, s), PropType(s), s)
                          ELSE ValueAt(old, s)
    BY <1>1, <1>3, <1>5, <1>12, CastSlots
  <2> QED BY <2>4, <2>5, <2>6, <2>7
<1>13. ASSUME failing = {}, NEW s \in Values(old) PROVE Taken(s)'
  <2>1. s \in Reached(failing)
    BY <1>5, <1>13 DEF Reached
  <2>2. PICK v, type, w : v = ValueAt(old, s) /\ type = PropType(s) /\ w = CastTo(v, type, s)
    OBVIOUS
  <2>3. ~Unbound(s[1]) /\ query.nodes[s[1]].pred.t # "PRED_ISNULL" /\ \E b : Castable(v, type, b)
    <3>1. Passes(s)
      BY <1>10, <1>13
    <3> QED BY <1>5, <2>2, <3>1 DEF Passes
  <2>4. IsQueryValue(v)
    BY <1>5, <1>6, <1>13, <2>2, <2>3, SlotValue
  <2>5. v.type # "T_TIME"
    BY <2>3 DEF Castable
  <2>6. PICK t, p : v = [type |-> t, at |-> p]
    <3>1. ASSUME NEW p, NEW shifts, v = [type |-> "T_TIME", at |-> p, shifts |-> shifts] PROVE FALSE
      BY <2>5, <3>1
    <3> QED BY <2>4, <3>1 DEF IsQueryValue
  <2>7. "shifts" \notin DOMAIN w /\ w.type \in {"T_INF", "T_NEGINF", "T_BOOL", type}
    BY <2>2, <2>6 DEF CastTo
  <2>8. ValueAt(query.nodes, s)' = w /\ PropType(s)' = type /\ ~Unbound(s[1])'
    BY <1>12, <1>13, <2>1, <2>2, <2>3
  <2> QED BY <2>7, <2>8 DEF Taken, Comparable, UncastBool
<1>14. ASSUME failing # {} PROVE \E s \in Values(old) : ~Taken(s)'
  <2>1. PICK s \in Values(old) : s \in failing
    BY <1>10, <1>14
  <2>2. /\ s[1] \in Nat /\ s[2] \in Nat
        /\ query.nodes[s[1]].pred.t # "PRED_ISNULL" => IsQueryValue(ValueAt(old, s))
        /\ query.nodes[s[1]].pred.t = "PRED_ISNULL" => ValueAt(old, s) = Null
    BY <1>5, <1>6, SlotValue
  <2>3. s \notin Reached(failing)
    <3>1. ~Before(s, s)
      BY <2>2 DEF Before
    <3> QED BY <2>1, <3>1 DEF Reached
  <2>4. PICK v, type : v = ValueAt(old, s) /\ type = PropType(s)
    OBVIOUS
  <2>5. ValueAt(query.nodes, s)' = v /\ PropType(s)' = type /\ (Unbound(s[1])' <=> Unbound(s[1]))
    BY <1>12, <2>3, <2>4
  <2>6. \/ Unbound(s[1])
        \/ query.nodes[s[1]].pred.t = "PRED_ISNULL"
        \/ \E b : ~Castable(v, type, b)
    <3>1. Fails(s)
      BY <1>10, <2>1
    <3> QED BY <1>5, <2>4, <3>1 DEF Fails
  <2>7. CASE Unbound(s[1])
    BY <2>5, <2>7 DEF Taken
  <2>8. CASE ~Unbound(s[1]) /\ query.nodes[s[1]].pred.t = "PRED_ISNULL"
    <3>1. v = Null
      BY <2>2, <2>4, <2>8
    <3>2. type \in {"T_STRING", "T_INT32", "T_INT64", "T_UINT", "T_BOOL", "T_FLOAT", "T_DOUBLE", "T_TIME"}
      <4>1. spec \in Seq({"T_STRING", "T_INT32", "T_INT64", "T_UINT", "T_BOOL", "T_FLOAT", "T_DOUBLE", "T_TIME"})
        BY SpecsAssumption DEF QueryInv
      <4>2. PICK k : k = query.nodes[s[1]].propId
        OBVIOUS
      <4>3. k \in 0..(Len(spec) - 1) /\ type = spec[k + 1]
        BY <2>4, <2>8, <4>2 DEF Unbound, PropType
      <4>4. k + 1 \in 1..Len(spec)
        BY <4>1, <4>3
      <4> QED BY <4>1, <4>3, <4>4
    <3>3. v.type = "T_NULL"
      BY <3>1 DEF Null
    <3>4. v.type \notin {"T_INF", "T_NEGINF", "T_BOOL", type}
      BY <3>2, <3>3
    <3> QED BY <2>5, <3>4 DEF Taken, Comparable, UncastBool
  <2>9. CASE query.nodes[s[1]].pred.t # "PRED_ISNULL" /\ \E b : ~Castable(v, type, b)
    <3>1. IsQueryValue(v)
      BY <2>2, <2>4, <2>9
    <3>2. CASE \E p, shifts : v = [type |-> "T_TIME", at |-> p, shifts |-> shifts]
      <4>1. "shifts" \in DOMAIN v /\ v.type # "T_BOOL"
        BY <3>2
      <4> QED BY <2>5, <4>1 DEF Taken, Comparable, UncastBool
    <3>3. CASE \E t \in QueryTypes : \E p : v = [type |-> t, at |-> p]
      <4>1. v.type \in QueryTypes
        BY <3>3
      <4>2. v.type = "T_STRING" /\ type # "T_STRING"
        BY <2>9, <4>1 DEF Castable, QueryTypes, LiteralTypes
      <4>3. v.type \notin {"T_INF", "T_NEGINF", "T_BOOL", type}
        BY <4>2
      <4> QED BY <2>5, <4>3 DEF Taken, Comparable, UncastBool
    <3> QED BY <3>1, <3>2, <3>3 DEF IsQueryValue
  <2> QED BY <2>6, <2>7, <2>8, <2>9
<1>15. NormalizeExact'
  <2>1. (NormalizeExact <=> (phase = "ready" =>
           /\ verdict = "QE_OK" => \A s \in Values(query.nodes) : Taken(s)
           /\ verdict \in {"QE_INVALID_PROPERTY", "QE_INVALID_VALUE"} => ~ \A s \in Values(query.nodes) : Taken(s)))'
    BY ExactIs, PTL
  <2>2. verdict' = "QE_OK" => \A s \in Values(query.nodes)' : Taken(s)'
    BY <1>10, <1>11, <1>13
  <2>3. verdict' # "QE_OK" => ~ \A s \in Values(query.nodes)' : Taken(s)'
    BY <1>10, <1>11, <1>14
  <2> QED BY <2>1, <2>2, <2>3
<1>16. ParseInv'
  BY <1>1, ParseStays DEF QueryInv
<1> QED BY <1>1, <1>4, <1>9, <1>10, <1>15, <1>16 DEF QueryInv, Verdicts

(* SIQuery_Free keeps it,                                                  *)
LEMMA QueryFree ==
    ASSUME QueryInv, FreeQuery
    PROVE  QueryInv'
<1>1. phase = "ready" /\ phase' = "done" /\ verdict' = verdict /\ spec' = spec /\ query' = NoQuery
      /\ UNCHANGED <<text, stack, look, ctx, node, restart>>
  BY DEF FreeQuery
<1>2. NormalizeExact'
  <2>1. phase' # "ready"
    BY <1>1
  <2> QED BY <2>1, Zenon DEF NormalizeExact
<1>3. MarkedAlike'
  <2>1. (MarkedAlike <=> (verdict # "none" => Alike(query.nodes)))'
    BY AlikeIs, PTL
  <2>2. DOMAIN query'.nodes = {}
    BY <1>1 DEF NoQuery
  <2>3. Alike(query'.nodes)
    BY <2>2, Zenon DEF Alike
  <2> QED BY <2>1, <2>3
<1>4. ParseInv'
  BY <1>1, ParseStays DEF QueryInv
<1> QED BY <1>1, <1>2, <1>3, <1>4 DEF QueryInv, NoQuery

(* and so does a step that changes nothing.                                *)
LEMMA QueryStays ==
    ASSUME QueryInv, UNCHANGED vars
    PROVE  QueryInv'
<1>1. UNCHANGED <<text, stack, look, ctx, node, restart>> /\ phase' = phase /\ verdict' = verdict /\ spec' = spec /\ query' = query
  BY DEF vars
<1>2. ParseInv'
  BY <1>1, ParseStays DEF QueryInv
<1>3. MarkedAlike'
  <2>1. (MarkedAlike <=> (verdict # "none" => Alike(query.nodes)))'
    BY AlikeIs, PTL
  <2> QED BY <1>1, <2>1, AlikeIs DEF QueryInv
<1>4. NormalizeExact'
  <2>1. (NormalizeExact <=> (phase = "ready" =>
           /\ verdict = "QE_OK" => \A s \in Values(query.nodes) : Taken(s)
           /\ verdict \in {"QE_INVALID_PROPERTY", "QE_INVALID_VALUE"} => ~ \A s \in Values(query.nodes) : Taken(s)))'
    BY ExactIs, PTL
  <2>2. Values(query.nodes)' = Values(query.nodes)
    BY <1>1 DEF Values
  <2>3. \A s : Taken(s)' <=> Taken(s)
    BY <1>1 DEF Taken, Comparable, UncastBool, Unbound, ValueAt, PropType
  <2>4. NormalizeExact
    BY DEF QueryInv
  <2> QED BY <1>1, <2>1, <2>2, <2>3, <2>4, ExactIs
<1> QED BY <1>1, <1>2, <1>3, <1>4 DEF QueryInv

-----------------------------------------------------------------------------
(* The invariant of the parser and of the query.                           *)
THEOREM QueryInvariant == Spec => []QueryInv
<1>1. Init => QueryInv
  BY QueryInit
<1>2. QueryInv /\ [Next]_vars => QueryInv'
  <2> SUFFICES ASSUME QueryInv, [Next]_vars PROVE QueryInv'
    OBVIOUS
  <2>1. CASE Parsing \/ Refused \/ Unsupported \/ FreeTree
    BY <2>1, QueryBefore
  <2>2. CASE Convert
    BY <2>2, QueryConvert
  <2>3. CASE Normalize
    BY <2>3, QueryNormalize
  <2>4. CASE FreeQuery
    BY <2>4, QueryFree
  <2>5. CASE UNCHANGED vars
    BY <2>5, QueryStays
  <2> QED BY <2>1, <2>2, <2>3, <2>4, <2>5 DEF Next
<1> QED BY <1>1, <1>2, PTL DEF Spec

(* SIQuery_Normalize marks a logic node with a property exactly when every *)
(* condition under it is on that property, for texts of any length.        *)
THEOREM MarksAlike == Spec => []MarkedAlike
<1>1. QueryInv => MarkedAlike
  BY DEF QueryInv
<1> QED BY <1>1, QueryInvariant, PTL

(* What SIQuery_Normalize answers is what the values of the query are:     *)
(* after QE_OK each is one its property's comparator can read or a bool    *)
(* that castPredicateValue has passed uncast; after a refusal one of them  *)
(* is neither, or is compared with no property of the index.               *)
THEOREM NormalizesExactly == Spec => []NormalizeExact
<1>1. QueryInv => NormalizeExact
  BY DEF QueryInv
<1> QED BY <1>1, QueryInvariant, PTL

(* What the generated parser asserts and takes for granted: the stack      *)
(* keeps to its array; whatever a token and the state call for is a shift, *)
(* an error, the acceptance of the one tree that is on the stack, or a     *)
(* rule whose right-hand side is on the stack above a state that the goto  *)
(* table lists; and the operands of a connective are nodes that stand on   *)
(* either side of it, so that ParseNode_Free comes to an end.              *)
ParserSound ==
    /\ Len(stack) <= YYSTACKDEPTH
    /\ InParse =>
          \/ Action < YYNSTATE /\ look \in DOMAIN Terminals
          \/ Action = YYNSTATE + YYNRULE
          \/ /\ Action = YYNSTATE /\ Len(stack) = 2
             /\ FindReduceAction(stack[1].stateno, lhs[1]) = Accept
             /\ stack[2].minor.at \in DOMAIN node
          \/ /\ Action - YYNSTATE \in 1..(YYNRULE - 1)
             /\ nrhs[Action - YYNSTATE + 1] < Len(stack)
             /\ LET from == stack[Len(stack) - nrhs[Action - YYNSTATE + 1]].stateno
                IN  from <= YY_REDUCE_COUNT /\ Listed(yy_reduce_ofst[from + 1], lhs[Action - YYNSTATE + 1])
    /\ \A n \in DOMAIN node :
          node[n].t = "N_COND" => /\ node[n].left \in DOMAIN node /\ node[n].left < n
                                  /\ node[n].right \in DOMAIN node /\ n < node[n].right

(* The invariant of the parser says what its tables take for granted.      *)
LEMMA SoundNow == ParseInv => ParserSound
<1> SUFFICES ASSUME ParseInv PROVE ParserSound
  OBVIOUS
<1>1. Len(stack) <= YYSTACKDEPTH
  BY DEF ParseInv
<1>2. ASSUME NEW n \in DOMAIN node, node[n].t = "N_COND"
      PROVE  /\ node[n].left \in DOMAIN node /\ node[n].left < n
             /\ node[n].right \in DOMAIN node /\ n < node[n].right
  <2>1. PICK low, high : Shaped(node, low, high, Len(text))
    BY DEF ParseInv, InStep, Forest
  <2>2. PICK l, r : l = node[n].left /\ r = node[n].right
    OBVIOUS
  <2>3. l \in DOMAIN node /\ r \in DOMAIN node /\ high[l] < n /\ n < low[r]
    BY <1>2, <2>1, <2>2 DEF Shaped, IsCond
  <2>4. l \in Nat /\ high[l] \in Nat /\ l <= high[l] /\ r \in Nat /\ low[r] \in Nat /\ low[r] <= r /\ n \in Nat
    BY <1>2, <2>1, <2>3 DEF Shaped
  <2>5. l < n /\ n < r
    BY <2>3, <2>4
  <2> QED BY <2>2, <2>3, <2>5
<1>3. ASSUME InParse, Action < YYNSTATE PROVE look \in DOMAIN Terminals
  <2>1. look \in 1..32
    BY <1>3, Shifts
  <2>2. DOMAIN Terminals = 1..32
    BY DEF Terminals
  <2> QED BY <2>1, <2>2
<1>4. ASSUME InParse, Action = YYNSTATE
      PROVE  /\ Len(stack) = 2 /\ FindReduceAction(stack[1].stateno, lhs[1]) = Accept
             /\ stack[2].minor.at \in DOMAIN node
  <2>1. Len(stack) = 2 /\ stack[1].stateno = 0 /\ \E n \in DOMAIN node : stack[2].minor = [at |-> n]
    BY <1>4, Accepts
  <2>2. FindReduceAction(0, lhs[1]) = Accept
    BY DEF FindReduceAction, lhs, yy_reduce_ofst, yy_action, Accept, YYNSTATE, YYNRULE
  <2> QED BY <2>1, <2>2
<1>5. ASSUME InParse, Action - YYNSTATE \in 1..(YYNRULE - 1)
      PROVE  /\ nrhs[Action - YYNSTATE + 1] < Len(stack)
             /\ LET from == stack[Len(stack) - nrhs[Action - YYNSTATE + 1]].stateno
                IN  from <= YY_REDUCE_COUNT /\ Listed(yy_reduce_ofst[from + 1], lhs[Action - YYNSTATE + 1])
  <2>1. PICK rule : rule = Action - YYNSTATE
    OBVIOUS
  <2>2. PICK n \in {1, 3, 4, 6} : Handled(stack, rule, n)
    BY <1>5, <2>1, Rules
  <2>3. n = nrhs[rule + 1] /\ n < Len(stack) /\ Leads(stack[Len(stack) - n].stateno, lhs[rule + 1])
    BY <2>2 DEF Handled
  <2> QED BY <2>1, <2>3 DEF Leads
<1>6. ASSUME InParse
      PROVE  \/ Action < YYNSTATE
             \/ Action = YYNSTATE + YYNRULE
             \/ Action = YYNSTATE
             \/ Action - YYNSTATE \in 1..(YYNRULE - 1)
  <2>1. PICK t : t = stack[Len(stack)].stateno
    OBVIOUS
  <2>2. t \in 0..77 /\ look \in 0..32 /\ Action = FindShiftAction(t, look)
    BY <1>6, <2>1, AtWork
  <2>3. IsAction(Action, t, look)
    BY <2>2, ShiftTable
  <2>4. PICK a : a = Action
    OBVIOUS
  <2>5. a \in 0..113
    BY <2>3, <2>4 DEF IsAction
  <2>6. a < 78 \/ a = 113 \/ a = 78 \/ a - 78 \in 1..34
    BY <2>5
  <2> QED BY <2>4, <2>6 DEF YYNSTATE, YYNRULE
<1> QED BY <1>1, <1>2, <1>3, <1>4, <1>5, <1>6 DEF ParserSound

(* The parser's assertions hold, for texts of any length and a stack of    *)
(* any depth.                                                              *)
THEOREM ParserAssertions == Spec => []ParserSound
<1>1. QueryInv => ParserSound
  BY SoundNow DEF QueryInv
<1> QED BY <1>1, QueryInvariant, PTL

=============================================================================
