SPECIFICATION FairSpec
CONSTANTS
  c1 = c1  c2 = c2  a1 = a1  a2 = a2  a3 = a3  s1 = s1  r1 = r1  r2 = r2
  None = None
  Call <- MCCall
  Adjusting <- MCAdjusting
  Supersedes <- MCSupersedes
  Binding = {1, 2}
  Month = {1, 2}
  MonthOf <- MCMonthOf
  Amount <- MCAmount
  Limit <- MCLimit
  Tax <- MCTax
  Refund <- MCRefund
  RefundOf <- MCRefundOf
  RefundAmount <- MCRefundAmount
  MaxFaults = 1
INVARIANTS
  TotalsOfStanding CrossedOnce ReadsItsPast OneSuccessor
  RefundsWithinTax
PROPERTY CallEnds
